----------------------- MODULE ConfigurationController -----------------------
(***************************************************************************)
(* The configuration controller                                            *)
(* (internal/controller/configuration_controller.go).  ConfigurationSystem *)
(* adds the cluster it works in.                                           *)
(*                                                                         *)
(* Reconcile runs in one worker: call is that call's frame, call.pc the    *)
(* place it has reached.  Every request to the API server is a step of its *)
(* own, so anything may happen between two requests.  Reads go to the      *)
(* informer's copy of an object (cache, nsCache), writes to the object     *)
(* itself (config, ns).                                                    *)
(*                                                                         *)
(* Right above some definitions stands the mistake that the properties are *)
(* tested with: a definition of the same parameters that no action uses.   *)
(***************************************************************************)
EXTENDS Configuration

CONSTANTS
    ObjectTypes,       \* the keys of templates.OrderedObjectList
    ClusterScoped,     \* the object types that are not namespaced
    CRDType,           \* CustomResourceDefinition
    ControllerType,    \* Deployment: it runs kube-ovn-controller
    CRs,               \* the custom resources users may create
    NamespacedCRs,     \* the ones of a namespaced CRD
    Propagation,       \* the deletion policies users ask for
    LeaderSets,        \* the databases whose leader a health check finds
    MaxUID,            \* bound: incarnations of the Configuration
    MaxDisturbances    \* bound: faults and outside changes

ASSUME ObjectTypesAssumption ==
    /\ ClusterScoped \subseteq ObjectTypes
    /\ CRDType \in ClusterScoped
    /\ ControllerType \in ObjectTypes \ ClusterScoped
ASSUME CRsAssumption == NamespacedCRs \subseteq CRs
ASSUME PropagationAssumption == Propagation \subseteq {"Background", "Foreground"}
ASSUME LeadersAssumption == LeaderSets \subseteq SUBSET {"nb", "sb"}
ASSUME BoundsAssumption == MaxUID \in Nat /\ MaxDisturbances \in Nat

VARIABLES
    config,    \* the Configuration
    ns,        \* the fake Namespace that owns the cluster-scoped objects
    objs,      \* the managed objects, one for each object type
    crs,       \* the custom resources
    nodes,     \* the nodes and whether they carry the master label
    nodeFin,   \* the nodes that carry the node controller's finalizer
    caReady,   \* the webhook's certificate secret has its ca.crt
    cache,     \* the informer's copy of the Configuration
    nsCache,   \* the informer's copy of the Namespace
    cq,        \* the Configuration's key is in the work queue
    call,      \* the running call of Reconcile
    applied,   \* history: the incarnation each type was last applied for
    overlooked, \* history: a deletion went past the Namespace unseen
    untimely,  \* history: CRs created when no Configuration was deployed
    budget     \* disturbances left

owned     == <<objs, applied>>
nsState   == <<ns, overlooked>>
custom    == <<crs, untimely>>
nodeState == <<nodes, nodeFin>>
copies    == <<cache, nsCache>>

vars == <<config, nsState, owned, custom, nodeState, caReady, copies, cq, call, budget>>

LivePath     == {"nsRef", "findNodes", "apply", "object", "status"}
DeletionPath == {"crds", "ns", "finalizer", "nodes"}

NamespaceObject == [phase : {"Absent", "Active", "Terminating"}, uid : Nat]
Phases          == {"Absent", "Live", "Terminating"}
ManagedObject   == [phase : Phases, owner : Nat, addrs : SUBSET Nodes]
CRPhases        == {"Absent", "Live", "Held", "Terminating"}  \* Held: finalizer
NoObject        == [phase |-> "Absent", owner |-> 0, addrs |-> {}]

(***************************************************************************)
(* A call's frame: the object as read and its modified copy, whether       *)
(* SetCondition was called, the uid of the Namespace it read, what its     *)
(* loop has still to visit, and whether objectCount is positive.           *)
(***************************************************************************)
Call ==
    [ pc      : {"idle"} \cup LivePath \cup DeletionPath,
      obj     : ConfigurationObject,
      cfg     : ConfigurationObject,
      touched : BOOLEAN,
      owner   : Nat,
      todo    : SUBSET (ObjectTypes \cup CRs \cup Nodes),
      found   : BOOLEAN ]

Idle ==
    [ pc |-> "idle", obj |-> NoConfig, cfg |-> NoConfig, touched |-> FALSE,
      owner |-> 0, todo |-> {}, found |-> FALSE ]

(* Every variable has its type, and a loop visits what its step is about. *)
TypeOK ==
    /\ config \in ConfigurationObject
    /\ ns \in NamespaceObject
    /\ objs \in [ObjectTypes -> ManagedObject]
    /\ crs \in [CRs -> CRPhases]
    /\ nodes \in [Nodes -> {"Absent", "Worker", "Master"}]
    /\ nodeFin \subseteq Nodes
    /\ caReady \in BOOLEAN
    /\ cache \in ConfigurationObject
    /\ nsCache \in NamespaceObject
    /\ cq \in BOOLEAN
    /\ call \in Call
    /\ call.pc = "object" => call.todo \subseteq ObjectTypes
    /\ call.pc = "crds"   => call.todo \subseteq CRs
    /\ call.pc = "nodes"  => call.todo \subseteq Nodes
    /\ applied \in [ObjectTypes -> Nat]
    /\ overlooked \in BOOLEAN
    /\ untimely \subseteq CRs
    /\ budget \in Nat

(* The cluster before the first Configuration is created. *)
Init ==
    /\ config = NoConfig
    /\ ns = [phase |-> "Absent", uid |-> 0]
    /\ objs = [t \in ObjectTypes |-> NoObject]
    /\ crs = [r \in CRs |-> "Absent"]
    /\ nodes \in [Nodes -> {"Worker", "Master"}]
    /\ nodeFin = {}
    /\ caReady = TRUE
    /\ cache = NoConfig
    /\ nsCache = [phase |-> "Absent", uid |-> 0]
    /\ cq = FALSE
    /\ call = Idle
    /\ applied = [t \in ObjectTypes |-> 0]
    /\ overlooked = FALSE
    /\ untimely = {}
    /\ budget = MaxDisturbances

----------------------------------------------------------------------------
(* Reconcile: take the key from the queue, read the Configuration.         *)

At(pc) == call.pc = pc

Goto(pc) == call' = [call EXCEPT !.pc = pc] /\ UNCHANGED cq

(* The call ends with nil, or with an error that has its key retried. *)
Return  == call' = Idle /\ UNCHANGED cq
Requeue == call' = Idle /\ cq' = TRUE

Dequeue == At("idle") /\ cq

FinalizerAssumed(c) == TRUE
ContainsFinalizer(c) == c.fin

TornDownWhileWaiting(c) ==
    c.exists /\ (c.deleting \/ ConditionTrue(c, WaitingForMatchignNodes))
UnderDeletion(c) == c.exists /\ c.deleting

ReconcileNotFound ==
    /\ Dequeue
    /\ ~cache.exists
    /\ cq' = FALSE
    /\ UNCHANGED <<config, nsState, owned, custom, nodeState, caReady, copies, call,
                   budget>>

ReconcileDeletion ==
    /\ Dequeue
    /\ UnderDeletion(cache)
    /\ cq' = FALSE
    /\ call' = [Idle EXCEPT !.pc = "crds", !.obj = cache, !.cfg = cache,
                            !.todo = CRs]
    /\ UNCHANGED <<config, nsState, owned, custom, nodeState, caReady, copies,
                   budget>>

(***************************************************************************)
(* The patch sets the list of finalizers to the operator's own, for the    *)
(* copy had none.  The API server refuses a new finalizer on an object     *)
(* under deletion, but not the loss of one.                                *)
(***************************************************************************)
TakesFinalizer == config.exists /\ (config.deleting => config.fin)

AddFinalizer ==
    /\ Dequeue
    /\ Live(cache)
    /\ ~ContainsFinalizer(cache)
    /\ config' = IF TakesFinalizer THEN [config EXCEPT !.fin = TRUE, !.held = FALSE]
                                   ELSE config
    /\ cq' = ~TakesFinalizer
    /\ UNCHANGED <<nsState, owned, custom, nodeState, caReady, copies, call,
                   budget>>

ReconcileSteps ==
    /\ Dequeue
    /\ Live(cache)
    /\ ContainsFinalizer(cache)
    /\ cq' = FALSE
    /\ call' = [Idle EXCEPT
                  !.pc = "nsRef",
                  !.obj = cache,
                  !.cfg = initializeConditions(cache),
                  !.touched = \E t \in ConditionTypes : ~ConditionExists(cache, t)]
    /\ UNCHANGED <<config, nsState, owned, custom, nodeState, caReady, copies,
                   budget>>

----------------------------------------------------------------------------
(* The steps of a Configuration that is not under deletion.                *)

(* A read of the fake Namespace is answered from the informer's copy. *)
NamespaceRead == nsCache

CreateNamespace ==
    /\ ns' = [phase |-> "Active", uid |-> ns.uid + 1]
    /\ overlooked' = FALSE

(* A Namespace that is going is taken back. *)
NamespaceReopened ==
    /\ At("nsRef")
    /\ IF ns.phase = "Active" THEN UNCHANGED nsState ELSE CreateNamespace
    /\ Goto("findNodes")
    /\ UNCHANGED <<config, owned, custom, nodeState, caReady, copies, budget>>

(* Create the Namespace unless the read finds it.  One that an earlier     *)
(* deletion overlooked is taken over when it is found.                     *)
reconcileClusterScopedReference ==
    /\ At("nsRef")
    /\ \/ /\ NamespaceRead.phase # "Absent"
          /\ Goto("findNodes")
          /\ overlooked' = (overlooked /\ NamespaceRead.uid # ns.uid)
          /\ UNCHANGED ns
       \/ /\ NamespaceRead.phase = "Absent"
          /\ ns.phase = "Absent"
          /\ CreateNamespace
          /\ Goto("findNodes")
       \/ /\ NamespaceRead.phase = "Absent"
          /\ ns.phase # "Absent"               \* AlreadyExists
          /\ Requeue
          /\ UNCHANGED nsState
    /\ UNCHANGED <<config, owned, custom, nodeState, caReady, copies, budget>>

MatchingNodes == { n \in Nodes \ Addressless : nodes[n] = "Master" }

FirstAddressesOnly(c) == c.addrs = {} /\ MatchingNodes # {}
AddressesDiffer(c) == MatchingNodes # c.addrs

findMasterNodes ==
    /\ At("findNodes")
    /\ LET c == call.cfg
           paused == /\ MatchingNodes = {}
                     /\ ~ConditionTrue(c, WaitingForMatchignNodes)
           changed == ~paused /\ AddressesDiffer(c)
       IN  call' = [call EXCEPT
             !.pc = "apply",
             !.touched = @ \/ paused \/ changed,
             !.cfg = CASE paused  -> SetCondition(c, WaitingForMatchignNodes, "True")
                       [] changed -> [SetCondition(c, WaitingForMatchignNodes, "False")
                                        EXCEPT !.addrs = MatchingNodes]
                       [] OTHER   -> c]
    /\ UNCHANGED <<config, nsState, owned, custom, nodeState, caReady, copies, cq,
                   budget>>

(* The checks before the loop of applyObject. *)
SkippedOnceDeployed(c) == c.addrs = {} \/ c.status # ""
Skipped(c) == c.addrs = {} \/ c.status = "Deploying"

applyObject ==
    /\ At("apply")
    /\ LET ready == NamespaceRead.phase # "Absent" /\ caReady
       IN  \/ Skipped(call.cfg) /\ Goto("status")
           \/ ~Skipped(call.cfg) /\ ~ready /\ Requeue
           \/ /\ ~Skipped(call.cfg)
              /\ ready
              /\ call' = [call EXCEPT !.pc = "object",
                                      !.owner = NamespaceRead.uid,
                                      !.todo = ObjectTypes]
              /\ UNCHANGED cq
    /\ UNCHANGED <<config, nsState, owned, custom, nodeState, caReady, copies,
                   budget>>

OneIsEnough(t) == TRUE
LastObject(t) == call.todo = {t}

(***************************************************************************)
(* Server-side apply of one object.  A Go map is visited in any order.     *)
(* The apply creates the object or takes its fields over; it cannot revive *)
(* one that is under deletion.                                             *)
(***************************************************************************)
reconcileObject(t) ==
    /\ At("object")
    /\ t \in call.todo
    /\ objs' = [objs EXCEPT ![t] =
         [ phase |-> IF @.phase = "Absent" THEN "Live" ELSE @.phase,
           owner |-> IF t \in ClusterScoped THEN call.owner ELSE call.cfg.uid,
           addrs |-> call.cfg.addrs ]]
    /\ applied' = [applied EXCEPT ![t] = call.cfg.uid]
    /\ call' = IF LastObject(t)
                 THEN [call EXCEPT !.pc = "status", !.todo = {},
                                   !.cfg.status = "Deployed"]
                 ELSE [call EXCEPT !.todo = @ \ {t}]
    /\ UNCHANGED <<config, nsState, custom, nodeState, caReady, copies, cq, budget>>

(* The status is patched if it differs from the one that was read. *)
PatchStatus ==
    /\ At("status")
    /\ LET same == /\ ~call.touched
                   /\ call.cfg.addrs = call.obj.addrs
                   /\ call.cfg.status = call.obj.status
       IN  \/ same /\ Return /\ UNCHANGED config
           \/ /\ ~same
              /\ config.exists
              /\ config' = MergeStatus(config, call.obj, call.cfg, call.touched)
              /\ Return
           \/ ~same /\ ~config.exists /\ Requeue /\ UNCHANGED config
    /\ UNCHANGED <<nsState, owned, custom, nodeState, caReady, copies, budget>>

----------------------------------------------------------------------------
(* deleteClusterScopedReference, for a Configuration under deletion.       *)

NothingDeleted(R) == UNCHANGED custom

(* A custom resource that kube-ovn-controller does not hold is gone at once. *)
DeleteCRs(R) ==
    /\ crs' = [r \in CRs |->
                 CASE r \in R /\ crs[r] = "Live" -> "Absent"
                   [] r \in R /\ crs[r] = "Held" -> "Terminating"
                   [] OTHER -> crs[r]]
    /\ untimely' = { r \in untimely : crs'[r] # "Absent" }

(***************************************************************************)
(* ensureCRDObjectCleanup, for the custom resource r: it is counted, and   *)
(* deleted unless it already is under deletion.  The delete request names  *)
(* no namespace, so one for a namespaced resource is not found.            *)
(***************************************************************************)
cleanupCR(r) ==
    /\ At("crds")
    /\ r \in call.todo
    /\ \/ /\ crs[r] = "Absent"
          /\ call' = [call EXCEPT !.todo = @ \ {r}]
          /\ UNCHANGED <<crs, untimely, cq>>
       \/ /\ crs[r] = "Terminating"
          /\ call' = [call EXCEPT !.todo = @ \ {r}, !.found = TRUE]
          /\ UNCHANGED <<crs, untimely, cq>>
       \/ /\ crs[r] \in {"Live", "Held"}
          /\ r \notin NamespacedCRs
          /\ call' = [call EXCEPT !.todo = @ \ {r}, !.found = TRUE]
          /\ DeleteCRs({r})
          /\ UNCHANGED cq
       \/ /\ crs[r] \in {"Live", "Held"}
          /\ r \in NamespacedCRs
          /\ Requeue
          /\ UNCHANGED <<crs, untimely>>
    /\ UNCHANGED <<config, nsState, owned, nodeState, caReady, copies, budget>>

NotAwaited == TRUE
AllGone == ~call.found

ensureCRDObjectCleanup ==
    /\ At("crds")
    /\ call.todo = {}
    /\ \/ ~AllGone /\ Requeue
       \/ AllGone /\ Goto("ns")
    /\ UNCHANGED <<config, nsState, owned, custom, nodeState, caReady, copies,
                   budget>>

NamespaceForgotten ==
    /\ At("ns")
    /\ Goto("finalizer")
    /\ UNCHANGED <<config, nsState, owned, custom, nodeState, caReady, copies, budget>>

(* A copy that does not know the Namespace yet makes the deletion pass it. *)
DeleteNamespace ==
    /\ At("ns")
    /\ \/ /\ NamespaceRead.phase = "Absent"
          /\ Goto("finalizer")
          /\ overlooked' = (overlooked \/ ns.phase = "Active")
          /\ UNCHANGED ns
       \/ /\ NamespaceRead.phase # "Absent"
          /\ ns.phase = "Absent"               \* NotFound
          /\ Requeue
          /\ UNCHANGED nsState
       \/ /\ NamespaceRead.phase # "Absent"
          /\ ns.phase # "Absent"
          /\ ns' = [ns EXCEPT !.phase = "Terminating"]
          /\ overlooked' = FALSE
          /\ Goto("finalizer")
    /\ UNCHANGED <<config, owned, custom, nodeState, caReady, copies, budget>>

(***************************************************************************)
(* The patch replaces the list of finalizers by the one that was read less *)
(* the operator's own.  Adding one to an object under deletion is refused. *)
(***************************************************************************)
RemoveFinalizer ==
    /\ At("finalizer")
    /\ \/ /\ ContainsFinalizer(call.cfg)
          /\ LET refused == \/ ~config.exists
                            \/ config.deleting /\ call.cfg.held /\ ~config.held
             IN  \/ refused /\ Requeue /\ UNCHANGED config
                 \/ /\ ~refused
                    /\ config' = Settle([config EXCEPT !.fin = FALSE,
                                                       !.held = call.cfg.held])
                    /\ Return
       \/ /\ ~ContainsFinalizer(call.cfg)
          /\ call' = [call EXCEPT !.pc = "nodes", !.todo = nodeFin]
          /\ UNCHANGED <<config, cq>>
    /\ UNCHANGED <<nsState, owned, custom, nodeState, caReady, copies, budget>>

(* The loop that takes the node finalizers off. *)
releaseNode(n) ==
    /\ At("nodes")
    /\ n \in call.todo
    /\ nodeFin' = nodeFin \ {n}
    /\ call' = [call EXCEPT !.todo = @ \ {n}]
    /\ UNCHANGED <<config, nsState, owned, custom, nodes, caReady, copies, cq,
                   budget>>

NodesReleased ==
    /\ At("nodes")
    /\ call.todo = {}
    /\ Return
    /\ UNCHANGED <<config, nsState, owned, custom, nodeState, caReady, copies,
                   budget>>

----------------------------------------------------------------------------
(* The client machinery: informers, work queue, resync, faults.            *)

Deliver ==
    /\ cache # config
    /\ cache' = config
    /\ cq' = TRUE
    /\ UNCHANGED <<config, nsState, owned, custom, nodeState, caReady, nsCache,
                   call, budget>>

(* Nothing is enqueued for a Namespace: it is not a watched type. *)
DeliverNamespace ==
    /\ nsCache # ns
    /\ nsCache' = ns
    /\ UNCHANGED <<config, nsState, owned, custom, nodeState, caReady, cache, cq,
                   call, budget>>

(* The informer's periodic resync. *)
Resync ==
    /\ cache.exists
    /\ ~cq
    /\ cq' = TRUE
    /\ UNCHANGED <<config, nsState, owned, custom, nodeState, caReady, copies, call,
                   budget>>

Disturb == budget > 0 /\ budget' = budget - 1

(* A request of the running call fails, or its reply is lost. *)
Fail ==
    /\ ~At("idle")
    /\ Disturb
    /\ Requeue
    /\ UNCHANGED <<config, nsState, owned, custom, nodeState, caReady, copies>>

(* The operator dies and starts again: it lists and enqueues everything. *)
Restart ==
    /\ Disturb
    /\ call' = Idle
    /\ cache' = config
    /\ nsCache' = ns
    /\ cq' = config.exists
    /\ UNCHANGED <<config, nsState, owned, custom, nodeState, caReady>>

(***************************************************************************)
(* filterObject: an event of a managed object enqueues the Configuration   *)
(* that owns it.  The owner of a cluster-scoped object is the Namespace.   *)
(***************************************************************************)
filterObject(t) == cq' = (cq \/ t \notin ClusterScoped)

----------------------------------------------------------------------------

(* One step of the running call. *)
Step ==
    \/ ReconcileNotFound \/ ReconcileDeletion \/ AddFinalizer \/ ReconcileSteps
    \/ reconcileClusterScopedReference \/ findMasterNodes \/ applyObject
    \/ \E t \in ObjectTypes : reconcileObject(t)
    \/ PatchStatus
    \/ \E r \in CRs : cleanupCR(r)
    \/ ensureCRDObjectCleanup \/ DeleteNamespace \/ RemoveFinalizer
    \/ \E n \in Nodes : releaseNode(n)
    \/ NodesReleased

(* One step of the client machinery that serves it. *)
Machinery == Deliver \/ DeliverNamespace \/ Resync \/ Fail \/ Restart

=============================================================================
