--------------------- MODULE ConfigurationSystemProofs ---------------------
(***************************************************************************)
(* Proofs for ConfigurationSystem, for any number of nodes, object types,  *)
(* custom resources, incarnations and disturbances.                        *)
(*                                                                         *)
(* The argument turns on the finalizer.  A call that works from a copy     *)
(* with the finalizer works for the Configuration that exists now, because *)
(* only this controller takes the finalizer off, and it does so in a call  *)
(* that has seen the deletion.  A copy that says "under deletion" may be   *)
(* stale, but then the Configuration that exists now has no finalizer, and *)
(* so has no Namespace yet that the call could destroy.                    *)
(***************************************************************************)
EXTENDS ConfigurationSystem, ConfigurationProofs, TLAPS

USE DEF nsState

(* A copy with the finalizer, not under deletion, is of today's object. *)
CopyIsCurrent ==
    Live(cache) /\ cache.fin =>
        /\ config.exists
        /\ config.fin
        /\ config.uid = cache.uid

(* A copy under deletion is of an object that is, or is gone. *)
CopyIsEnding ==
    cache.exists /\ cache.deleting /\ config.exists /\ config.fin => config.deleting

(* The object of a call that applies is kept by its finalizer. *)
LiveCallIsGuarded ==
    call.pc \in LivePath =>
        /\ config.exists
        /\ config.fin
        /\ config.uid = call.cfg.uid

(* No call deletes anything of an object that is not under deletion. *)
DeletionCallIsEnding ==
    call.pc \in DeletionPath =>
        /\ ~(Live(cache) /\ cache.fin)
        /\ config.exists /\ config.fin => config.deleting

Guarding ==
    /\ CopyIsCurrent
    /\ CopyIsEnding
    /\ LiveCallIsGuarded
    /\ DeletionCallIsEnding

(* When the finalizer's turn comes, the Namespace is deleted or overlooked. *)
NamespaceClosed ==
    call.pc \in {"finalizer", "nodes"} => ns.phase # "Active" \/ overlooked

(* Copies and calls that say Deployed have earned it as well. *)
CopyIsEarned ==
    Live(cache) /\ cache.fin /\ cache.status = "Deployed" =>
        \A t \in ObjectTypes : applied[t] = cache.uid

CallIsEarned ==
    call.pc \in LivePath /\ call.cfg.status = "Deployed" =>
        \A t \in ObjectTypes : applied[t] = call.cfg.uid

LoopIsEarned ==
    call.pc = "object" =>
        \A t \in ObjectTypes \ call.todo : applied[t] = call.cfg.uid

Earning ==
    /\ DeployedIsEarned
    /\ CopyIsEarned
    /\ CallIsEarned
    /\ LoopIsEarned

(* What the loop over the custom resources has passed is gone or counted. *)
Cleaned ==
    /\ call.pc = "crds" =>
         \A r \in CRs \ call.todo :
            crs[r] = "Absent" \/ r \in untimely \/ call.found
    /\ call.pc = "ns" =>
         \A r \in CRs : crs[r] = "Absent" \/ r \in untimely
----------------------------------------------------------------------------
(* The frame between two calls. *)
LEMMA IdleType == Idle \in Call /\ Idle.pc = "idle" /\ Idle.todo = {}
BY NoConfigType DEF Idle, Call, LivePath, DeletionPath

----------------------------------------------------------------------------
(* Type correctness.                                                       *)

(* A step of the running call keeps the types. *)
LEMMA StepTypeOK ==
    ASSUME TypeOK, Step
    PROVE  TypeOK'
<1> USE IdleType DEF At, Goto, Return, Requeue, Dequeue, ContainsFinalizer,
                     UnderDeletion, TakesFinalizer, AddressesDiffer, Skipped,
                     LastObject, AllGone, owned, custom,
                     nodeState, copies
<1>1. CASE ReconcileNotFound
  BY <1>1 DEF ReconcileNotFound, TypeOK
<1>2. CASE ReconcileDeletion
  <2>1. call' \in Call
    BY <1>2 DEF ReconcileDeletion, TypeOK, Call, DeletionPath
  <2>2. QED
    BY <1>2, <2>1 DEF ReconcileDeletion, TypeOK, Call
<1>3. CASE AddFinalizer
  <2>1. config' \in ConfigurationObject
    BY <1>3 DEF AddFinalizer, TypeOK, ConfigurationObject
  <2>2. cq' \in BOOLEAN
    BY <1>3 DEF AddFinalizer
  <2>3. QED
    BY <1>3, <2>1, <2>2 DEF AddFinalizer, TypeOK
<1>4. CASE ReconcileSteps
  <2>1. call' \in Call /\ call'.pc = "nsRef"
    BY <1>4, InitializeConditionsType DEF ReconcileSteps, TypeOK, Call, LivePath
  <2>2. QED
    BY <1>4, <2>1 DEF ReconcileSteps, TypeOK
<1>5. CASE reconcileClusterScopedReference
  <2>1. call' \in Call /\ call'.pc \in {"findNodes", "idle"}
    BY <1>5 DEF reconcileClusterScopedReference, TypeOK, Call, LivePath
  <2>2. ns' \in NamespaceObject
    BY <1>5 DEF reconcileClusterScopedReference, CreateNamespace, TypeOK,
       NamespaceObject
  <2>3. overlooked' \in BOOLEAN
    BY <1>5 DEF reconcileClusterScopedReference, CreateNamespace, TypeOK
  <2>4. QED
    BY <1>5, <2>1, <2>2, <2>3 DEF reconcileClusterScopedReference, TypeOK
<1>6. CASE findMasterNodes
  <2> DEFINE c == call.cfg
             paused == /\ MatchingNodes = {}
                       /\ ~ConditionTrue(c, WaitingForMatchignNodes)
             changed == ~paused /\ MatchingNodes # c.addrs
             next == CASE paused  -> SetCondition(c, WaitingForMatchignNodes, "True")
                       [] changed -> [SetCondition(c, WaitingForMatchignNodes, "False")
                                        EXCEPT !.addrs = MatchingNodes]
                       [] OTHER   -> c
  <2>1. c \in ConfigurationObject
    BY DEF TypeOK, Call
  <2>2. WaitingForMatchignNodes \in ConditionTypes
    BY DEF ConditionTypes
  <2>3. \A s \in {"True", "False"} :
           SetCondition(c, WaitingForMatchignNodes, s) \in ConfigurationObject
    BY <2>1, <2>2, SetConditionType DEF ConditionStatus
  <2>4. MatchingNodes \in SUBSET Nodes
    BY DEF MatchingNodes
  <2>5. [SetCondition(c, WaitingForMatchignNodes, "False")
           EXCEPT !.addrs = MatchingNodes] \in ConfigurationObject
    <3>1. SetCondition(c, WaitingForMatchignNodes, "False") \in ConfigurationObject
      BY <2>3
    <3>2. QED
      BY <3>1, <2>4 DEF ConfigurationObject
  <2>6. next \in ConfigurationObject
    BY <2>1, <2>3, <2>5
  <2>7. call' = [call EXCEPT !.pc = "apply",
                             !.touched = @ \/ paused \/ changed,
                             !.cfg = next]
    BY <1>6 DEF findMasterNodes
  <2>8. call' \in Call /\ call'.pc = "apply"
    BY <2>6, <2>7 DEF TypeOK, Call, LivePath
  <2>9. QED
    BY <1>6, <2>8 DEF findMasterNodes, TypeOK
<1>7. CASE applyObject
  <2>1. NamespaceRead \in NamespaceObject
    BY DEF NamespaceRead, TypeOK
  <2>2. /\ call' \in Call
        /\ \/ call'.pc \in {"status", "idle"}
           \/ call'.pc = "object" /\ call'.todo = ObjectTypes
    BY <1>7, <2>1 DEF applyObject, TypeOK, Call, LivePath, NamespaceObject
  <2>3. cq' \in BOOLEAN
    BY <1>7 DEF applyObject, TypeOK
  <2>4. QED
    BY <1>7, <2>2, <2>3 DEF applyObject, TypeOK
<1>8. ASSUME NEW t \in ObjectTypes, reconcileObject(t)
      PROVE  TypeOK'
  <2>1. call.cfg \in ConfigurationObject /\ call.owner \in Nat
    BY DEF TypeOK, Call
  <2>2. call.cfg.uid \in Nat /\ call.cfg.addrs \in SUBSET Nodes
    BY <2>1 DEF ConfigurationObject
  <2>3. objs' \in [ObjectTypes -> ManagedObject]
    BY <1>8, <2>1, <2>2 DEF reconcileObject, TypeOK, ManagedObject, Phases
  <2>4. [call.cfg EXCEPT !.status = "Deployed"] \in ConfigurationObject
    BY <2>1 DEF ConfigurationObject
  <2>5. call' \in Call /\ call'.pc \in {"status", "object"} /\ call'.todo \subseteq ObjectTypes
    BY <1>8, <2>4 DEF reconcileObject, TypeOK, Call, LivePath
  <2>6. applied' \in [ObjectTypes -> Nat]
    BY <1>8, <2>2 DEF reconcileObject, TypeOK
  <2>7. QED
    BY <1>8, <2>3, <2>5, <2>6 DEF reconcileObject, TypeOK
<1>9. CASE PatchStatus
  <2>1. /\ call.obj \in ConfigurationObject
        /\ call.cfg \in ConfigurationObject
        /\ call.touched \in BOOLEAN
    BY DEF TypeOK, Call
  <2>2. MergeStatus(config, call.obj, call.cfg, call.touched) \in ConfigurationObject
    BY <2>1, MergeStatusType DEF TypeOK
  <2>3. config' \in ConfigurationObject
    BY <1>9, <2>2 DEF PatchStatus, TypeOK
  <2>4. call' = Idle /\ cq' \in BOOLEAN
    BY <1>9 DEF PatchStatus, TypeOK
  <2>5. QED
    BY <1>9, <2>3, <2>4 DEF PatchStatus, TypeOK
<1>10. ASSUME NEW r \in CRs, cleanupCR(r)
       PROVE  TypeOK'
  <2>1. call' = Idle \/ call' = [call EXCEPT !.todo = @ \ {r}]
                     \/ call' = [call EXCEPT !.todo = @ \ {r}, !.found = TRUE]
    BY <1>10 DEF cleanupCR
  <2>2. call' \in Call
    BY <2>1 DEF TypeOK, Call
  <2>3. /\ call'.pc \in {"idle", "crds"}
        /\ call'.pc = "crds" => call'.todo \subseteq CRs
    BY <1>10, <2>1 DEF cleanupCR, TypeOK, Call
  <2>4. crs' \in [CRs -> CRPhases] /\ untimely' \subseteq CRs
    BY <1>10 DEF cleanupCR, DeleteCRs, TypeOK, CRPhases
  <2>5. cq' \in BOOLEAN
    BY <1>10 DEF cleanupCR, TypeOK
  <2>6. QED
    BY <1>10, <2>2, <2>3, <2>4, <2>5 DEF cleanupCR, TypeOK
<1>11. CASE ensureCRDObjectCleanup
  <2>1. call' \in Call /\ call'.pc \in {"idle", "ns"}
    BY <1>11 DEF ensureCRDObjectCleanup, TypeOK, Call, DeletionPath
  <2>2. QED
    BY <1>11, <2>1 DEF ensureCRDObjectCleanup, TypeOK
<1>12. CASE DeleteNamespace
  <2>1. call' \in Call /\ call'.pc \in {"idle", "finalizer"}
    BY <1>12 DEF DeleteNamespace, TypeOK, Call, DeletionPath
  <2>2. ns' \in NamespaceObject
    BY <1>12 DEF DeleteNamespace, TypeOK, NamespaceObject
  <2>3. overlooked' \in BOOLEAN
    BY <1>12 DEF DeleteNamespace, TypeOK
  <2>4. QED
    BY <1>12, <2>1, <2>2, <2>3 DEF DeleteNamespace, TypeOK
<1>13. CASE RemoveFinalizer
  <2>1. call.cfg.held \in BOOLEAN
    BY DEF TypeOK, Call, ConfigurationObject
  <2>2. [config EXCEPT !.fin = FALSE, !.held = call.cfg.held] \in ConfigurationObject
    BY <2>1 DEF TypeOK, ConfigurationObject
  <2>3. config' \in ConfigurationObject
    BY <1>13, <2>2, SettleType DEF RemoveFinalizer, TypeOK
  <2>4. call' \in Call /\ (call'.pc = "idle" \/ (call'.pc = "nodes" /\ call'.todo \subseteq Nodes))
    BY <1>13 DEF RemoveFinalizer, TypeOK, Call, DeletionPath
  <2>5. cq' \in BOOLEAN
    BY <1>13 DEF RemoveFinalizer, TypeOK
  <2>6. QED
    BY <1>13, <2>3, <2>4, <2>5 DEF RemoveFinalizer, TypeOK
<1>14. ASSUME NEW n \in Nodes, releaseNode(n)
       PROVE  TypeOK'
  <2>1. call' \in Call /\ call'.pc = "nodes" /\ call'.todo \subseteq Nodes
    BY <1>14 DEF releaseNode, TypeOK, Call
  <2>2. QED
    BY <1>14, <2>1 DEF releaseNode, TypeOK
<1>15. CASE NodesReleased
  BY <1>15 DEF NodesReleased, TypeOK
<1>16. QED
  BY <1>1, <1>2, <1>3, <1>4, <1>5, <1>6, <1>7, <1>8, <1>9, <1>10, <1>11, <1>12,
     <1>13, <1>14, <1>15 DEF Step

(* So does the client machinery: informers, queue, faults and restarts. *)
LEMMA MachineryTypeOK ==
    ASSUME TypeOK, Machinery
    PROVE  TypeOK'
<1> USE IdleType DEF At, Requeue, Disturb, owned, custom, nodeState, copies
<1>1. CASE Deliver
  BY <1>1 DEF Deliver, TypeOK
<1>2. CASE DeliverNamespace
  BY <1>2 DEF DeliverNamespace, TypeOK
<1>3. CASE Resync
  BY <1>3 DEF Resync, TypeOK
<1>4. CASE Fail
  BY <1>4 DEF Fail, TypeOK
<1>5. CASE Restart
  <2>1. cq' \in BOOLEAN
    BY <1>5 DEF Restart, TypeOK, ConfigurationObject
  <2>2. QED
    BY <1>5, <2>1 DEF Restart, TypeOK
<1>6. QED
  BY <1>1, <1>2, <1>3, <1>4, <1>5 DEF Machinery

(* So do the users of the cluster. *)
LEMMA UsersTypeOK ==
    ASSUME TypeOK, Users
    PROVE  TypeOK'
<1> USE DEF Disturb, filterObject, owned, custom, nodeState, copies
<1>1. CASE CreateConfig
  <2>1. config.uid + 1 \in Nat
    <3>1. config \in ConfigurationObject
      BY DEF TypeOK
    <3>2. config.uid \in Nat
      BY <3>1 DEF ConfigurationObject
    <3>3. QED
      BY <3>2
  <2>2. config' \in ConfigurationObject
    BY <1>1, <2>1, FreshType DEF CreateConfig
  <2>3. QED
    BY <1>1, <2>2 DEF CreateConfig, TypeOK
<1>2. ASSUME NEW p \in Propagation, DeleteConfig(p)
      PROVE  TypeOK'
  <2>1. config' \in ConfigurationObject
    BY <1>2, RequestDeletionType DEF DeleteConfig, TypeOK
  <2>2. budget' \in Nat
    BY <1>2 DEF DeleteConfig, TypeOK
  <2>3. QED
    BY <1>2, <2>1, <2>2 DEF DeleteConfig, TypeOK
<1>3. ASSUME NEW n \in Nodes, NEW s \in {"Absent", "Worker", "Master"},
             ChangeNode(n, s)
      PROVE  TypeOK'
  <2>1. nodes' \in [Nodes -> {"Absent", "Worker", "Master"}]
    BY <1>3 DEF ChangeNode, TypeOK
  <2>2. budget' \in Nat
    BY <1>3 DEF ChangeNode, TypeOK
  <2>3. QED
    BY <1>3, <2>1, <2>2 DEF ChangeNode, TypeOK
<1>4. CASE RotateCA
  <2>1. budget' \in Nat
    BY <1>4 DEF RotateCA, TypeOK
  <2>2. caReady' \in BOOLEAN
    BY <1>4 DEF RotateCA
  <2>3. QED
    BY <1>4, <2>1, <2>2 DEF RotateCA, TypeOK
<1>5. CASE IssueCA
  BY <1>5 DEF IssueCA, TypeOK
<1>6. ASSUME NEW r \in CRs, CreateCR(r)
      PROVE  TypeOK'
  BY <1>6 DEF CreateCR, TypeOK, CRPhases
<1>7. ASSUME NEW t \in ObjectTypes, Drift(t)
      PROVE  TypeOK'
  <2>1. objs' \in [ObjectTypes -> ManagedObject]
    BY <1>7 DEF Drift, TypeOK, ManagedObject
  <2>2. cq' \in BOOLEAN
    BY <1>7 DEF Drift, TypeOK
  <2>3. QED
    BY <1>7, <2>1, <2>2 DEF Drift, TypeOK
<1>8. QED
  BY <1>1, <1>2, <1>3, <1>4, <1>5, <1>6, <1>7 DEF Users

(* So do the controllers of Kubernetes. *)
LEMMA KubernetesTypeOK ==
    ASSUME TypeOK, Kubernetes
    PROVE  TypeOK'
<1> USE DEF filterObject, owned, custom, nodeState, copies
<1>0. NoObject \in ManagedObject
  BY DEF NoObject, ManagedObject, Phases
<1>1. ASSUME NEW t \in ObjectTypes, CollectGarbage(t)
      PROVE  TypeOK'
  <2>1. objs' \in [ObjectTypes -> ManagedObject]
    BY <1>0, <1>1 DEF CollectGarbage, TypeOK, ManagedObject, Phases
  <2>2. crs' \in [CRs -> CRPhases] /\ untimely' \subseteq CRs
    BY <1>1 DEF CollectGarbage, DeleteCRs, TypeOK, CRPhases
  <2>3. cq' \in BOOLEAN
    BY <1>1 DEF CollectGarbage, TypeOK
  <2>4. QED
    BY <1>1, <2>1, <2>2, <2>3 DEF CollectGarbage, TypeOK
<1>2. CASE CRDGone
  <2>1. objs' \in [ObjectTypes -> ManagedObject]
    BY <1>0, <1>2 DEF CRDGone, TypeOK
  <2>2. cq' \in BOOLEAN
    BY <1>2 DEF CRDGone, TypeOK
  <2>3. QED
    BY <1>2, <2>1, <2>2 DEF CRDGone, TypeOK
<1>3. CASE ReleaseForeground
  <2>1. [config EXCEPT !.held = FALSE] \in ConfigurationObject
    BY DEF TypeOK, ConfigurationObject
  <2>2. config' \in ConfigurationObject
    BY <1>3, <2>1, SettleType DEF ReleaseForeground
  <2>3. QED
    BY <1>3, <2>2 DEF ReleaseForeground, TypeOK
<1>4. CASE NamespaceGone
  <2>1. ns' \in NamespaceObject
    BY <1>4 DEF NamespaceGone, TypeOK, NamespaceObject
  <2>2. QED
    BY <1>4, <2>1 DEF NamespaceGone, TypeOK
<1>5. ASSUME NEW r \in CRs, HoldCR(r)
      PROVE  TypeOK'
  BY <1>5 DEF HoldCR, TypeOK, CRPhases
<1>6. ASSUME NEW r \in CRs, FinalizeCR(r)
      PROVE  TypeOK'
  BY <1>6 DEF FinalizeCR, TypeOK, CRPhases
<1>7. QED
  BY <1>1, <1>2, <1>3, <1>4, <1>5, <1>6 DEF Kubernetes

(* So do the operator's other controllers. *)
LEMMA OtherControllersTypeOK ==
    ASSUME TypeOK, OtherControllers
    PROVE  TypeOK'
<1> USE DEF Disturb, owned, custom, nodeState, copies
<1>1. ASSUME NEW n \in Nodes, ProtectNode(n)
      PROVE  TypeOK'
  BY <1>1 DEF ProtectNode, TypeOK
<1>2. ASSUME NEW n \in Nodes, ForgetAddress(n)
      PROVE  TypeOK'
  <2>1. config' \in ConfigurationObject
    BY <1>2 DEF ForgetAddress, TypeOK, ConfigurationObject
  <2>2. QED
    BY <1>2, <2>1 DEF ForgetAddress, TypeOK
<1>3. ASSUME NEW n \in Nodes, ForgetNode(n)
      PROVE  TypeOK'
  BY <1>3 DEF ForgetNode, TypeOK
<1>4. ASSUME NEW leaders \in LeaderSets, NEW ok \in BOOLEAN, ReportHealth(leaders, ok)
      PROVE  TypeOK'
  <2>1. cache.conds \in [ConditionTypes -> ConditionStatus]
    BY DEF TypeOK, ConfigurationObject
  <2>2. config'.conds \in [ConditionTypes -> ConditionStatus]
    <3>1. /\ Status("nb" \in leaders) \in ConditionStatus
          /\ Status("sb" \in leaders) \in ConditionStatus
          /\ Status("sb" \in leaders /\ ok) \in ConditionStatus
          /\ Status(ok) \in ConditionStatus
      BY DEF Status, ConditionStatus
    <3>2. QED
      BY <1>4, <2>1, <3>1 DEF ReportHealth, TypeOK, ConfigurationObject
  <2>3. config' \in ConfigurationObject
    BY <1>4, <2>2 DEF ReportHealth, TypeOK, ConfigurationObject
  <2>4. QED
    BY <1>4, <2>3 DEF ReportHealth, TypeOK
<1>5. QED
  BY <1>1, <1>2, <1>3, <1>4 DEF OtherControllers

LEMMA InitTypeOK == Init => TypeOK
<1> SUFFICES ASSUME Init PROVE TypeOK
  OBVIOUS
<1>1. ns \in NamespaceObject /\ nsCache \in NamespaceObject
  BY DEF Init, NamespaceObject
<1>2. objs \in [ObjectTypes -> ManagedObject]
  BY DEF Init, ManagedObject, Phases, NoObject
<1>3. crs \in [CRs -> CRPhases] /\ applied \in [ObjectTypes -> Nat]
  BY DEF Init, CRPhases
<1>4. nodes \in [Nodes -> {"Absent", "Worker", "Master"}]
  BY DEF Init
<1>5. budget \in Nat
  BY BoundsAssumption DEF Init
<1>6. QED
  BY <1>1, <1>2, <1>3, <1>4, <1>5, NoConfigType, IdleType DEF Init, TypeOK

LEMMA NextTypeOK == TypeOK /\ [Next]_vars => TypeOK'
<1>1. TypeOK /\ UNCHANGED vars => TypeOK'
  BY DEF TypeOK, vars, owned, custom, nodeState, copies
<1>2. QED
  BY <1>1, StepTypeOK, MachineryTypeOK, UsersTypeOK, KubernetesTypeOK,
     OtherControllersTypeOK DEF Next

(***************************************************************************)
(* Every variable of the controller and its cluster keeps its type, and    *)
(* the loops of a call only visit what they are about.                     *)
(***************************************************************************)
THEOREM TypeCorrect == Spec => []TypeOK
BY InitTypeOK, NextTypeOK, PTL DEF Spec

----------------------------------------------------------------------------
(* The finalizer keeps the object of a call.                               *)

(* What others can do to the Configuration: leave it where it is, perhaps  *)
(* with its deletion requested, ...                                        *)
Kept ==
    /\ config'.exists = config.exists
    /\ config'.uid = config.uid
    /\ config'.fin = config.fin
    /\ config'.status = config.status
    /\ config.deleting => config'.deleting

(* ... create a new one, ... *)
Begun ==
    /\ ~config.exists
    /\ config'.exists
    /\ ~config'.deleting
    /\ ~config'.fin
    /\ config'.status = ""

(* ... or have one go that no finalizer keeps. *)
Ended == ~config.fin /\ ~config'.exists

(* The steps of nobody's call: no copy and no call changes. *)
Outside ==
    /\ Kept \/ Begun \/ Ended
    /\ ns'.phase = "Active" => ns.phase = "Active"
    /\ UNCHANGED <<overlooked, cache, nsCache, call, applied>>

(* An object goes through Settle when it has no finalizer left. *)
LEMMA SettleEffect ==
    ASSUME NEW c \in ConfigurationObject
    PROVE  Settle(c) = c \/ (~c.fin /\ ~Settle(c).exists)
BY DEF Settle, Gone, Fresh

LEMMA RequestDeletionEffect ==
    ASSUME TypeOK, NEW f \in BOOLEAN, config.exists,
           config' = RequestDeletion(config, f)
    PROVE  Kept \/ Ended
<1> DEFINE d == [config EXCEPT !.deleting = TRUE, !.held = @ \/ f]
<1>1. config \in ConfigurationObject
  BY DEF TypeOK
<1>2. /\ d \in ConfigurationObject
      /\ d.exists = config.exists /\ d.uid = config.uid /\ d.fin = config.fin
      /\ d.status = config.status /\ d.deleting
  BY <1>1 DEF ConfigurationObject
<1>3. config' = Settle(d)
  BY DEF RequestDeletion
<1> HIDE DEF d
<1>4. QED
  BY <1>2, <1>3, SettleEffect DEF Kept, Ended

LEMMA OthersAreOutside ==
    ASSUME TypeOK, Users \/ Kubernetes \/ OtherControllers
    PROVE  Outside
<1> USE DEF Disturb, filterObject, owned, custom, nodeState, copies
<1>0. config \in ConfigurationObject /\ ns \in NamespaceObject
  BY DEF TypeOK
<1>1. ASSUME config' = config, ns'.phase = "Active" => ns.phase = "Active",
             UNCHANGED <<overlooked, cache, nsCache, call, applied>>
      PROVE  Outside
  BY <1>1 DEF Outside, Kept
<1>2. CASE CreateConfig
  BY <1>2 DEF CreateConfig, Outside, Begun, Fresh
<1>3. ASSUME NEW p \in Propagation, DeleteConfig(p)
      PROVE  Outside
  BY <1>3, RequestDeletionEffect DEF DeleteConfig, Outside
<1>4. ASSUME NEW n \in Nodes, NEW s \in {"Absent", "Worker", "Master"},
             ChangeNode(n, s)
      PROVE  Outside
  BY <1>1, <1>4 DEF ChangeNode
<1>5. ASSUME RotateCA \/ IssueCA
      PROVE  Outside
  BY <1>1, <1>5 DEF RotateCA, IssueCA
<1>6. ASSUME NEW r \in CRs, CreateCR(r) \/ HoldCR(r) \/ FinalizeCR(r)
      PROVE  Outside
  BY <1>1, <1>6 DEF CreateCR, HoldCR, FinalizeCR
<1>7. ASSUME NEW t \in ObjectTypes, Drift(t) \/ CollectGarbage(t)
      PROVE  Outside
  BY <1>1, <1>7 DEF Drift, CollectGarbage
<1>8. CASE CRDGone
  BY <1>1, <1>8 DEF CRDGone
<1>9. CASE ReleaseForeground
  <2> DEFINE d == [config EXCEPT !.held = FALSE]
  <2>1. /\ d \in ConfigurationObject
        /\ d.exists = config.exists /\ d.uid = config.uid /\ d.fin = config.fin
        /\ d.status = config.status /\ d.deleting = config.deleting
    BY <1>0 DEF ConfigurationObject
  <2>2. config' = Settle(d)
    BY <1>9 DEF ReleaseForeground
  <2> HIDE DEF d
  <2>3. Kept \/ Ended
    BY <2>1, <2>2, SettleEffect DEF Kept, Ended
  <2>4. QED
    BY <1>9, <2>3 DEF ReleaseForeground, Outside
<1>10. CASE NamespaceGone
  <2>1. ns'.phase = "Absent"
    BY <1>0, <1>10 DEF NamespaceGone, NamespaceObject
  <2>2. QED
    BY <1>1, <1>10, <2>1 DEF NamespaceGone
<1>11. ASSUME NEW n \in Nodes, ProtectNode(n) \/ ForgetNode(n)
       PROVE  Outside
  BY <1>1, <1>11 DEF ProtectNode, ForgetNode
<1>12. ASSUME NEW n \in Nodes, ForgetAddress(n)
       PROVE  Outside
  <2>1. Kept
    BY <1>0, <1>12 DEF ForgetAddress, Kept, ConfigurationObject
  <2>2. QED
    BY <1>12, <2>1 DEF ForgetAddress, Outside
<1>13. ASSUME NEW leaders \in LeaderSets, NEW ok \in BOOLEAN, ReportHealth(leaders, ok)
       PROVE  Outside
  <2>1. Kept
    BY <1>0, <1>13 DEF ReportHealth, Kept, ConfigurationObject
  <2>2. QED
    BY <1>13, <2>1 DEF ReportHealth, Outside
<1>14. QED
  BY <1>2, <1>3, <1>4, <1>5, <1>6, <1>7, <1>8, <1>9, <1>10, <1>11, <1>12, <1>13
     DEF Users, Kubernetes, OtherControllers

(* The steps of a call that neither begin it nor write the finalizer: the  *)
(* call stays on its path and with its object, or ends.                    *)
Inside ==
    /\ Kept
    /\ UNCHANGED cache
    /\ call'.pc \in LivePath => call.pc \in LivePath /\ call'.cfg.uid = call.cfg.uid
    /\ call'.pc \in DeletionPath => call.pc \in DeletionPath

LEMMA InsideGuarding ==
    ASSUME Guarding, Inside
    PROVE  Guarding'
BY DEF Guarding, Inside, Kept, Live, CopyIsCurrent, CopyIsEnding,
       LiveCallIsGuarded, DeletionCallIsEnding

LEMMA OutsideGuarding ==
    ASSUME Guarding, Outside
    PROVE  Guarding'
<1>1. CASE Kept
  BY <1>1 DEF Guarding, Outside, Kept, Live, CopyIsCurrent, CopyIsEnding,
              LiveCallIsGuarded, DeletionCallIsEnding
<1>2. CASE Begun
  BY <1>2 DEF Guarding, Outside, Begun, Live, CopyIsCurrent, CopyIsEnding,
              LiveCallIsGuarded, DeletionCallIsEnding
<1>3. CASE Ended
  BY <1>3 DEF Guarding, Outside, Ended, Live, CopyIsCurrent, CopyIsEnding,
              LiveCallIsGuarded, DeletionCallIsEnding
<1>4. QED
  BY <1>1, <1>2, <1>3 DEF Outside

LEMMA StepGuarding ==
    ASSUME TypeOK, Guarding, Step
    PROVE  Guarding'
<1> USE IdleType DEF At, Goto, Return, Requeue, Dequeue, ContainsFinalizer,
                     UnderDeletion, TakesFinalizer, AddressesDiffer, Skipped,
                     LastObject, AllGone, owned, custom,
                     nodeState, copies
<1>0. /\ config \in ConfigurationObject /\ cache \in ConfigurationObject
      /\ call \in Call /\ call.cfg \in ConfigurationObject
  BY DEF TypeOK, Call
<1>1. CASE ReconcileNotFound
  <2>1. Inside
    BY <1>1 DEF ReconcileNotFound, Inside, Kept
  <2>2. QED
    BY <2>1, InsideGuarding
<1>2. CASE ReconcileDeletion
  <2>1. call'.pc = "crds"
    BY <1>2 DEF ReconcileDeletion, Idle
  <2>2. QED
    BY <1>2, <2>1 DEF ReconcileDeletion, Guarding, Live, CopyIsCurrent,
       CopyIsEnding, LiveCallIsGuarded, DeletionCallIsEnding, LivePath, DeletionPath
<1>3. CASE AddFinalizer
  <2>1. /\ config'.exists = config.exists /\ config'.uid = config.uid
        /\ config'.deleting = config.deleting
        /\ config.fin => config'.fin
    BY <1>0, <1>3 DEF AddFinalizer, ConfigurationObject
  <2>2. call' = call /\ call.pc = "idle" /\ cache' = cache /\ Live(cache)
    BY <1>3 DEF AddFinalizer
  <2>3. QED
    BY <2>1, <2>2 DEF Guarding, Live, CopyIsCurrent, CopyIsEnding,
       LiveCallIsGuarded, DeletionCallIsEnding, LivePath, DeletionPath
<1>4. CASE ReconcileSteps
  <2>1. call'.pc = "nsRef" /\ call'.cfg.uid = cache.uid
    BY <1>0, <1>4, InitializeConditionsType DEF ReconcileSteps, Idle
  <2>2. QED
    BY <1>4, <2>1 DEF ReconcileSteps, Guarding, Live, CopyIsCurrent,
       CopyIsEnding, LiveCallIsGuarded, DeletionCallIsEnding, LivePath, DeletionPath
<1>5. ASSUME config' = config, cache' = cache, call' = Idle
      PROVE  Guarding'
  <2>1. Inside
    BY <1>5 DEF Inside, Kept, LivePath, DeletionPath
  <2>2. QED
    BY <2>1, InsideGuarding
<1>6. CASE reconcileClusterScopedReference
  <2>1. call' = Idle \/ (call.pc = "nsRef" /\ call' = [call EXCEPT !.pc = "findNodes"])
    BY <1>6 DEF reconcileClusterScopedReference
  <2>2. Inside
    BY <1>0, <1>6, <2>1 DEF reconcileClusterScopedReference, Inside, Kept, Call,
       LivePath, DeletionPath
  <2>3. QED
    BY <2>2, InsideGuarding
<1>7. CASE findMasterNodes
  <2>1. /\ call'.pc = "apply"
        /\ call'.cfg.uid = call.cfg.uid
    BY <1>0, <1>7 DEF findMasterNodes, SetCondition, Call, ConfigurationObject
  <2>2. Inside
    BY <1>7, <2>1 DEF findMasterNodes, Inside, Kept, LivePath, DeletionPath
  <2>3. QED
    BY <2>2, InsideGuarding
<1>8. CASE applyObject
  <2>1. \/ call' = Idle
        \/ call'.pc \in {"status", "object"} /\ call'.cfg = call.cfg
    BY <1>0, <1>8 DEF applyObject, Call
  <2>2. Inside
    BY <1>8, <2>1 DEF applyObject, Inside, Kept, LivePath, DeletionPath
  <2>3. QED
    BY <2>2, InsideGuarding
<1>9. ASSUME NEW t \in ObjectTypes, reconcileObject(t)
      PROVE  Guarding'
  <2>1. call'.pc \in {"status", "object"} /\ call'.cfg.uid = call.cfg.uid
    BY <1>0, <1>9 DEF reconcileObject, Call, ConfigurationObject
  <2>2. Inside
    BY <1>9, <2>1 DEF reconcileObject, Inside, Kept, LivePath, DeletionPath
  <2>3. QED
    BY <2>2, InsideGuarding
<1>10. CASE PatchStatus
  <2>1. /\ config'.exists = config.exists /\ config'.uid = config.uid
        /\ config'.fin = config.fin /\ config'.deleting = config.deleting
    BY <1>0, <1>10 DEF PatchStatus, MergeStatus, ConfigurationObject
  <2>2. call'.pc = "idle" /\ cache' = cache
    BY <1>10 DEF PatchStatus
  <2>3. QED
    BY <2>1, <2>2 DEF Guarding, Live, CopyIsCurrent, CopyIsEnding,
       LiveCallIsGuarded, DeletionCallIsEnding, LivePath, DeletionPath
<1>11. ASSUME NEW r \in CRs, cleanupCR(r)
       PROVE  Guarding'
  <2>1. call' = Idle \/ call'.pc = "crds"
    BY <1>0, <1>11 DEF cleanupCR, Call
  <2>2. Inside
    BY <1>11, <2>1 DEF cleanupCR, Inside, Kept, LivePath, DeletionPath
  <2>3. QED
    BY <2>2, InsideGuarding
<1>12. CASE ensureCRDObjectCleanup
  <2>1. call' = Idle \/ call'.pc = "ns"
    BY <1>0, <1>12 DEF ensureCRDObjectCleanup, Call
  <2>2. Inside
    BY <1>12, <2>1 DEF ensureCRDObjectCleanup, Inside, Kept, LivePath, DeletionPath
  <2>3. QED
    BY <2>2, InsideGuarding
<1>13. CASE DeleteNamespace
  <2>1. call' = Idle \/ call'.pc = "finalizer"
    BY <1>0, <1>13 DEF DeleteNamespace, Call
  <2>2. Inside
    BY <1>13, <2>1 DEF DeleteNamespace, Inside, Kept, LivePath, DeletionPath
  <2>3. QED
    BY <2>2, InsideGuarding
<1>14. CASE RemoveFinalizer
  <2>1. CASE config' = config
    <3>1. call' = Idle \/ call'.pc = "nodes"
      BY <1>0, <1>14 DEF RemoveFinalizer, Call
    <3>2. Inside
      BY <1>14, <2>1, <3>1 DEF RemoveFinalizer, Inside, Kept, LivePath, DeletionPath
    <3>3. QED
      BY <3>2, InsideGuarding
  <2>2. CASE config' # config
    <3> DEFINE d == [config EXCEPT !.fin = FALSE, !.held = call.cfg.held]
    <3>1. d \in ConfigurationObject /\ ~d.fin
      BY <1>0 DEF ConfigurationObject
    <3>2. config' = Settle(d) /\ call' = Idle /\ cache' = cache /\ call.pc = "finalizer"
      BY <1>14, <2>2 DEF RemoveFinalizer
    <3> HIDE DEF d
    <3>3. ~(config'.exists /\ config'.fin)
      BY <3>1, <3>2, SettleEffect
    <3>4. ~(Live(cache) /\ cache.fin)
      BY <3>2 DEF Guarding, DeletionCallIsEnding, DeletionPath
    <3>5. QED
      BY <3>2, <3>3, <3>4 DEF Guarding, Live, CopyIsCurrent, CopyIsEnding,
         LiveCallIsGuarded, DeletionCallIsEnding, LivePath, DeletionPath
  <2>3. QED
    BY <2>1, <2>2
<1>15. ASSUME NEW n \in Nodes, releaseNode(n)
       PROVE  Guarding'
  <2>1. call'.pc = "nodes"
    BY <1>0, <1>15 DEF releaseNode, Call
  <2>2. Inside
    BY <1>15, <2>1 DEF releaseNode, Inside, Kept, LivePath, DeletionPath
  <2>3. QED
    BY <2>2, InsideGuarding
<1>16. CASE NodesReleased
  BY <1>5, <1>16 DEF NodesReleased
<1>17. QED
  BY <1>1, <1>2, <1>3, <1>4, <1>6, <1>7, <1>8, <1>9, <1>10, <1>11, <1>12, <1>13,
     <1>14, <1>15, <1>16 DEF Step

LEMMA MachineryGuarding ==
    ASSUME TypeOK, Guarding, Machinery
    PROVE  Guarding'
<1> USE IdleType DEF At, Requeue, owned, custom, nodeState, copies
<1>1. CASE Deliver
  BY <1>1 DEF Deliver, Guarding, Live, CopyIsCurrent, CopyIsEnding,
              LiveCallIsGuarded, DeletionCallIsEnding
<1>2. CASE DeliverNamespace \/ Resync
  BY <1>2 DEF DeliverNamespace, Resync, Guarding, Live, CopyIsCurrent,
              CopyIsEnding, LiveCallIsGuarded, DeletionCallIsEnding
<1>3. CASE Fail \/ Restart
  BY <1>3 DEF Fail, Restart, Guarding, Live, CopyIsCurrent, CopyIsEnding,
              LiveCallIsGuarded, DeletionCallIsEnding, LivePath, DeletionPath
<1>4. QED
  BY <1>1, <1>2, <1>3 DEF Machinery

LEMMA NextGuarding == TypeOK /\ Guarding /\ [Next]_vars => Guarding'
<1>1. Guarding /\ UNCHANGED vars => Guarding'
  BY DEF Guarding, Live, CopyIsCurrent, CopyIsEnding, LiveCallIsGuarded,
         DeletionCallIsEnding, vars, copies
<1>2. QED
  BY <1>1, StepGuarding, MachineryGuarding, OthersAreOutside, OutsideGuarding
     DEF Next

(***************************************************************************)
(* A call that applies objects works for the Configuration that exists     *)
(* now, which its finalizer keeps, and a call that deletes never meets one *)
(* that is in use, however stale the informer's copy and however often the *)
(* name was deleted and created again.                                     *)
(***************************************************************************)
THEOREM CallsAreGuarded == Spec => []Guarding
<1>1. Init => Guarding
  BY IdleType, NoConfigType DEF Init, Guarding, Live, CopyIsCurrent, CopyIsEnding,
     LiveCallIsGuarded, DeletionCallIsEnding, LivePath, DeletionPath
<1>2. QED
  BY <1>1, TypeCorrect, NextGuarding, PTL DEF Spec

----------------------------------------------------------------------------
(* The Namespace, through reads that lag behind it.                        *)

Closing == NamespaceClosed /\ NamespaceGuarded

(* A step that leaves the Configuration kept, neither opens nor finds a    *)
(* Namespace and does not come to the finalizer with one open changes      *)
(* nothing here.                                                           *)
LEMMA QuietClosing ==
    ASSUME Closing,
           config'.exists = config.exists /\ config'.fin = config.fin,
           ns'.phase = "Active" => ns.phase = "Active",
           ns'.phase = "Active" /\ overlooked => overlooked',
           call'.pc \in {"finalizer", "nodes"} =>
               call.pc \in {"finalizer", "nodes"} \/ ns'.phase # "Active" \/ overlooked'
    PROVE  Closing'
BY DEF Closing, NamespaceClosed, NamespaceGuarded

LEMMA StepClosing ==
    ASSUME TypeOK, Guarding, Closing, Step
    PROVE  Closing'
<1> USE IdleType DEF At, Goto, Return, Requeue, Dequeue, ContainsFinalizer,
                     UnderDeletion, TakesFinalizer, AddressesDiffer, Skipped,
                     LastObject, AllGone, owned,
                     custom, nodeState, copies
<1>0. /\ config \in ConfigurationObject /\ cache \in ConfigurationObject
      /\ call \in Call /\ call.cfg \in ConfigurationObject
      /\ ns \in NamespaceObject
  BY DEF TypeOK, Call
<1>1. CASE ReconcileNotFound \/ ReconcileDeletion \/ ReconcileSteps
  <2>1. call'.pc \in {"idle", "crds", "nsRef"}
    BY <1>1 DEF ReconcileNotFound, ReconcileDeletion, ReconcileSteps, Idle
  <2>2. QED
    BY <1>1, <2>1, QuietClosing
       DEF ReconcileNotFound, ReconcileDeletion, ReconcileSteps
<1>2. CASE AddFinalizer
  <2>1. config.exists => config'.exists /\ (config.fin => config'.fin)
    BY <1>0, <1>2 DEF AddFinalizer, ConfigurationObject
  <2>2. QED
    BY <1>2, <2>1 DEF AddFinalizer, Closing, NamespaceClosed, NamespaceGuarded
<1>3. CASE reconcileClusterScopedReference
  <2>1. config.exists /\ config.fin
    BY <1>3 DEF reconcileClusterScopedReference, Guarding, LiveCallIsGuarded, LivePath
  <2>2. call'.pc \in {"idle", "findNodes"}
    BY <1>0, <1>3 DEF reconcileClusterScopedReference, Call
  <2>3. QED
    BY <1>3, <2>1, <2>2 DEF reconcileClusterScopedReference, Closing,
       NamespaceClosed, NamespaceGuarded
<1>4. CASE findMasterNodes \/ applyObject \/ \E t \in ObjectTypes : reconcileObject(t)
  <2>1. call'.pc \in {"idle", "apply", "status", "object"}
    BY <1>0, <1>4 DEF findMasterNodes, applyObject, reconcileObject, Call
  <2>2. QED
    BY <1>4, <2>1, QuietClosing DEF findMasterNodes, applyObject, reconcileObject
<1>5. CASE PatchStatus
  <2>1. config'.exists = config.exists /\ config'.fin = config.fin
    BY <1>0, <1>5 DEF PatchStatus, MergeStatus, ConfigurationObject
  <2>2. QED
    BY <1>5, <2>1, QuietClosing DEF PatchStatus
<1>6. CASE ensureCRDObjectCleanup \/ \E r \in CRs : cleanupCR(r)
  <2>1. call'.pc \in {"idle", "crds", "ns"}
    BY <1>0, <1>6 DEF ensureCRDObjectCleanup, cleanupCR, Call
  <2>2. config' = config /\ ns' = ns /\ overlooked' = overlooked
    BY <1>6 DEF ensureCRDObjectCleanup, cleanupCR
  <2>3. QED
    BY <2>1, <2>2, QuietClosing
<1>7. CASE DeleteNamespace
  <2>1. ns'.phase = "Active" =>
            /\ ns.phase = "Active" /\ (overlooked => overlooked')
            /\ overlooked' \/ call' = Idle
    BY <1>0, <1>7 DEF DeleteNamespace, NamespaceObject
  <2>2. QED
    BY <1>7, <2>1, QuietClosing DEF DeleteNamespace
<1>8. CASE RemoveFinalizer
  <2>1. (ns.phase # "Active" \/ overlooked) /\ ns' = ns /\ overlooked' = overlooked
    BY <1>8 DEF RemoveFinalizer, Closing, NamespaceClosed
  <2>2. QED
    BY <2>1 DEF Closing, NamespaceClosed, NamespaceGuarded
<1>9. CASE NodesReleased \/ \E n \in Nodes : releaseNode(n)
  <2>1. (ns.phase # "Active" \/ overlooked) /\ ns' = ns /\ overlooked' = overlooked
    BY <1>9 DEF NodesReleased, releaseNode, Closing, NamespaceClosed
  <2>2. QED
    BY <2>1 DEF Closing, NamespaceClosed, NamespaceGuarded
<1>10. QED
  BY <1>1, <1>2, <1>3, <1>4, <1>5, <1>6, <1>7, <1>8, <1>9 DEF Step

LEMMA NextClosing == TypeOK /\ Guarding /\ Closing /\ [Next]_vars => Closing'
<1> SUFFICES ASSUME TypeOK, Guarding, Closing, [Next]_vars
             PROVE  Closing'
  OBVIOUS
<1>1. CASE Step
  BY <1>1, StepClosing
<1>2. CASE Machinery
  BY <1>2, QuietClosing, IdleType DEF Machinery, Deliver, DeliverNamespace,
     Resync, Fail, Restart, Requeue, Disturb, owned, custom, nodeState, copies
<1>3. CASE Users \/ Kubernetes \/ OtherControllers
  <2>1. Outside
    BY <1>3, OthersAreOutside
  <2>2. QED
    BY <2>1 DEF Outside, Kept, Begun, Ended, Closing, NamespaceClosed, NamespaceGuarded
<1>4. CASE UNCHANGED vars
  BY <1>4 DEF vars, Closing, NamespaceClosed, NamespaceGuarded
<1>5. QED
  BY <1>1, <1>2, <1>3, <1>4 DEF Next

LEMMA ClosingHolds == Spec => []Closing
<1>1. Init => Closing
  BY IdleType DEF Init, Closing, NamespaceClosed, NamespaceGuarded
<1>2. QED
  BY <1>1, TypeCorrect, CallsAreGuarded, NextClosing, PTL DEF Spec

(***************************************************************************)
(* However far the reads of the Configuration and of the Namespace lag,    *)
(* the Namespace is never active without a Configuration whose finalizer   *)
(* has it deleted, unless a deletion has overlooked it.                    *)
(***************************************************************************)
THEOREM NamespaceIsGuarded == Spec => []NamespaceGuarded
<1>1. Closing => NamespaceGuarded
  BY DEF Closing
<1>2. QED
  BY <1>1, ClosingHolds, PTL

(* The one step that closes the Namespace. *)
LEMMA OnlyDeleteNamespaceCloses ==
    ASSUME TypeOK, [Next]_vars, ns.phase = "Active", ns'.phase # "Active"
    PROVE  DeleteNamespace
<1> USE DEF owned, custom, nodeState, copies
<1>1. ASSUME Step, ~DeleteNamespace
      PROVE  ns' = ns
  BY <1>1 DEF Step, ReconcileNotFound, ReconcileDeletion, AddFinalizer,
     ReconcileSteps, reconcileClusterScopedReference, findMasterNodes, applyObject,
     reconcileObject, PatchStatus, cleanupCR, ensureCRDObjectCleanup,
     RemoveFinalizer, releaseNode, NodesReleased
<1>2. ASSUME Machinery
      PROVE  ns' = ns
  BY <1>2 DEF Machinery, Deliver, DeliverNamespace, Resync, Fail, Restart
<1>3. ASSUME Users \/ OtherControllers
      PROVE  ns' = ns
  BY <1>3 DEF Users, CreateConfig, DeleteConfig, ChangeNode, RotateCA, IssueCA,
     CreateCR, Drift, OtherControllers, ProtectNode, ForgetAddress, ForgetNode,
     ReportHealth
<1>4. ASSUME Kubernetes
      PROVE  ns' = ns
  BY <1>4 DEF Kubernetes, CollectGarbage, CRDGone, ReleaseForeground,
     NamespaceGone, HoldCR, FinalizeCR
<1>5. ns' = ns \/ DeleteNamespace
  BY <1>1, <1>2, <1>3, <1>4 DEF Next, vars
<1>6. QED
  BY <1>5

(***************************************************************************)
(* However far the reads lag, no step of any call takes the Namespace from *)
(* a Configuration that has the finalizer and is not under deletion.       *)
(***************************************************************************)
THEOREM LiveStackIsKept == Spec => LiveStackKept
<1>1. TypeOK /\ Guarding /\ [Next]_vars =>
        [ns.phase = "Active" /\ ns'.phase # "Active" =>
           ~(Live(config) /\ config.fin)]_vars
  <2> SUFFICES ASSUME TypeOK, Guarding, [Next]_vars,
                      ns.phase = "Active", ns'.phase # "Active"
               PROVE  ~(Live(config) /\ config.fin)
    OBVIOUS
  <2>1. call.pc = "ns"
    BY OnlyDeleteNamespaceCloses DEF DeleteNamespace, At
  <2>2. QED
    BY <2>1 DEF Guarding, DeletionCallIsEnding, DeletionPath, Live
<1>2. QED
  BY <1>1, TypeCorrect, CallsAreGuarded, PTL DEF Spec, LiveStackKept

----------------------------------------------------------------------------
(* The status Deployed.                                                    *)

(* A step that applies nothing and under which no object, copy or call     *)
(* comes to be deployed that was not.                                      *)
LEMMA QuietEarning ==
    ASSUME Earning, applied' = applied,
           config'.exists /\ config'.status = "Deployed" =>
               config.exists /\ config.status = "Deployed" /\ config'.uid = config.uid,
           cache' = cache,
           call'.pc \in LivePath /\ call'.cfg.status = "Deployed" =>
               /\ call.pc \in LivePath /\ call.cfg.status = "Deployed"
               /\ call'.cfg.uid = call.cfg.uid,
           call'.pc = "object" => call'.todo = ObjectTypes
    PROVE  Earning'
BY DEF Earning, DeployedIsEarned, CopyIsEarned, CallIsEarned, LoopIsEarned, Live

LEMMA StepEarning ==
    ASSUME TypeOK, Guarding, Earning, Step
    PROVE  Earning'
<1> USE IdleType DEF At, Goto, Return, Requeue, Dequeue, ContainsFinalizer,
                     UnderDeletion, TakesFinalizer, AddressesDiffer, Skipped,
                     LastObject, AllGone, owned, custom,
                     nodeState, copies
<1>0. /\ config \in ConfigurationObject /\ cache \in ConfigurationObject
      /\ call \in Call /\ call.cfg \in ConfigurationObject
      /\ call.obj \in ConfigurationObject
      /\ applied \in [ObjectTypes -> Nat]
  BY DEF TypeOK, Call
<1>1. CASE ReconcileNotFound \/ ReconcileDeletion
  <2>1. call'.pc \in {"idle", "crds"}
    BY <1>1 DEF ReconcileNotFound, ReconcileDeletion, Idle
  <2>2. QED
    BY <1>1, <2>1, QuietEarning DEF ReconcileNotFound, ReconcileDeletion, LivePath
<1>2. CASE AddFinalizer
  <2>1. /\ config'.exists = config.exists /\ config'.uid = config.uid
        /\ config'.status = config.status
    BY <1>0, <1>2 DEF AddFinalizer, ConfigurationObject
  <2>2. QED
    BY <1>2, <2>1, QuietEarning DEF AddFinalizer, LivePath
<1>3. CASE ReconcileSteps
  <2>1. /\ call'.pc = "nsRef" /\ call'.cfg.uid = cache.uid
        /\ call'.cfg.status = cache.status
    BY <1>0, <1>3, InitializeConditionsType DEF ReconcileSteps, Idle
  <2>2. QED
    BY <1>3, <2>1 DEF ReconcileSteps, Earning, DeployedIsEarned, CopyIsEarned,
       CallIsEarned, LoopIsEarned, Live, LivePath
<1>4. CASE reconcileClusterScopedReference
  <2>1. call' = Idle \/ (call.pc = "nsRef" /\ call' = [call EXCEPT !.pc = "findNodes"])
    BY <1>4 DEF reconcileClusterScopedReference
  <2>2. call'.pc = "idle" \/ (call'.pc = "findNodes" /\ call'.cfg = call.cfg)
    BY <1>0, <2>1 DEF Call
  <2>3. QED
    BY <1>4, <2>2, QuietEarning DEF reconcileClusterScopedReference, LivePath
<1>5. CASE findMasterNodes
  <2>1. /\ call'.pc = "apply" /\ call'.cfg.uid = call.cfg.uid
        /\ call'.cfg.status = call.cfg.status
    BY <1>0, <1>5 DEF findMasterNodes, SetCondition, Call, ConfigurationObject
  <2>2. QED
    BY <1>5, <2>1, QuietEarning DEF findMasterNodes, LivePath
<1>6. CASE applyObject
  <2>1. \/ call'.pc = "idle"
        \/ call'.pc = "status" /\ call'.cfg = call.cfg
        \/ call'.pc = "object" /\ call'.cfg = call.cfg /\ call'.todo = ObjectTypes
    BY <1>0, <1>6 DEF applyObject, Call
  <2>2. QED
    BY <1>6, <2>1, QuietEarning DEF applyObject, LivePath
<1>7. ASSUME NEW t \in ObjectTypes, reconcileObject(t)
      PROVE  Earning'
  <2>1. config.exists /\ config.fin /\ config.uid = call.cfg.uid
    BY <1>7 DEF reconcileObject, Guarding, LiveCallIsGuarded, LivePath
  <2>2. \A u \in ObjectTypes : applied'[u] = IF u = t THEN call.cfg.uid ELSE applied[u]
    BY <1>0, <1>7 DEF reconcileObject
  <2>3. call'.cfg.uid = call.cfg.uid
    BY <1>0, <1>7 DEF reconcileObject, Call, ConfigurationObject
  <2>4. DeployedIsEarned'
    BY <1>7, <2>1, <2>2 DEF reconcileObject, Earning, DeployedIsEarned
  <2>5. CopyIsEarned'
    BY <1>7, <2>1, <2>2 DEF reconcileObject, Earning, CopyIsEarned, Guarding,
       CopyIsCurrent, Live
  <2>6. CASE call.todo = {t}
    <3>1. \A u \in ObjectTypes : applied'[u] = call.cfg.uid
      BY <1>7, <2>2, <2>6 DEF reconcileObject, Earning, LoopIsEarned
    <3>2. call'.pc = "status"
      BY <1>0, <1>7, <2>6 DEF reconcileObject, Call
    <3>3. QED
      BY <2>3, <2>4, <2>5, <3>1, <3>2 DEF Earning, CallIsEarned, LoopIsEarned
  <2>7. CASE call.todo # {t}
    <3>1. /\ call'.pc = "object" /\ call'.cfg = call.cfg
          /\ call'.todo = call.todo \ {t} /\ call.pc = "object"
      BY <1>0, <1>7, <2>7 DEF reconcileObject, Call
    <3>2. CallIsEarned'
      BY <2>2, <3>1 DEF Earning, CallIsEarned
    <3>3. LoopIsEarned'
      BY <2>2, <3>1 DEF Earning, LoopIsEarned
    <3>4. QED
      BY <2>4, <2>5, <3>2, <3>3 DEF Earning
  <2>8. QED
    BY <2>6, <2>7
<1>8. CASE PatchStatus
  <2>1. config.exists /\ config.uid = call.cfg.uid
    BY <1>8 DEF PatchStatus, Guarding, LiveCallIsGuarded, LivePath
  <2>2. /\ config'.exists = config.exists /\ config'.uid = config.uid
        /\ config'.status \in {config.status, call.cfg.status}
    BY <1>0, <1>8 DEF PatchStatus, MergeStatus, ConfigurationObject
  <2>3. DeployedIsEarned'
    BY <1>8, <2>1, <2>2 DEF PatchStatus, Earning, DeployedIsEarned, CallIsEarned, LivePath
  <2>4. QED
    BY <1>8, <2>3 DEF PatchStatus, Earning, CopyIsEarned, CallIsEarned,
       LoopIsEarned, LivePath, Live
<1>9. CASE ensureCRDObjectCleanup \/ DeleteNamespace \/ \E r \in CRs : cleanupCR(r)
  <2>1. call'.pc \in {"idle", "crds", "ns", "finalizer"}
    BY <1>0, <1>9 DEF ensureCRDObjectCleanup, DeleteNamespace, cleanupCR, Call
  <2>2. QED
    BY <1>9, <2>1, QuietEarning DEF ensureCRDObjectCleanup, DeleteNamespace,
       cleanupCR, LivePath
<1>10. CASE RemoveFinalizer
  <2> DEFINE d == [config EXCEPT !.fin = FALSE, !.held = call.cfg.held]
  <2>1. /\ d \in ConfigurationObject /\ d.exists = config.exists
        /\ d.uid = config.uid /\ d.status = config.status
    BY <1>0 DEF ConfigurationObject
  <2>2. config' = config \/ config' = Settle(d)
    BY <1>10 DEF RemoveFinalizer
  <2>3. call'.pc \in {"idle", "nodes"}
    BY <1>0, <1>10 DEF RemoveFinalizer, Call
  <2> HIDE DEF d
  <2>4. ~config'.exists \/ config' = config \/ config' = d
    BY <2>1, <2>2, SettleEffect
  <2>5. QED
    BY <1>10, <2>1, <2>3, <2>4, QuietEarning DEF RemoveFinalizer, LivePath
<1>11. CASE NodesReleased \/ \E n \in Nodes : releaseNode(n)
  <2>1. call'.pc \in {"idle", "nodes"}
    BY <1>0, <1>11 DEF NodesReleased, releaseNode, Call
  <2>2. QED
    BY <1>11, <2>1, QuietEarning DEF NodesReleased, releaseNode, LivePath
<1>12. QED
  BY <1>1, <1>2, <1>3, <1>4, <1>5, <1>6, <1>7, <1>8, <1>9, <1>10, <1>11 DEF Step

LEMMA NextEarning == TypeOK /\ Guarding /\ Earning /\ [Next]_vars => Earning'
<1> SUFFICES ASSUME TypeOK, Guarding, Earning, [Next]_vars
             PROVE  Earning'
  OBVIOUS
<1>1. CASE Step
  BY <1>1, StepEarning
<1>2. CASE Machinery
  <2> USE IdleType DEF Requeue, owned, copies, LivePath
  <2>1. CASE Deliver
    BY <2>1 DEF Deliver, Earning, DeployedIsEarned, CopyIsEarned, CallIsEarned,
       LoopIsEarned, Live
  <2>2. CASE DeliverNamespace \/ Resync
    BY <2>2 DEF DeliverNamespace, Resync, Earning, DeployedIsEarned,
       CopyIsEarned, CallIsEarned, LoopIsEarned, Live
  <2>3. CASE Fail
    BY <2>3, QuietEarning DEF Fail
  <2>4. CASE Restart
    BY <2>4 DEF Restart, Earning, DeployedIsEarned, CopyIsEarned, CallIsEarned,
       LoopIsEarned, Live
  <2>5. QED
    BY <1>2, <2>1, <2>2, <2>3, <2>4 DEF Machinery
<1>3. CASE Users \/ Kubernetes \/ OtherControllers
  <2>1. Outside
    BY <1>3, OthersAreOutside
  <2>2. QED
    BY <2>1 DEF Outside, Kept, Begun, Ended, Earning, DeployedIsEarned,
       CopyIsEarned, CallIsEarned, LoopIsEarned, Live
<1>4. CASE UNCHANGED vars
  BY <1>4 DEF vars, owned, copies, Earning, DeployedIsEarned, CopyIsEarned,
     CallIsEarned, LoopIsEarned, Live
<1>5. QED
  BY <1>1, <1>2, <1>3, <1>4 DEF Next

(***************************************************************************)
(* A Configuration only says Deployed when every object type has been      *)
(* applied for it, and not for an earlier Configuration of its name.       *)
(***************************************************************************)
THEOREM DeployedIsAlwaysEarned == Spec => []DeployedIsEarned
<1>1. Init => Earning
  <2>1. Init => ~config.exists /\ ~cache.exists /\ call.pc = "idle"
    BY IdleType, NoConfigType DEF Init
  <2>2. QED
    BY <2>1 DEF Earning, DeployedIsEarned, CopyIsEarned, CallIsEarned,
       LoopIsEarned, Live, LivePath
<1>2. Earning => DeployedIsEarned
  BY DEF Earning
<1>3. QED
  BY <1>1, <1>2, TypeCorrect, CallsAreGuarded, NextEarning, PTL DEF Spec

----------------------------------------------------------------------------
(* The custom resources go before the Namespace does.                      *)

(* A step that creates no custom resource, forgets none that is there, and *)
(* neither counts nor passes one.                                          *)
LEMMA QuietCleaned ==
    ASSUME Cleaned,
           \A r \in CRs : crs'[r] # "Absent" =>
               crs[r] # "Absent" /\ (r \in untimely => r \in untimely'),
           call'.pc \in {"crds", "ns"} => call' = call
    PROVE  Cleaned'
BY DEF Cleaned

(* Deleting custom resources leaves no other than before. *)
LEMMA DeleteCRsEffect ==
    ASSUME TypeOK, NEW R, DeleteCRs(R)
    PROVE  \A r \in CRs : crs'[r] # "Absent" =>
               crs[r] # "Absent" /\ (r \in untimely => r \in untimely')
BY DEF DeleteCRs, TypeOK

LEMMA StepCleaned ==
    ASSUME TypeOK, Cleaned, Step
    PROVE  Cleaned'
<1> USE IdleType DEF At, Goto, Return, Requeue, Dequeue, ContainsFinalizer,
                     UnderDeletion, TakesFinalizer, AddressesDiffer, Skipped,
                     LastObject, AllGone, owned, custom,
                     nodeState, copies
<1>0. call \in Call /\ crs \in [CRs -> CRPhases]
  BY DEF TypeOK
<1>1. ASSUME crs' = crs, untimely' = untimely, call'.pc \notin {"crds", "ns"}
      PROVE  Cleaned'
  BY <1>1 DEF Cleaned
<1>2. CASE ReconcileNotFound \/ AddFinalizer
  BY <1>2 DEF ReconcileNotFound, AddFinalizer, Cleaned
<1>3. CASE ReconcileDeletion
  <2>1. call'.pc = "crds" /\ call'.todo = CRs
    BY <1>3 DEF ReconcileDeletion, Idle
  <2>2. QED
    BY <2>1 DEF Cleaned
<1>4. CASE \/ ReconcileSteps \/ reconcileClusterScopedReference
           \/ findMasterNodes \/ applyObject
  <2>1. call'.pc \in {"idle", "nsRef", "findNodes", "apply", "status", "object"}
    BY <1>0, <1>4 DEF ReconcileSteps, reconcileClusterScopedReference,
       findMasterNodes, applyObject, Call, Idle
  <2>2. QED
    BY <1>1, <1>4, <2>1 DEF ReconcileSteps, reconcileClusterScopedReference,
       findMasterNodes, applyObject
<1>5. CASE PatchStatus \/ NodesReleased
  BY <1>1, <1>5 DEF PatchStatus, NodesReleased
<1>6. ASSUME NEW t \in ObjectTypes, reconcileObject(t)
      PROVE  Cleaned'
  <2>1. call'.pc \in {"status", "object"}
    BY <1>0, <1>6 DEF reconcileObject, Call
  <2>2. QED
    BY <1>1, <1>6, <2>1 DEF reconcileObject
<1>7. ASSUME NEW r \in CRs, cleanupCR(r)
      PROVE  Cleaned'
  <2>1. CASE call' = Idle
    BY <2>1 DEF Cleaned
  <2>2. CASE crs[r] = "Absent"
    <3>1. /\ call'.pc = "crds" /\ call'.todo = call.todo \ {r}
          /\ call'.found = call.found /\ call.pc = "crds"
      BY <1>0, <1>7, <2>2 DEF cleanupCR, Call
    <3>2. crs' = crs /\ untimely' = untimely
      BY <1>7, <2>2 DEF cleanupCR
    <3>3. QED
      BY <2>2, <3>1, <3>2 DEF Cleaned
  <2>3. CASE crs[r] # "Absent" /\ call' # Idle
    <3>1. call'.pc = "crds" /\ call'.found
      BY <1>0, <1>7, <2>3 DEF cleanupCR, Call
    <3>2. QED
      BY <3>1 DEF Cleaned
  <2>4. QED
    BY <2>1, <2>2, <2>3
<1>8. CASE ensureCRDObjectCleanup
  <2>1. \/ call' = Idle
        \/ /\ call'.pc = "ns" /\ call.pc = "crds"
           /\ call.todo = {} /\ ~call.found
    BY <1>0, <1>8 DEF ensureCRDObjectCleanup, Call
  <2>2. QED
    BY <1>8, <2>1 DEF ensureCRDObjectCleanup, Cleaned
<1>9. CASE DeleteNamespace \/ RemoveFinalizer
  <2>1. call'.pc \in {"idle", "finalizer", "nodes"}
    BY <1>0, <1>9 DEF DeleteNamespace, RemoveFinalizer, Call
  <2>2. QED
    BY <1>1, <1>9, <2>1 DEF DeleteNamespace, RemoveFinalizer
<1>10. ASSUME NEW n \in Nodes, releaseNode(n)
       PROVE  Cleaned'
  <2>1. call'.pc = "nodes"
    BY <1>0, <1>10 DEF releaseNode, Call
  <2>2. QED
    BY <1>1, <1>10, <2>1 DEF releaseNode
<1>11. QED
  BY <1>2, <1>3, <1>4, <1>5, <1>6, <1>7, <1>8, <1>9, <1>10 DEF Step

LEMMA NextCleaned == TypeOK /\ Cleaned /\ [Next]_vars => Cleaned'
<1> SUFFICES ASSUME TypeOK, Cleaned, [Next]_vars
             PROVE  Cleaned'
  OBVIOUS
<1> USE DEF Disturb, filterObject, owned, custom, nodeState, copies
<1>1. CASE Step
  BY <1>1, StepCleaned
<1>2. ASSUME UNCHANGED <<crs, untimely>>, call' = call \/ call' = Idle
      PROVE  Cleaned'
  BY <1>2, IdleType DEF Cleaned
<1>3. CASE Machinery
  BY <1>2, <1>3 DEF Machinery, Deliver, DeliverNamespace, Resync, Fail, Restart, Requeue
<1>4. ASSUME NEW r \in CRs, CreateCR(r)
      PROVE  Cleaned'
  <2>1. call.pc \in {"crds", "ns"} => r \in untimely'
    BY <1>4 DEF CreateCR, DeletionPath
  <2>2. untimely \subseteq untimely' /\ call' = call
    BY <1>4 DEF CreateCR
  <2>3. \A q \in CRs : q # r => crs'[q] = crs[q]
    BY <1>4 DEF CreateCR, TypeOK
  <2>4. QED
    BY <2>1, <2>2, <2>3 DEF Cleaned
<1>5. CASE Users /\ ~(\E r \in CRs : CreateCR(r))
  BY <1>2, <1>5 DEF Users, CreateConfig, DeleteConfig, ChangeNode, RotateCA,
     IssueCA, Drift
<1>6. ASSUME NEW t \in ObjectTypes, CollectGarbage(t)
      PROVE  Cleaned'
  BY <1>6, DeleteCRsEffect, QuietCleaned DEF CollectGarbage
<1>7. ASSUME NEW r \in CRs, HoldCR(r) \/ FinalizeCR(r)
      PROVE  Cleaned'
  <2>1. \A q \in CRs : crs'[q] # "Absent" =>
            crs[q] # "Absent" /\ (q \in untimely => q \in untimely')
    BY <1>7 DEF HoldCR, FinalizeCR, TypeOK
  <2>2. QED
    BY <1>7, <2>1, QuietCleaned DEF HoldCR, FinalizeCR
<1>8. CASE CRDGone \/ ReleaseForeground \/ NamespaceGone
  BY <1>2, <1>8 DEF CRDGone, ReleaseForeground, NamespaceGone
<1>9. CASE OtherControllers
  BY <1>2, <1>9 DEF OtherControllers, ProtectNode, ForgetAddress, ForgetNode,
     ReportHealth
<1>10. CASE UNCHANGED vars
  BY <1>2, <1>10 DEF vars
<1>11. QED
  BY <1>1, <1>3, <1>4, <1>5, <1>6, <1>7, <1>8, <1>9, <1>10
     DEF Next, Users, Kubernetes

(***************************************************************************)
(* The Namespace, and with it the CRDs, is only given up when every custom *)
(* resource of the deployed stack has gone; and this even if reads of the  *)
(* Namespace are stale.                                                    *)
(***************************************************************************)
THEOREM CleanupComesFirst == Spec => CleanupBeforeNamespace
<1>1. Init => Cleaned
  BY IdleType DEF Init, Cleaned
<1>2. TypeOK /\ Cleaned /\ [Next]_vars =>
        [ns.phase = "Active" /\ ns'.phase # "Active" =>
           \A r \in CRs \ untimely : crs[r] = "Absent"]_vars
  <2> SUFFICES ASSUME TypeOK, Cleaned, [Next]_vars,
                      ns.phase = "Active", ns'.phase # "Active",
                      NEW r \in CRs \ untimely
               PROVE  crs[r] = "Absent"
    OBVIOUS
  <2>1. call.pc = "ns"
    BY OnlyDeleteNamespaceCloses DEF DeleteNamespace, At
  <2>2. QED
    BY <2>1 DEF Cleaned
<1>3. QED
  BY <1>1, <1>2, TypeCorrect, NextCleaned, PTL DEF Spec, CleanupBeforeNamespace

----------------------------------------------------------------------------
(* The controller in its cluster implements StackLifecycle.                *)

(* The life of a Configuration depends on its existence, its deletion and  *)
(* its finalizer; what others do to it is a step of that life.             *)
LEMMA KeptLife ==
    ASSUME config \in ConfigurationObject, config' \in ConfigurationObject,
           Kept
    PROVE  \/ Life' = Life
           \/ Life = "new" /\ Life' = "released"
           \/ Life = "guarded" /\ Life' = "ending"
BY DEF Kept, Life, Live, ConfigurationObject

LEMMA BegunLife ==
    ASSUME config \in ConfigurationObject, config' \in ConfigurationObject,
           Begun
    PROVE  Life = "absent" /\ Life' = "new"
BY DEF Begun, Life, Live, ConfigurationObject

LEMMA EndedLife ==
    ASSUME config \in ConfigurationObject, config' \in ConfigurationObject,
           Ended
    PROVE  Life \in {"absent", "new", "released"} /\ Life' = "absent"
BY DEF Ended, Life, Live, ConfigurationObject

LEMMA OthersStack ==
    ASSUME TypeOK, TypeOK', UNCHANGED nsState, Kept \/ Begun \/ Ended
    PROVE  [Stack!Next]_(Stack!vars)
<1>1. config \in ConfigurationObject /\ config' \in ConfigurationObject
  BY DEF TypeOK
<1>2. Anchor' = Anchor
  BY DEF Anchor
<1>3. \/ Life' = Life
      \/ Life = "absent" /\ Life' = "new"
      \/ Life = "new" /\ Life' \in {"absent", "released"}
      \/ Life = "guarded" /\ Life' = "ending"
      \/ Life = "released" /\ Life' = "absent"
  BY <1>1, KeptLife, BegunLife, EndedLife
<1>4. QED
  BY <1>2, <1>3 DEF Stack!Next, Stack!vars, Stack!Create, Stack!Discard,
     Stack!RequestDeletion, Stack!Vanish

(* The two patches of the finalizer are Guard and Release. *)
LEMMA AddFinalizerStack ==
    ASSUME TypeOK, AddFinalizer
    PROVE  [Stack!Next]_(Stack!vars)
<1>1. config \in ConfigurationObject
  BY DEF TypeOK
<1>2. ns' = ns /\ Anchor' = Anchor
  BY DEF AddFinalizer, Anchor
<1>3. CASE Live(config)
  <2>1. /\ config'.exists = config.exists /\ config'.deleting = config.deleting
        /\ config'.fin
    BY <1>1, <1>3 DEF AddFinalizer, TakesFinalizer, ConfigurationObject, Live
  <2>2. Life \in {"new", "guarded"} /\ Life' = "guarded"
    BY <1>1, <1>3, <2>1 DEF Life, Live, ConfigurationObject
  <2>3. QED
    BY <1>2, <2>2 DEF Stack!Next, Stack!vars, Stack!Guard
<1>4. CASE ~Live(config)
  <2>1. /\ config'.exists = config.exists /\ config'.deleting = config.deleting
        /\ config.exists => config'.fin = config.fin
    BY <1>1, <1>4 DEF AddFinalizer, TakesFinalizer, ConfigurationObject, Live
  <2>2. Life' = Life
    BY <2>1 DEF Life, Live
  <2>3. QED
    BY <1>2, <2>2 DEF Stack!vars
<1>5. QED
  BY <1>3, <1>4

LEMMA RemoveFinalizerStack ==
    ASSUME TypeOK, TypeOK', Guarding, Closing, RemoveFinalizer
    PROVE  [Stack!Next]_(Stack!vars)
<1>1. /\ config \in ConfigurationObject /\ config' \in ConfigurationObject
      /\ call \in Call /\ call.cfg \in ConfigurationObject
  BY DEF TypeOK, Call
<1>2. ns' = ns /\ overlooked' = overlooked /\ call.pc = "finalizer"
  BY DEF RemoveFinalizer, At
<1>3. Anchor' = Anchor /\ Anchor # "open"
  BY <1>2 DEF Anchor, Closing, NamespaceClosed
<1>4. CASE config' = config
  <2>1. Life' = Life
    BY <1>4 DEF Life, Live
  <2>2. QED
    BY <1>3, <2>1 DEF Stack!vars
<1>5. CASE config' # config
  <2> DEFINE d == [config EXCEPT !.fin = FALSE, !.held = call.cfg.held]
  <2>1. /\ d \in ConfigurationObject
        /\ d.exists = config.exists /\ d.deleting = config.deleting /\ ~d.fin
    BY <1>1 DEF ConfigurationObject
  <2>2. config' = Settle(d) /\ config.exists
    BY <1>5 DEF RemoveFinalizer
  <2> HIDE DEF d
  <2>3. \/ config' = d
        \/ d.deleting /\ ~config'.exists
    BY <2>1, <2>2 DEF Settle, Gone, Fresh
  <2>4. config.fin => config.deleting
    BY <1>2, <2>2 DEF Guarding, DeletionCallIsEnding, DeletionPath
  <2>5. \/ Life = "new" /\ Life' = "new"
        \/ Life \in {"ending", "released"} /\ Life' \in {"absent", "released"}
    BY <1>1, <2>1, <2>2, <2>3, <2>4 DEF Life, Live, ConfigurationObject
  <2>6. QED
    BY <1>3, <2>5 DEF Stack!Next, Stack!vars, Stack!Release, Stack!Vanish
<1>6. QED
  BY <1>4, <1>5

(* The Namespace is opened and closed by Open, Close and Closed. *)
LEMMA NamespaceStack ==
    ASSUME TypeOK, Guarding, Closing,
           reconcileClusterScopedReference \/ DeleteNamespace \/ NamespaceGone
    PROVE  [Stack!Next]_(Stack!vars)
<1> USE DEF At
<1>0. config \in ConfigurationObject /\ ns \in NamespaceObject
  BY DEF TypeOK
<1>1. Life' = Life
  BY DEF reconcileClusterScopedReference, DeleteNamespace, NamespaceGone, Life, Live
<1>2. CASE ns' = ns /\ overlooked' = overlooked
  <2>1. Anchor' = Anchor
    BY <1>2 DEF Anchor
  <2>2. QED
    BY <1>1, <2>1 DEF Stack!vars
<1>3. CASE reconcileClusterScopedReference /\ ~(ns' = ns /\ overlooked' = overlooked)
  <2>0. \/ ns.phase = "Absent" /\ ns'.phase = "Active" /\ overlooked' = FALSE
        \/ ns' = ns /\ overlooked /\ ~overlooked'
    <3>1. CASE ns.phase = "Absent" /\ CreateNamespace
      BY <3>1 DEF CreateNamespace
    <3>2. CASE ns' = ns /\ overlooked' = (overlooked /\ NamespaceRead.uid # ns.uid)
      BY <1>3, <3>2, Zenon DEF TypeOK
    <3>3. QED
      BY <1>3, <3>1, <3>2, Zenon DEF reconcileClusterScopedReference
  <2>1. /\ call.pc = "nsRef"
        /\ \/ Anchor \in {"none", "stray"} /\ Anchor' = "open"
           \/ Anchor' = Anchor
    BY <1>3, <2>0 DEF reconcileClusterScopedReference, Anchor
  <2>2. config.exists /\ config.fin
    BY <2>1 DEF Guarding, LiveCallIsGuarded, LivePath
  <2>3. Life \in {"guarded", "ending"}
    BY <1>0, <2>2 DEF Life, Live, ConfigurationObject
  <2>4. QED
    BY <1>1, <2>1, <2>3 DEF Stack!Next, Stack!Open, Stack!vars
<1>4. CASE DeleteNamespace /\ ~(ns' = ns /\ overlooked' = overlooked)
  <2>1. config.exists /\ config.fin => config.deleting
    BY <1>4 DEF DeleteNamespace, Guarding, DeletionCallIsEnding, DeletionPath
  <2>2. Life # "guarded"
    BY <1>0, <2>1 DEF Life, Live, ConfigurationObject
  <2>3. ns.phase = "Active" /\ ~overlooked => Life = "ending"
    BY <1>0, <2>1 DEF Life, Live, ConfigurationObject, Closing, NamespaceGuarded
  <2>4. CASE NamespaceRead.phase = "Absent"
    <3>1. ns.phase = "Active" /\ ~overlooked /\ ns' = ns /\ overlooked'
      BY <1>4, <2>4 DEF DeleteNamespace, TypeOK
    <3>2. Anchor = "open" /\ Anchor' = "stray"
      BY <3>1 DEF Anchor
    <3>3. QED
      BY <1>1, <2>3, <3>1, <3>2 DEF Stack!Next, Stack!Lose
  <2>5. CASE NamespaceRead.phase # "Absent"
    <3>1. ns.phase # "Absent" /\ ns'.phase = "Terminating"
      BY <1>0, <1>4, <2>5 DEF DeleteNamespace, NamespaceObject
    <3>2. Anchor' = "closing"
      BY <3>1 DEF Anchor
    <3>3. CASE ns.phase = "Active"
      <4>1. Anchor = (IF overlooked THEN "stray" ELSE "open")
        BY <3>3 DEF Anchor
      <4>2. QED
        BY <1>1, <2>2, <2>3, <3>2, <3>3, <4>1 DEF Stack!Next, Stack!Close
    <3>4. CASE ns.phase # "Active"
      <4>1. Anchor = "closing"
        BY <3>1, <3>4 DEF Anchor
      <4>2. QED
        BY <1>1, <3>2, <4>1 DEF Stack!vars
    <3>5. QED
      BY <3>3, <3>4
  <2>6. QED
    BY <2>4, <2>5
<1>5. CASE NamespaceGone
  <2>1. ns.phase = "Terminating" /\ ns'.phase = "Absent"
    BY <1>0, <1>5 DEF NamespaceGone, NamespaceObject
  <2>2. Anchor = "closing" /\ Anchor' = "none"
    BY <2>1 DEF Anchor
  <2>3. QED
    BY <1>1, <2>2 DEF Stack!Next, Stack!Closed
<1>6. QED
  BY <1>2, <1>3, <1>4, <1>5

LEMMA NextStack ==
    ASSUME TypeOK, TypeOK', Guarding, Closing, [Next]_vars
    PROVE  [Stack!Next]_(Stack!vars)
<1> USE DEF owned, custom, nodeState, copies
<1>1. ASSUME config' = config, UNCHANGED nsState
      PROVE  [Stack!Next]_(Stack!vars)
  BY <1>1, OthersStack DEF Kept
<1>2. CASE AddFinalizer
  BY <1>2, AddFinalizerStack
<1>3. CASE RemoveFinalizer
  BY <1>3, RemoveFinalizerStack
<1>4. CASE reconcileClusterScopedReference \/ DeleteNamespace \/ NamespaceGone
  BY <1>4, NamespaceStack
<1>5. CASE PatchStatus
  <2>1. config \in ConfigurationObject
    BY DEF TypeOK
  <2>2. /\ config'.exists = config.exists /\ config'.fin = config.fin
        /\ config'.deleting = config.deleting
    BY <1>5, <2>1 DEF PatchStatus, MergeStatus, ConfigurationObject
  <2>3. Life' = Life /\ Anchor' = Anchor
    BY <1>5, <2>2 DEF PatchStatus, Life, Live, Anchor
  <2>4. QED
    BY <2>3 DEF Stack!vars
<1>6. CASE Step /\ ~(\/ AddFinalizer \/ RemoveFinalizer \/ PatchStatus
                    \/ reconcileClusterScopedReference \/ DeleteNamespace)
  BY <1>1, <1>6 DEF Step, ReconcileNotFound, ReconcileDeletion, ReconcileSteps,
     findMasterNodes, applyObject, reconcileObject, cleanupCR,
     ensureCRDObjectCleanup, releaseNode, NodesReleased
<1>7. CASE Machinery
  BY <1>1, <1>7 DEF Machinery, Deliver, DeliverNamespace, Resync, Fail, Restart
<1>8. CASE (Users \/ Kubernetes \/ OtherControllers) /\ ~NamespaceGone
  <2>1. Kept \/ Begun \/ Ended
    BY <1>8, OthersAreOutside DEF Outside
  <2>2. UNCHANGED nsState
    BY <1>8 DEF Users, CreateConfig, DeleteConfig, ChangeNode, RotateCA, IssueCA,
       CreateCR, Drift, Kubernetes, CollectGarbage, CRDGone, ReleaseForeground,
       HoldCR, FinalizeCR, OtherControllers, ProtectNode, ForgetAddress,
       ForgetNode, ReportHealth
  <2>3. QED
    BY <2>1, <2>2, OthersStack
<1>9. CASE UNCHANGED vars
  BY <1>1, <1>9 DEF vars
<1>10. QED
  BY <1>2, <1>3, <1>4, <1>5, <1>6, <1>7, <1>8, <1>9 DEF Next

(***************************************************************************)
(* However far the reads of both objects lag, every behaviour of the       *)
(* controller in its cluster is, seen through Life and Anchor, one that    *)
(* StackLifecycle allows.                                                  *)
(***************************************************************************)
THEOREM Implementation == Spec => ImplementsStackLifecycle
<1>1. Init => Stack!Init
  <2>1. Init => ~config.exists /\ ns.phase = "Absent"
    BY NoConfigType DEF Init
  <2>2. QED
    BY <2>1 DEF Stack!Init, Life, Live, Anchor
<1>2. TypeOK /\ TypeOK' /\ Guarding /\ Closing /\ [Next]_vars
        => [Stack!Next]_(Stack!vars)
  BY NextStack
<1>3. QED
  BY <1>1, <1>2, TypeCorrect, CallsAreGuarded, ClosingHolds, PTL
     DEF Spec, ImplementsStackLifecycle, Stack!Spec

=============================================================================
