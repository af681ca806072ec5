--------------------------- MODULE Configuration ---------------------------
(***************************************************************************)
(* The Configuration object of kubeovn.io/v1 as the API server stores it,  *)
(* the condition helpers of api/v1/configuration_types.go, and the effect  *)
(* of the requests the operator and its users send for it.                 *)
(*                                                                         *)
(* Only what the controllers branch on is kept: the object's identity, its *)
(* deletion timestamp, its finalizers and its status.  The spec is left to *)
(* rendering.  A node stands for its InternalIP, so MatchingNodeAddresses  *)
(* is a set of nodes: the operator sorts both lists before it compares or  *)
(* stores them, and a node has one address.                                *)
(***************************************************************************)
EXTENDS Naturals

CONSTANTS
    Nodes,         \* every node the cluster may ever have
    Addressless    \* the ones that report no InternalIP

ASSUME NodesAssumption == Addressless \subseteq Nodes

WaitingForMatchignNodes == "waitingForMatchignNodes"
OVNNBLeaderFound        == "ovnNorthDBLeaderFound"
OVNSBLeaderFound        == "ovnSouthDBLeaderFound"
OVNNBDBHealth           == "ovnNBDBHealth"
OVNSBDBHealth           == "ovnSBDBHealth"

ConditionTypes ==
    { WaitingForMatchignNodes, OVNNBLeaderFound, OVNSBLeaderFound,
      OVNNBDBHealth, OVNSBDBHealth }

(* "Absent" is a condition that is not in the list yet. *)
ConditionStatus == { "Absent", "Unknown", "True", "False" }

(***************************************************************************)
(* The stored object.  fin is the operator's own finalizer, held the       *)
(* foregroundDeletion finalizer that the API server adds.  uid counts the  *)
(* incarnations: it keeps its value when the object is gone, so that the   *)
(* next object under the same name has a fresh one.                        *)
(***************************************************************************)
ConfigurationObject ==
    [ exists   : BOOLEAN,
      uid      : Nat,
      deleting : BOOLEAN,
      fin      : BOOLEAN,
      held     : BOOLEAN,
      conds    : [ConditionTypes -> ConditionStatus],
      addrs    : SUBSET Nodes,
      status   : { "", "Deploying", "Deployed" } ]

Fresh(exists, uid) ==
    [ exists   |-> exists,
      uid      |-> uid,
      deleting |-> FALSE,
      fin      |-> FALSE,
      held     |-> FALSE,
      conds    |-> [t \in ConditionTypes |-> "Absent"],
      addrs    |-> {},
      status   |-> "" ]

Gone(c)    == Fresh(FALSE, c.uid)
NoConfig   == Fresh(FALSE, 0)
Live(c)    == c.exists /\ ~c.deleting

----------------------------------------------------------------------------
(* api/v1: the condition helpers.                                          *)

SetCondition(c, type, s) == [c EXCEPT !.conds[type] = s]

LookupCondition(c, type) == c.conds[type]

ConditionTrue(c, type) == LookupCondition(c, type) = "True"

ConditionExists(c, type) == LookupCondition(c, type) # "Absent"

ReasonForStatus(c) ==
    [c EXCEPT !.conds = [t \in ConditionTypes |->
        IF ConditionExists(c, t) THEN c.conds[t] ELSE "ConditionUnknown"]]

(* Conditions that are not in the list yet are added as Unknown. *)
initializeConditions(c) ==
    [c EXCEPT !.conds = [t \in ConditionTypes |->
        IF ConditionExists(c, t) THEN c.conds[t] ELSE "Unknown"]]

----------------------------------------------------------------------------
(* The API server.  An object under deletion goes with its last finalizer. *)

Settle(c) == IF c.exists /\ c.deleting /\ ~c.fin /\ ~c.held THEN Gone(c) ELSE c

RequestDeletion(c, foreground) ==
    Settle([c EXCEPT !.deleting = TRUE, !.held = @ \/ foreground])

(***************************************************************************)
(* A merge patch computed from obj (as read) and c (as modified) names     *)
(* only the fields of the status that differ; a list is replaced as a      *)
(* whole.  touched says that SetCondition was called: it always renews     *)
(* LastTransitionTime, so the list differs even when no status does.       *)
(***************************************************************************)
MergeStatus(stored, obj, c, touched) ==
    [ stored EXCEPT
        !.conds  = IF touched             THEN c.conds  ELSE @,
        !.addrs  = IF c.addrs # obj.addrs THEN c.addrs  ELSE @,
        !.status = IF c.status # obj.status THEN c.status ELSE @ ]

=============================================================================
