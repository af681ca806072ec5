----------------------------- MODULE NodeSystem -----------------------------
(***************************************************************************)
(* The node controller in its cluster: nodes that are deleted and come     *)
(* back, the servers of the OVN databases and their leaders, and the       *)
(* configuration controller as far as it touches MatchingNodeAddresses     *)
(* (findMasterNodes and the status patch at the end of its Reconcile).     *)
(***************************************************************************)
EXTENDS NodeController

CONSTANTS
    Masters,         \* the nodes that carry the master label
    Deployed,        \* whether the stack is up when a behaviour begins
    Departing,       \* bound: the nodes that are deleted
    MaxMachines,     \* bound: machines that have one name in turn
    MaxDisturbances  \* bound: faults and outside changes

ASSUME MastersAssumption == Masters \subseteq Nodes
ASSUME DeployedAssumption == Deployed \in BOOLEAN
ASSUME DepartingAssumption == Departing \subseteq Nodes
ASSUME BoundsAssumption == MaxMachines \in Nat /\ MaxDisturbances \in Nat

VARIABLES
    cq,      \* the Configuration's key is in the configuration controller's queue
    pass,    \* that controller's pass: the addresses it read and the ones it found
    budget   \* disturbances left

others == <<cq, pass, budget>>
vars   == <<nodeVars, others>>

Pass   == [seen : SUBSET Nodes, found : SUBSET Nodes]
NoPass == [seen |-> {}]

(* Every variable has its type; only finalizers keep a deleted node. *)
TypeOK ==
    /\ config \in ConfigurationObject
    /\ cache \in ConfigurationObject
    /\ nodes \in [Nodes -> NodeObject]
    /\ \A n \in Nodes : nodes[n].fin => nodes[n].phase # "Absent"
    /\ \A n \in Nodes :
          nodes[n].phase = "Terminating" => nodes[n].fin \/ nodes[n].held
    /\ ncache \in [Nodes -> NodeObject]
    /\ nq \subseteq Nodes
    /\ call \in Call \cup {Idle}
    /\ members \in [DBs -> SUBSET Nodes]
    /\ chassis \subseteq Nodes
    /\ leaders \in [DBs -> 0..2]
    /\ cq \in BOOLEAN
    /\ pass \in Pass \cup {NoPass}
    /\ budget \in Nat

NewNode(uid) == [phase |-> "Live", uid |-> uid, fin |-> FALSE, held |-> FALSE]

(* The servers of a stack that is up. *)
Started == IF Deployed THEN Masters \ Addressless ELSE {}

(* A cluster with all its nodes: its Configuration has just been created,  *)
(* or has been deployed and every node seen to.                            *)
Init ==
    /\ config = [Fresh(TRUE, 1) EXCEPT !.addrs = Started]
    /\ cache = config
    /\ nodes = [n \in Nodes |-> [NewNode(1) EXCEPT !.fin = Deployed]]
    /\ ncache = nodes
    /\ nq = Nodes
    /\ call = Idle
    /\ members = [db \in DBs |-> Started]
    /\ chassis = Nodes
    /\ leaders = [db \in DBs |-> 1]
    /\ cq = TRUE
    /\ pass = NoPass
    /\ budget = MaxDisturbances

----------------------------------------------------------------------------
(* The configuration controller.                                           *)

findMasterNodes ==
    /\ cq
    /\ pass = NoPass
    /\ cq' = FALSE
    /\ pass' = IF Live(cache)
                 THEN [ seen  |-> cache.addrs,
                        found |-> { n \in Masters \ Addressless :
                                      ncache[n].phase # "Absent" } ]
                 ELSE NoPass
    /\ UNCHANGED <<nodeVars, budget>>

(* Without a matching node the addresses are kept in one pass and dropped  *)
(* in the next.  Only a list that differs from the one read is patched.    *)
PatchStatus ==
    /\ pass # NoPass
    /\ pass' = NoPass
    /\ \/ /\ pass.found # pass.seen
          /\ config.exists
          /\ config' = [config EXCEPT !.addrs = pass.found]
          /\ UNCHANGED cq
       \/ /\ pass.found # pass.seen
          /\ ~config.exists
          /\ cq' = TRUE
          /\ UNCHANGED config
       \/ /\ pass.found = pass.seen \/ pass.found = {}
          /\ UNCHANGED <<config, cq>>
    /\ UNCHANGED <<nodes, copies, nq, call, ovn, budget>>

DeliverConfig ==
    /\ cache # config
    /\ cache' = config
    /\ cq' = TRUE
    /\ UNCHANGED <<config, nodes, ncache, nq, call, ovn, pass, budget>>

ResyncConfig ==
    /\ cache.exists
    /\ ~cq
    /\ cq' = TRUE
    /\ UNCHANGED <<nodeVars, pass, budget>>

----------------------------------------------------------------------------
(* The cluster.                                                            *)

Disturb == budget > 0 /\ budget' = budget - 1

DeleteNode(n, held) ==
    /\ n \in Departing
    /\ nodes[n].phase = "Live"
    /\ nodes' = [nodes EXCEPT ![n] =
                   IF @.fin \/ held
                     THEN [@ EXCEPT !.phase = "Terminating", !.held = held]
                     ELSE Removed(@)]
    /\ UNCHANGED <<config, copies, nq, call, ovn, others>>

(* Another finalizer is taken off. *)
LetGo(n) ==
    /\ nodes[n].held
    /\ nodes' = [nodes EXCEPT ![n] = 
                   IF @.fin THEN [@ EXCEPT !.held = FALSE] ELSE Removed(@)]
    /\ UNCHANGED <<config, copies, nq, call, ovn, others>>

WorksOn(n) == ~At("idle") /\ call.node = n

(* A machine takes the name of one that is gone.  ovs-ovn starts on every  *)
(* node and registers a chassis.                                           *)
RegisterNode(n) ==
    /\ nodes[n].phase = "Absent"
    /\ nodes[n].uid < MaxMachines
    /\ nodes' = [nodes EXCEPT ![n] = NewNode(@.uid + 1)]
    /\ chassis' = chassis \cup {n}
    /\ UNCHANGED <<config, copies, nq, call, members, leaders, others>>

(* ovn-central starts on a master node whose address it has been given. *)
JoinDatabase(db, n) ==
    /\ nodes[n].phase # "Absent"
    /\ n \in config.addrs \ members[db]
    /\ members' = [members EXCEPT ![db] = @ \cup {n}]
    /\ call' = IF WorksOn(n) THEN [call EXCEPT !.spoilt = @ \cup {db}] ELSE call
    /\ UNCHANGED <<config, nodes, copies, nq, chassis, leaders, others>>

(* Between two leaders no pod carries the label, or both do. *)
LoseLeader(db, k) ==
    /\ Disturb
    /\ leaders[db] = 1
    /\ leaders' = [leaders EXCEPT ![db] = k]
    /\ UNCHANGED <<config, nodes, copies, nq, call, members, chassis, cq, pass>>

ElectLeader(db) ==
    /\ leaders[db] # 1
    /\ leaders' = [leaders EXCEPT ![db] = 1]
    /\ UNCHANGED <<config, nodes, copies, nq, call, members, chassis, others>>

DeleteConfig ==
    /\ Disturb
    /\ Live(config)
    /\ config' = [config EXCEPT !.deleting = TRUE]
    /\ UNCHANGED <<nodes, copies, nq, call, ovn, cq, pass>>

ConfigGone ==
    /\ config.exists
    /\ config.deleting
    /\ config' = Gone(config)
    /\ UNCHANGED <<nodes, copies, nq, call, ovn, others>>

Fail == Disturb /\ FailedCall /\ UNCHANGED <<cq, pass>>

(* An error ends the pass before its status patch. *)
FailedPass ==
    /\ Disturb
    /\ pass # NoPass
    /\ pass' = NoPass
    /\ cq' = TRUE
    /\ UNCHANGED nodeVars

(* The operator dies and starts again: it lists and enqueues everything. *)
Restart ==
    /\ Disturb
    /\ cache' = config
    /\ ncache' = nodes
    /\ nq' = { n \in Nodes : nodes[n].phase # "Absent" }
    /\ call' = Idle
    /\ cq' = config.exists
    /\ pass' = NoPass
    /\ UNCHANGED <<config, nodes, ovn>>

----------------------------------------------------------------------------

Controller ==
    \/ \E n \in Nodes : (Start(n) \/ DeliverNode(n) \/ Resync(n)) /\ UNCHANGED others
    \/ Continue /\ UNCHANGED others
    \/ Fail
    \/ Restart

ConfigurationController ==
    findMasterNodes \/ PatchStatus \/ FailedPass \/ DeliverConfig \/ ResyncConfig

Cluster ==
    \/ \E n \in Nodes, held \in BOOLEAN : DeleteNode(n, held)
    \/ \E n \in Nodes : LetGo(n) \/ RegisterNode(n)
    \/ \E db \in DBs, n \in Nodes : JoinDatabase(db, n)
    \/ \E db \in DBs, k \in {0, 2} : LoseLeader(db, k)
    \/ \E db \in DBs : ElectLeader(db)
    \/ DeleteConfig
    \/ ConfigGone

Next == Controller \/ ConfigurationController \/ Cluster

Spec == Init /\ [][Next]_vars

(***************************************************************************)
(* The work queue serves every key in turn, informers deliver and resync,  *)
(* and the pods of a database settle on one leader.                        *)
(***************************************************************************)
Fairness ==
    /\ \A n \in Nodes : SF_vars(Start(n) /\ UNCHANGED others)
    /\ WF_vars(Continue /\ UNCHANGED others)
    /\ \A n \in Nodes : WF_vars(DeliverNode(n) /\ UNCHANGED others)
    /\ \A n \in Nodes : WF_vars(Resync(n) /\ UNCHANGED others)
    /\ WF_vars(DeliverConfig)
    /\ \A db \in DBs : WF_vars(ElectLeader(db))

FairSpec == Spec /\ Fairness

----------------------------------------------------------------------------
(* Safety.                                                                 *)

(* The node controller lets a node go. *)
Released(n) == nodes[n].fin /\ ~nodes'[n].fin

(* A call for n is about the machine that has the name now. *)
Current(n) == WorksOn(n) /\ call.uid = nodes[n].uid

(***************************************************************************)
(* A node is let go by its own cleanup only.  One that the controller      *)
(* knows as a server of the databases goes after each database has removed *)
(* it (reconcileNodeDeletion), whatever leaders, nodes and the             *)
(* Configuration do while the scripts run.                                 *)
(* Only two things bring a server past its cleanup: a cluster/kick that    *)
(* fails inside the script, whose failure nobody sees, and a server that   *)
(* joins again while the call goes on.                                     *)
(***************************************************************************)
MembersLeave ==
    [][\A n \in Nodes : Released(n) =>
         /\ WorksOn(n)
         /\ n \in call.addrs =>
              \A db \in DBs : n \notin members[db] \/ db \in call.spoilt]_vars

(***************************************************************************)
(* No deletion of one node costs another its place (CleanupNBDB and        *)
(* CleanupSBDB remove the server "with address" of the deleted node): the  *)
(* server that is removed is the one of the call's node, which is not in   *)
(* use, or is a machine that has come back under the name since the node   *)
(* was read, for the scripts know an address only.  Grep's match of a part *)
(* of another server's address costs that server its place only when the   *)
(* node itself has no entry left.                                          *)
(***************************************************************************)
OnlyTheDeparted ==
    [][\A db \in DBs : \A m \in members[db] \ members'[db] :
         \/ WorksOn(m) /\ (Current(m) => nodes[m].phase # "Live")
         \/ /\ ~WorksOn(m)
            /\ <<call.node, m>> \in Lookalikes
            /\ call.node \notin members[db]]_vars

----------------------------------------------------------------------------
(* Refinement: the nodes and their servers, seen as NodeMembership.        *)

StageOf(o) ==
    CASE o.phase = "Absent"                 -> "absent"
      [] o.phase = "Live" /\ ~o.fin         -> "new"
      [] o.phase = "Live" /\ o.fin          -> "guarded"
      [] o.phase = "Terminating" /\ o.fin   -> "guardedLeaving"
      [] OTHER                              -> "leaving"

Stage    == [n \in Nodes |-> StageOf(nodes[n])]
Kept     == { n \in Nodes : nodes[n].held }
Cleaning == IF At("idle") THEN {} ELSE {call.node}
Told     == ~At("idle") /\ call.node \in call.addrs
Same     == ~At("idle") /\ Current(call.node)
Spoilt   == IF At("idle") THEN {} ELSE call.spoilt

Membership ==
    INSTANCE NodeMembership WITH
        stage <- Stage, kept <- Kept, servers <- members,
        cleaning <- Cleaning, told <- Told, same <- Same, spoilt <- Spoilt

(***************************************************************************)
(* The node controller in its cluster keeps the promises of NodeMembership *)
(* (reconcileNodeDeletion): through stale copies of nodes, addresses and   *)
(* finalizers, machines that come back at any time, scripts that fail      *)
(* silently, leader changes, failed calls and restarts, a guarded machine  *)
(* that is in use stays guarded against its own cleanup, servers go before *)
(* their nodes, and the patch that writes back the list of finalizers      *)
(* takes no finalizer of others.                                           *)
(***************************************************************************)
ImplementsNodeMembership == Membership!Spec

----------------------------------------------------------------------------
(* Liveness.                                                               *)

(***************************************************************************)
(* A node under deletion is let go in the end, unless it has no address or *)
(* the Configuration goes first: leaders that come and go, failed scripts  *)
(* and a dropped error only delay it (reconcileNodeDeletion).              *)
(***************************************************************************)
NodeLeaves ==
    \A n \in Nodes \ Addressless :
        nodes[n].phase = "Terminating" /\ nodes[n].fin ~> (~nodes[n].fin \/ ~Live(config))

(***************************************************************************)
(* node_controller.go:45: every node carries the finalizer that triggers   *)
(* its cleanup.  A node that stays in use does in the end, even when a     *)
(* call for its predecessor has taken it off again.                        *)
(***************************************************************************)
NodesProtected ==
    \A n \in Nodes :
        <>[](nodes[n].phase = "Live" /\ Live(config)) => <>[](nodes[n].fin)

=============================================================================
