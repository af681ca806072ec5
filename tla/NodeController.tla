--------------------------- MODULE NodeController ---------------------------
(***************************************************************************)
(* The node controller (internal/controller/node_controller.go) and what   *)
(* its scripts (internal/templates/cleanup.go) do to the OVN databases.    *)
(* NodeSystem adds the cluster it works in.                                *)
(*                                                                         *)
(* Reconcile runs in one worker: call is that call's frame, call.pc the    *)
(* place it has reached.  Every request and every script is a step of its  *)
(* own.  The controller reads the informers' copies cache and ncache and   *)
(* writes to config and nodes.                                             *)
(*                                                                         *)
(* As in ConfigurationController, a definition that no action uses is the  *)
(* mistake that the properties are tested with.                            *)
(***************************************************************************)
EXTENDS Configuration

CONSTANTS
    Lookalikes,      \* <<n, m>>: the text of n's address occurs in m's
    NamedByAddress   \* the nodes whose host name is their address

ASSUME LookalikesAssumption == Lookalikes \subseteq Nodes \X Nodes
ASSUME NamedByAddressAssumption == NamedByAddress \subseteq Nodes

VARIABLES
    config,   \* the Configuration
    cache,    \* the informer's copy of it
    nodes,    \* the Node objects
    ncache,   \* the informer's copies of them
    nq,       \* the keys in the work queue
    call,     \* the running call of Reconcile
    members,  \* the servers of the two OVN databases
    chassis,  \* the nodes with a chassis in the southbound database
    leaders   \* how many pods carry the leader label of each database

copies    == <<cache, ncache>>
ovn       == <<members, chassis, leaders>>
nodeVars  == <<config, nodes, copies, nq, call, ovn>>

DBs        == {"nb", "sb"}

(***************************************************************************)
(* The stored node.  uid counts the machines that have had the name, fin   *)
(* is the operator's finalizer, held says that somebody else's keeps the   *)
(* node too once it is under deletion.                                     *)
(***************************************************************************)
NodeObject ==
    [ phase : {"Absent", "Live", "Terminating"},
      uid   : Nat,
      fin   : BOOLEAN,
      held  : BOOLEAN ]
Removed(o) == [o EXCEPT !.phase = "Absent", !.fin = FALSE, !.held = FALSE]

(***************************************************************************)
(* A call's frame: its node, and what it read of the two objects.  spoilt  *)
(* is history: the databases whose script found a server and removed none, *)
(* or that the node's server has joined since.                             *)
(***************************************************************************)
Call ==
    [ pc     : {"nb", "sb", "address", "chassis", "release"},
      node   : Nodes,
      uid    : Nat,
      addrs  : SUBSET Nodes,
      fin    : BOOLEAN,
      held   : BOOLEAN,
      spoilt : SUBSET DBs ]

Idle == [pc |-> "idle"]

At(pc) == call.pc = pc

Goto(pc) == call' = [call EXCEPT !.pc = pc] /\ UNCHANGED nq

(* The call ends with nil, or with an error that has its key retried. *)
Return  == call' = Idle /\ UNCHANGED nq
Requeue == call' = Idle /\ nq' = nq \cup {call.node}

----------------------------------------------------------------------------
(* Reconcile: take a key from the queue, read the node and the             *)
(* Configuration.                                                          *)

Dequeue(n) == At("idle") /\ n \in nq

(* The node is gone, no Configuration asks for it, or it is protected. *)
NothingToDo(n) ==
    /\ Dequeue(n)
    /\ \/ ncache[n].phase = "Absent"
       \/ ~Live(cache)
       \/ ncache[n].phase = "Live" /\ ncache[n].fin
    /\ nq' = nq \ {n}
    /\ UNCHANGED <<config, nodes, copies, call, ovn>>

ServersOnly(n) ==
    /\ Dequeue(n)
    /\ Live(cache)
    /\ ncache[n].phase = "Live"
    /\ ~ncache[n].fin
    /\ IF n \in cache.addrs /\ nodes[n].phase = "Live"
         THEN nodes' = [nodes EXCEPT ![n].fin = TRUE]
         ELSE UNCHANGED nodes
    /\ nq' = nq \ {n}
    /\ UNCHANGED <<config, copies, call, ovn>>

(* The API server refuses a new finalizer on a node under deletion. *)
AddFinalizer(n) ==
    /\ Dequeue(n)
    /\ Live(cache)
    /\ ncache[n].phase = "Live"
    /\ ~ncache[n].fin
    /\ \/ /\ nodes[n].phase = "Live"
          /\ nodes' = [nodes EXCEPT ![n].fin = TRUE]
          /\ nq' = nq \ {n}
       \/ /\ nodes[n].phase # "Live"
          /\ UNCHANGED <<nodes, nq>>
    /\ UNCHANGED <<config, copies, call, ovn>>

(* The node runs a server of the databases, as far as the copy says. *)
IsCentral(n) == n \in cache.addrs

NodesInUseToo(n) ==
    /\ Dequeue(n)
    /\ Live(cache)
    /\ ncache[n].phase # "Absent"
    /\ n \notin Addressless
    /\ nq' = nq \ {n}
    /\ call' = [ pc     |-> IF IsCentral(n) THEN "nb" ELSE "chassis",
                 node   |-> n,
                 uid    |-> ncache[n].uid,
                 addrs  |-> cache.addrs,
                 fin    |-> ncache[n].fin,
                 held   |-> ncache[n].held,
                 spoilt |-> {} ]
    /\ UNCHANGED <<config, nodes, copies, ovn>>

(***************************************************************************)
(* The beginning of reconcileNodeDeletion.  A node without an address is   *)
(* an error and keeps its key in the queue, which changes nothing.         *)
(***************************************************************************)
reconcileNodeDeletion(n) ==
    /\ Dequeue(n)
    /\ Live(cache)
    /\ ncache[n].phase = "Terminating"
    /\ n \notin Addressless
    /\ nq' = nq \ {n}
    /\ call' = [ pc     |-> IF IsCentral(n) THEN "nb" ELSE "chassis",
                 node   |-> n,
                 uid    |-> ncache[n].uid,
                 addrs  |-> cache.addrs,
                 fin    |-> ncache[n].fin,
                 held   |-> ncache[n].held,
                 spoilt |-> {} ]
    /\ UNCHANGED <<config, nodes, copies, ovn>>

----------------------------------------------------------------------------
(* The scripts run in the one pod that carries the leader's label.         *)

OneLeader(db) == leaders[db] = 1

(* The servers whose line of cluster/status the script's grep selects. *)
Selected(db) ==
    { m \in members[db] : m = call.node \/ <<call.node, m>> \in Lookalikes }

(***************************************************************************)
(* cluster/kick takes one server.  It is given every first word of a line  *)
(* that grep selects, and fails on two: the servers of two lines, or the   *)
(* "Address:" of the pod's own server.  It may fail for other reasons too. *)
(* The script goes on, and its last command succeeds.                      *)
(***************************************************************************)
Kick(db) ==
    \/ \E m \in Nodes :
         /\ Selected(db) = {m}
         /\ members' = [members EXCEPT ![db] = @ \ {m}]
    \/ UNCHANGED members

Missed(db) == Selected(db) # {} /\ members' = members

GoOn(db, next) ==
    /\ call' = [call EXCEPT !.pc = next,
                            !.spoilt = IF Missed(db) THEN @ \cup {db} ELSE @]
    /\ UNCHANGED nq

NoLeaderNeeded(db, next) ==
    /\ At(db)
    /\ \/ OneLeader(db) /\ Kick(db) /\ GoOn(db, next)
       \/ ~OneLeader(db) /\ Goto(next) /\ UNCHANGED members
    /\ UNCHANGED <<config, nodes, copies, chassis, leaders>>

(* reconcileOVNCentralState, for one database. *)
cleanup(db, next) ==
    /\ At(db)
    /\ \/ OneLeader(db) /\ Kick(db) /\ GoOn(db, next)
       \/ ~OneLeader(db) /\ Requeue /\ UNCHANGED members
    /\ UNCHANGED <<config, nodes, copies, chassis, leaders>>

reconcileOVNCentralState == cleanup("nb", "sb") \/ cleanup("sb", "address")

BlankElement(elements, element) ==
    IF element \in elements THEN (elements \ {element}) \cup {""} ELSE elements

(* The address is taken out of the list that was read. *)
removeElement(elements, element) == elements \ {element}

PatchAddresses ==
    /\ At("address")
    /\ \/ /\ config.exists
          /\ config' = [config EXCEPT !.addrs = removeElement(call.addrs, call.node)]
          /\ Goto("chassis")
       \/ ~config.exists /\ Requeue /\ UNCHANGED config
    /\ UNCHANGED <<nodes, copies, ovn>>

(***************************************************************************)
(* The script looks for a chassis by host name and is given the address.   *)
(* An error of it ends the call with nil.                                  *)
(***************************************************************************)
reconcileOVSOVNState ==
    /\ At("chassis")
    /\ \/ /\ OneLeader("sb")
          /\ chassis' = chassis \ ({call.node} \cap NamedByAddress)
          /\ Goto("release")
       \/ ~OneLeader("sb") /\ Return /\ UNCHANGED chassis
    /\ UNCHANGED <<config, nodes, copies, members, leaders>>

NeverReleased ==
    /\ At("release")
    /\ Return
    /\ UNCHANGED <<config, nodes, copies, ovn>>

AllFinalizersRemoved ==
    /\ At("release")
    /\ IF call.fin /\ nodes[call.node].phase # "Absent"
         THEN nodes' = [nodes EXCEPT ![call.node] =
                          IF @.phase = "Live" THEN [@ EXCEPT !.fin = FALSE]
                                                ELSE Removed(@)]
         ELSE UNCHANGED nodes
    /\ Return
    /\ UNCHANGED <<config, copies, ovn>>

(***************************************************************************)
(* The patch replaces the list of finalizers by the one that was read less *)
(* the operator's own.  A node under deletion goes with its last one, and  *)
(* takes no new one.  The patch names no uid: a node in use that has come  *)
(* back under the name loses its finalizer.                                *)
(***************************************************************************)
RemoveFinalizer ==
    /\ At("release")
    /\ \/ /\ call.fin
          /\ LET n == call.node
                 inUse   == nodes[n].phase = "Live"
                 refused == \/ nodes[n].phase = "Absent"
                            \/ ~inUse /\ call.held /\ ~nodes[n].held
             IN  \/ refused /\ Requeue /\ UNCHANGED nodes
                 \/ /\ ~refused
                    /\ nodes' = [nodes EXCEPT ![n] =
                                   IF inUse \/ call.held THEN [@ EXCEPT !.fin = FALSE]
                                                         ELSE Removed(@)]
                    /\ Return
       \/ ~call.fin /\ Return /\ UNCHANGED nodes
    /\ UNCHANGED <<config, copies, ovn>>

----------------------------------------------------------------------------

Start(n) == NothingToDo(n) \/ AddFinalizer(n) \/ reconcileNodeDeletion(n)

Continue ==
    \/ reconcileOVNCentralState
    \/ PatchAddresses
    \/ reconcileOVSOVNState
    \/ RemoveFinalizer

(* A request or a script fails.  The chassis script's error is dropped. *)
FailedCall ==
    /\ ~At("idle")
    /\ IF At("chassis") THEN Return ELSE Requeue
    /\ UNCHANGED <<config, nodes, copies, ovn>>

DeliverNode(n) ==
    /\ ncache[n] # nodes[n]
    /\ ncache' = [ncache EXCEPT ![n] = nodes[n]]
    /\ nq' = nq \cup {n}
    /\ UNCHANGED <<config, cache, nodes, call, ovn>>

(* Kubelets report and informers resync: a key may come at any time. *)
Resync(n) ==
    /\ ncache[n].phase # "Absent"
    /\ n \notin nq
    /\ nq' = nq \cup {n}
    /\ UNCHANGED <<config, nodes, copies, call, ovn>>

=============================================================================
