-------------------------- MODULE NodeSystemProofs --------------------------
(***************************************************************************)
(* Proofs for NodeSystem, for any number of nodes, masters, machines and   *)
(* disturbances, any addresses, and with kicks that fail as they like.     *)
(*                                                                         *)
(* The copy of a node may be old, but of one machine a copy under deletion *)
(* is never of a node in use: deletion is final.  What that does not give, *)
(* the code does not have: the name may belong to another machine by now.  *)
(* A database that the call has passed has lost the node's server, unless  *)
(* the script's kick failed or the server has joined again since; Kicked   *)
(* carries that from the first script to the step that lets the node go.   *)
(***************************************************************************)
EXTENDS NodeSystem, TLAPS

(* The numbers of the machines grow. *)
UidsGrow ==
    /\ \A n \in Nodes : ncache[n].uid <= nodes[n].uid
    /\ ~At("idle") => call.uid <= nodes[call.node].uid

(* A copy under deletion is of a machine that is, or is gone. *)
CopyIsDeparting ==
    \A n \in Nodes : ncache[n].phase = "Terminating" /\ ncache[n].uid = nodes[n].uid =>
        nodes[n].phase # "Live"

(* A call cleans up after a machine that is under deletion, or gone. *)
CallIsDeparting ==
    ~At("idle") /\ call.uid = nodes[call.node].uid => nodes[call.node].phase # "Live"

(***************************************************************************)
(* Nobody adds a finalizer to a node under deletion, so a copy of such a   *)
(* machine, and a call that has read one, has every finalizer that it      *)
(* still has: writing the list back takes none that it should not.         *)
(***************************************************************************)
HeldIsDeparting == \A n \in Nodes : nodes[n].held => nodes[n].phase = "Terminating"

CopyIsHeld ==
    \A n \in Nodes : ncache[n].phase = "Terminating" /\ ncache[n].uid = nodes[n].uid =>
        (nodes[n].held => ncache[n].held)

CallIsHeld ==
    ~At("idle") /\ call.uid = nodes[call.node].uid /\ nodes[call.node].held => call.held

(* The scripts run only for a node whose address was read. *)
CallIsTold == At("nb") \/ At("sb") => call.node \in call.addrs

DeletionIsFinal ==
    /\ UidsGrow
    /\ CopyIsDeparting
    /\ CallIsDeparting
    /\ HeldIsDeparting
    /\ CopyIsHeld
    /\ CallIsHeld
    /\ CallIsTold

(* A database that the call has passed has lost the node, or is spoilt. *)
Cleaned(db) == call.node \notin members[db] \/ db \in call.spoilt

Kicked ==
    ~At("idle") /\ call.node \in call.addrs =>
        /\ ~At("nb") => Cleaned("nb")
        /\ ~At("nb") /\ ~At("sb") => Cleaned("sb")

----------------------------------------------------------------------------
(* Type correctness.                                                       *)

(* A new object has the type. *)
LEMMA FreshConfiguration ==
    ASSUME NEW e \in BOOLEAN, NEW u \in Nat
    PROVE  Fresh(e, u) \in ConfigurationObject
BY DEF Fresh, ConfigurationObject, ConditionStatus

(* The list of addresses is replaced by another. *)
LEMMA PatchedAddresses ==
    ASSUME NEW c \in ConfigurationObject, NEW s \in SUBSET Nodes
    PROVE  [c EXCEPT !.addrs = s] \in ConfigurationObject
BY DEF ConfigurationObject

(* What is written to a node is a node. *)
LEMMA NodeTypes ==
    ASSUME NEW o \in NodeObject, NEW b \in BOOLEAN
    PROVE  /\ Removed(o) \in NodeObject
           /\ [o EXCEPT !.fin = b] \in NodeObject
           /\ [o EXCEPT !.held = b] \in NodeObject
           /\ [o EXCEPT !.phase = "Terminating", !.held = b] \in NodeObject
BY DEF NodeObject, Removed

(* Taking a key, and what a call does in its first step, keeps the types. *)
LEMMA StartTypeOK ==
    ASSUME TypeOK, NEW n \in Nodes, Start(n), UNCHANGED others
    PROVE  TypeOK'
<1> USE DEF TypeOK, others, copies, ovn
<1>1. CASE NothingToDo(n)
  BY <1>1 DEF NothingToDo
<1>2. CASE AddFinalizer(n)
  <2>1. CASE nodes[n].phase = "Live" /\ nodes' = [nodes EXCEPT ![n].fin = TRUE]
    <3>1. [nodes[n] EXCEPT !.fin = TRUE] \in NodeObject
      BY NodeTypes
    <3>2. nodes' \in [Nodes -> NodeObject]
      BY <2>1, <3>1
    <3>3. QED
      BY <1>2, <2>1, <3>2 DEF AddFinalizer, NodeObject
  <2>2. CASE UNCHANGED nodes
    BY <1>2, <2>2 DEF AddFinalizer
  <2>3. QED
    BY <1>2, <2>1, <2>2 DEF AddFinalizer
<1>3. CASE reconcileNodeDeletion(n)
  <2>1. call' \in Call
    BY <1>3 DEF reconcileNodeDeletion, Call, NodeObject, ConfigurationObject
  <2>2. QED
    BY <1>3, <2>1 DEF reconcileNodeDeletion
<1>4. QED
  BY <1>1, <1>2, <1>3 DEF Start

(* The end of a call, with nil or with an error. *)
LEMMA EndTypeOK ==
    ASSUME TypeOK, ~At("idle"), Return \/ Requeue
    PROVE  call' \in Call \cup {Idle} /\ nq' \subseteq Nodes
BY DEF TypeOK, Return, Requeue, Call, Idle, At

(* A call that is under way goes on in one of its places. *)
LEMMA GotoTypeOK ==
    ASSUME TypeOK, ~At("idle"), NEW pc \in {"nb", "sb", "address", "chassis", "release"},
           Goto(pc)
    PROVE  call' \in Call \cup {Idle} /\ nq' \subseteq Nodes
BY DEF TypeOK, Goto, Call, Idle, At

(* A call that is under way has a frame. *)
LEMMA Frame ==
    ASSUME TypeOK, ~At("idle")
    PROVE  call \in Call
BY DEF TypeOK, At, Idle

(* A call that goes on keeps what it read. *)
LEMMA GotoKeeps ==
    ASSUME TypeOK, ~At("idle"), NEW pc, Goto(pc)
    PROVE  /\ call'.pc = pc
           /\ call'.node = call.node /\ call'.uid = call.uid
           /\ call'.addrs = call.addrs /\ call'.held = call.held
           /\ call'.spoilt = call.spoilt
<1>1. call \in Call
  BY Frame
<1>2. QED
  BY <1>1 DEF Goto, Call

(* So does one that goes on after a script. *)
LEMMA GoOnKeeps ==
    ASSUME TypeOK, ~At("idle"), NEW db \in DBs, NEW next \in {"sb", "address"},
           GoOn(db, next)
    PROVE  /\ call' \in Call
           /\ call'.pc = next
           /\ call'.node = call.node /\ call'.uid = call.uid
           /\ call'.addrs = call.addrs /\ call'.held = call.held
           /\ call'.spoilt = IF Missed(db) THEN call.spoilt \cup {db} ELSE call.spoilt
           /\ nq' = nq
<1>1. call \in Call
  BY Frame
<1> DEFINE S == IF Missed(db) THEN call.spoilt \cup {db} ELSE call.spoilt
<1>2. S \in SUBSET DBs
  BY <1>1 DEF Call
<1>3. call' = [call EXCEPT !.pc = next, !.spoilt = S] /\ nq' = nq
  BY DEF GoOn
<1> HIDE DEF S
<1>4. call' \in Call /\ call'.pc = next /\ call'.spoilt = S /\ nq' = nq
  BY <1>1, <1>2, <1>3 DEF Call
<1>5. call'.node = call.node /\ call'.uid = call.uid /\ call'.addrs = call.addrs
      /\ call'.held = call.held
  BY <1>1, <1>3 DEF Call
<1>6. QED
  BY <1>4, <1>5 DEF S

(* The script of one database keeps the types. *)
LEMMA CleanupTypeOK ==
    ASSUME TypeOK, NEW db \in DBs, NEW next \in {"sb", "address"}, cleanup(db, next),
           UNCHANGED others
    PROVE  TypeOK'
<1>1. ~At("idle")
  BY DEF cleanup, At, DBs
<1>2. call' \in Call \cup {Idle} /\ nq' \subseteq Nodes
  BY <1>1, EndTypeOK, GoOnKeeps DEF cleanup, TypeOK
<1>3. members' \in [DBs -> SUBSET Nodes]
  BY DEF cleanup, Kick, TypeOK
<1>4. QED
  BY <1>2, <1>3 DEF TypeOK, cleanup, others, copies

(* Every later step of a call keeps the types. *)
LEMMA ContinueTypeOK ==
    ASSUME TypeOK, Continue, UNCHANGED others
    PROVE  TypeOK'
<1>1. CASE reconcileOVNCentralState
  BY <1>1, CleanupTypeOK DEF reconcileOVNCentralState, DBs
<1>2. CASE PatchAddresses
  <2>1. ~At("idle") /\ call \in Call
    BY <1>2, Frame DEF PatchAddresses, At
  <2>2. call' \in Call \cup {Idle} /\ nq' \subseteq Nodes
    BY <1>2, <2>1, EndTypeOK, GotoTypeOK DEF PatchAddresses
  <2>3. removeElement(call.addrs, call.node) \in SUBSET Nodes
    BY <2>1 DEF removeElement, Call
  <2>4. config' \in ConfigurationObject
    BY <1>2, <2>3, PatchedAddresses DEF PatchAddresses, TypeOK
  <2>5. QED
    BY <1>2, <2>2, <2>4 DEF PatchAddresses, TypeOK, others, copies, ovn
<1>3. CASE reconcileOVSOVNState
  <2>1. ~At("idle")
    BY <1>3 DEF reconcileOVSOVNState, At
  <2>2. call' \in Call \cup {Idle} /\ nq' \subseteq Nodes
    BY <1>3, <2>1, EndTypeOK, GotoTypeOK DEF reconcileOVSOVNState
  <2>3. chassis' \subseteq Nodes
    BY <1>3 DEF reconcileOVSOVNState, TypeOK
  <2>4. QED
    BY <1>3, <2>2, <2>3 DEF reconcileOVSOVNState, TypeOK, others, copies
<1>4. CASE RemoveFinalizer
  <2>1. ~At("idle") /\ call \in Call
    BY <1>4, Frame DEF RemoveFinalizer, At
  <2>2. call' \in Call \cup {Idle} /\ nq' \subseteq Nodes
    BY <1>4, <2>1, EndTypeOK DEF RemoveFinalizer
  <2>3. /\ nodes' \in [Nodes -> NodeObject]
        /\ \A n \in Nodes : nodes'[n].fin => nodes'[n].phase # "Absent"
        /\ \A n \in Nodes :
              nodes'[n].phase = "Terminating" => nodes'[n].fin \/ nodes'[n].held
    <3>1. CASE UNCHANGED nodes
      BY <3>1 DEF TypeOK
    <3>2. CASE /\ nodes[call.node].phase # "Live" /\ call.held => nodes[call.node].held
               /\ nodes' = [nodes EXCEPT ![call.node] =
                              IF nodes[call.node].phase = "Live" \/ call.held
                                THEN [nodes[call.node] EXCEPT !.fin = FALSE]
                                ELSE Removed(nodes[call.node])]
      <4>1. call.node \in Nodes
        BY <2>1 DEF Call
      <4>2. nodes[call.node] \in NodeObject
        BY <4>1 DEF TypeOK
      <4>3. Removed(nodes[call.node]) \in NodeObject /\ [nodes[call.node] EXCEPT !.fin = FALSE] \in NodeObject
        BY <4>2, NodeTypes
      <4>4. nodes' \in [Nodes -> NodeObject]
        BY <3>2, <4>1, <4>3 DEF TypeOK
      <4>5. QED
        BY <3>2, <4>1, <4>2, <4>4 DEF TypeOK, NodeObject, Removed
    <3>3. QED
      BY <1>4, <3>1, <3>2 DEF RemoveFinalizer
  <2>4. QED
    BY <1>4, <2>2, <2>3 DEF RemoveFinalizer, TypeOK, others, copies, ovn
<1>5. QED
  BY <1>1, <1>2, <1>3, <1>4 DEF Continue

(* A failed call, and what the informers bring, keeps the types. *)
LEMMA MachineryTypeOK ==
    ASSUME TypeOK,
           \/ Fail
           \/ Restart
           \/ \E n \in Nodes : (DeliverNode(n) \/ Resync(n)) /\ UNCHANGED others
    PROVE  TypeOK'
<1>1. CASE Fail
  <2>1. call' \in Call \cup {Idle} /\ nq' \subseteq Nodes
    BY <1>1, EndTypeOK DEF Fail, FailedCall
  <2>2. budget' \in Nat
    BY <1>1 DEF Fail, Disturb, TypeOK
  <2>3. QED
    BY <1>1, <2>1, <2>2 DEF Fail, FailedCall, TypeOK, copies, ovn
<1>2. CASE Restart
  <2>1. budget' \in Nat
    BY <1>2 DEF Restart, Disturb, TypeOK
  <2>2. cq' \in BOOLEAN
    BY <1>2 DEF Restart, TypeOK, ConfigurationObject
  <2>3. QED
    BY <1>2, <2>1, <2>2 DEF Restart, TypeOK, ovn
<1>3. CASE \E n \in Nodes : (DeliverNode(n) \/ Resync(n)) /\ UNCHANGED others
  BY <1>3 DEF DeliverNode, Resync, TypeOK, others, copies, ovn
<1>4. QED
  BY <1>1, <1>2, <1>3

(* The configuration controller keeps the types. *)
LEMMA ConfigurationControllerTypeOK ==
    ASSUME TypeOK, ConfigurationController
    PROVE  TypeOK'
<1>1. CASE findMasterNodes
  <2>1. pass' \in Pass \cup {NoPass}
    BY <1>1, MastersAssumption DEF findMasterNodes, TypeOK, Pass, ConfigurationObject
  <2>2. QED
    BY <1>1, <2>1 DEF findMasterNodes, TypeOK, nodeVars, copies, ovn
<1>2. CASE PatchStatus
  <2>1. pass \in Pass
    BY <1>2 DEF PatchStatus, TypeOK
  <2>2. config' \in ConfigurationObject
    BY <1>2, <2>1, PatchedAddresses DEF PatchStatus, TypeOK, Pass
  <2>3. cq' \in BOOLEAN
    BY <1>2 DEF PatchStatus, TypeOK
  <2>4. QED
    BY <1>2, <2>2, <2>3 DEF PatchStatus, TypeOK, copies, ovn
<1>3. CASE FailedPass
  <2>1. budget' \in Nat
    BY <1>3 DEF FailedPass, Disturb, TypeOK
  <2>2. QED
    BY <1>3, <2>1 DEF FailedPass, TypeOK, nodeVars, copies, ovn
<1>4. CASE DeliverConfig \/ ResyncConfig
  BY <1>4 DEF DeliverConfig, ResyncConfig, TypeOK, nodeVars, copies, ovn
<1>5. QED
  BY <1>1, <1>2, <1>3, <1>4 DEF ConfigurationController

(* The nodes of the cluster come and go. *)
LEMMA ClusterTypeOK ==
    ASSUME TypeOK, Cluster
    PROVE  TypeOK'
<1>1. ASSUME NEW n \in Nodes, NEW held \in BOOLEAN, DeleteNode(n, held)
      PROVE  TypeOK'
  <2>1. nodes[n] \in NodeObject
    BY DEF TypeOK
  <2>2. /\ Removed(nodes[n]) \in NodeObject
        /\ [nodes[n] EXCEPT !.phase = "Terminating", !.held = held] \in NodeObject
    BY <2>1, NodeTypes
  <2>3. nodes' \in [Nodes -> NodeObject]
    BY <1>1, <2>2 DEF DeleteNode, TypeOK
  <2>4. /\ \A m \in Nodes : nodes'[m].fin => nodes'[m].phase # "Absent"
        /\ \A m \in Nodes :
              nodes'[m].phase = "Terminating" => nodes'[m].fin \/ nodes'[m].held
    BY <1>1, <2>1 DEF DeleteNode, TypeOK, NodeObject, Removed
  <2>5. QED
    BY <1>1, <2>3, <2>4 DEF DeleteNode, TypeOK, copies, ovn, others
<1>2. ASSUME NEW n \in Nodes, LetGo(n)
      PROVE  TypeOK'
  <2>1. nodes[n] \in NodeObject
    BY DEF TypeOK
  <2>2. Removed(nodes[n]) \in NodeObject /\ [nodes[n] EXCEPT !.held = FALSE] \in NodeObject
    BY <2>1, NodeTypes
  <2>3. nodes' \in [Nodes -> NodeObject]
    BY <1>2, <2>2 DEF LetGo, TypeOK
  <2>4. /\ \A m \in Nodes : nodes'[m].fin => nodes'[m].phase # "Absent"
        /\ \A m \in Nodes :
              nodes'[m].phase = "Terminating" => nodes'[m].fin \/ nodes'[m].held
    BY <1>2, <2>1 DEF LetGo, TypeOK, NodeObject, Removed
  <2>5. QED
    BY <1>2, <2>3, <2>4 DEF LetGo, TypeOK, copies, ovn, others
<1>3. ASSUME NEW n \in Nodes, RegisterNode(n)
      PROVE  TypeOK'
  <2>1. /\ nodes' \in [Nodes -> NodeObject]
        /\ \A m \in Nodes : nodes'[m].fin => nodes'[m].phase # "Absent"
        /\ \A m \in Nodes :
              nodes'[m].phase = "Terminating" => nodes'[m].fin \/ nodes'[m].held
    BY <1>3 DEF RegisterNode, TypeOK, NodeObject, NewNode
  <2>2. QED
    BY <1>3, <2>1 DEF RegisterNode, TypeOK, copies, others
<1>4. ASSUME NEW db \in DBs, NEW n \in Nodes, JoinDatabase(db, n)
      PROVE  TypeOK'
  <2>1. members' \in [DBs -> SUBSET Nodes]
    BY <1>4 DEF JoinDatabase, TypeOK
  <2>2. call' \in Call \cup {Idle}
    <3>1. CASE WorksOn(n)
      BY <1>4, <3>1, Frame DEF JoinDatabase, WorksOn, Call
    <3>2. CASE ~WorksOn(n)
      BY <1>4, <3>2 DEF JoinDatabase, TypeOK
    <3>3. QED
      BY <3>1, <3>2
  <2>3. QED
    BY <1>4, <2>1, <2>2 DEF JoinDatabase, TypeOK, copies, others
<1>5. ASSUME NEW db \in DBs, NEW k \in {0, 2}, LoseLeader(db, k)
      PROVE  TypeOK'
  <2>1. budget' \in Nat
    BY <1>5 DEF LoseLeader, Disturb, TypeOK
  <2>2. leaders' \in [DBs -> 0..2]
    BY <1>5 DEF LoseLeader, TypeOK
  <2>3. QED
    BY <1>5, <2>1, <2>2 DEF LoseLeader, TypeOK, copies
<1>6. ASSUME NEW db \in DBs, ElectLeader(db)
      PROVE  TypeOK'
  <2>1. leaders' \in [DBs -> 0..2]
    BY <1>6 DEF ElectLeader, TypeOK
  <2>2. QED
    BY <1>6, <2>1 DEF ElectLeader, TypeOK, copies, others
<1>7. CASE DeleteConfig
  <2>1. config' \in ConfigurationObject
    BY <1>7 DEF DeleteConfig, TypeOK, ConfigurationObject
  <2>2. budget' \in Nat
    BY <1>7 DEF DeleteConfig, Disturb, TypeOK
  <2>3. QED
    BY <1>7, <2>1, <2>2 DEF DeleteConfig, TypeOK, copies, ovn
<1>8. CASE ConfigGone
  <2>1. config.uid \in Nat
    BY DEF TypeOK, ConfigurationObject
  <2>2. config' \in ConfigurationObject
    BY <1>8, <2>1, FreshConfiguration DEF ConfigGone, Gone
  <2>3. QED
    BY <1>8, <2>2 DEF ConfigGone, TypeOK, copies, ovn, others
<1>9. QED
  BY <1>1, <1>2, <1>3, <1>4, <1>5, <1>6, <1>7, <1>8 DEF Cluster

(* The first state has the types. *)
LEMMA InitTypeOK == Init => TypeOK
<1> SUFFICES ASSUME Init PROVE TypeOK
  OBVIOUS
<1>1. config \in ConfigurationObject
  <2>1. Started \in SUBSET Nodes
    BY MastersAssumption DEF Started
  <2>2. QED
    BY <2>1, FreshConfiguration, PatchedAddresses DEF Init
<1>2. budget \in Nat
  BY BoundsAssumption DEF Init
<1>3. /\ nodes \in [Nodes -> NodeObject]
      /\ \A n \in Nodes : nodes[n].phase = "Live"
  BY DeployedAssumption DEF Init, NodeObject, NewNode
<1>4. leaders \in [DBs -> 0..2]
  BY DEF Init
<1>5. members \in [DBs -> SUBSET Nodes] /\ chassis \subseteq Nodes /\ nq \subseteq Nodes
  BY MastersAssumption DEF Init, Started
<1>6. QED
  BY <1>1, <1>2, <1>3, <1>4, <1>5 DEF Init, TypeOK

LEMMA NextTypeOK == TypeOK /\ [Next]_vars => TypeOK'
<1> SUFFICES ASSUME TypeOK, [Next]_vars PROVE TypeOK'
  OBVIOUS
<1>1. CASE Controller
  BY <1>1, StartTypeOK, ContinueTypeOK, MachineryTypeOK DEF Controller
<1>2. CASE ConfigurationController
  BY <1>2, ConfigurationControllerTypeOK
<1>3. CASE Cluster
  BY <1>3, ClusterTypeOK
<1>4. CASE UNCHANGED vars
  BY <1>4 DEF TypeOK, vars, nodeVars, others, copies, ovn
<1>5. QED
  BY <1>1, <1>2, <1>3, <1>4 DEF Next

(***************************************************************************)
(* Type correctness of NodeSystem: no race of the two controllers with the *)
(* cluster leaves a deleted node without the finalizer that keeps it, or a *)
(* finalizer on a node that is gone (NodeReconciler.Reconcile).            *)
(***************************************************************************)
THEOREM TypeCorrect == Spec => []TypeOK
BY InitTypeOK, NextTypeOK, PTL DEF Spec

----------------------------------------------------------------------------
(* Deletion is final: what the copies and the call have read of a machine. *)

(* What a step does to a node: another machine takes the name, or the node *)
(* keeps its deletion and gets no finalizer after it.                      *)
LEMMA NodeStep ==
    ASSUME TypeOK, HeldIsDeparting, [Next]_vars, NEW n \in Nodes
    PROVE  \/ /\ nodes'[n].uid = nodes[n].uid
              /\ nodes'[n].phase = "Live" => nodes[n].phase = "Live"
              /\ nodes'[n].held => nodes'[n].phase = "Terminating"
              /\ nodes'[n].held => nodes[n].held \/ nodes[n].phase = "Live"
           \/ nodes'[n].uid = nodes[n].uid + 1 /\ ~nodes'[n].held
<1> USE DEF TypeOK, NodeObject, HeldIsDeparting
<1>1. CASE nodes' = nodes
  BY <1>1
<1>2. ASSUME NEW m \in Nodes, AddFinalizer(m)
      PROVE  nodes'[n].uid = nodes[n].uid /\ nodes'[n].phase = nodes[n].phase
             /\ nodes'[n].held = nodes[n].held
  <2>1. nodes' = nodes \/ nodes' = [nodes EXCEPT ![m].fin = TRUE]
    BY <1>2 DEF AddFinalizer
  <2>2. QED
    BY <2>1
<1>3. CASE RemoveFinalizer
  <2> DEFINE o == nodes[call.node]
  <2>1. call.node \in Nodes /\ o \in NodeObject
    BY <1>3, Frame DEF RemoveFinalizer, At, Call
  <2>2. \/ nodes' = nodes
        \/ nodes' = [nodes EXCEPT ![call.node] = [o EXCEPT !.fin = FALSE]]
        \/ nodes' = [nodes EXCEPT ![call.node] = Removed(o)]
    BY <1>3 DEF RemoveFinalizer
  <2>3. Removed(o).uid = o.uid /\ ~Removed(o).held /\ Removed(o).phase = "Absent"
    BY <2>1 DEF Removed
  <2>4. CASE nodes' = [nodes EXCEPT ![call.node] = Removed(o)]
    BY <2>1, <2>3, <2>4
  <2>5. CASE nodes' = [nodes EXCEPT ![call.node] = [o EXCEPT !.fin = FALSE]]
    BY <2>1, <2>5
  <2>6. QED
    BY <1>1, <2>2, <2>4, <2>5
<1>4. ASSUME NEW m \in Nodes, NEW held \in BOOLEAN, DeleteNode(m, held)
      PROVE  /\ nodes'[n].uid = nodes[n].uid
             /\ nodes'[n].phase = "Live" => nodes[n].phase = "Live"
             /\ nodes'[n].held => nodes'[n].phase = "Terminating"
             /\ nodes'[n].held => nodes[n].held \/ nodes[n].phase = "Live"
  BY <1>4 DEF DeleteNode, Removed
<1>5. ASSUME NEW m \in Nodes, LetGo(m)
      PROVE  /\ nodes'[n].uid = nodes[n].uid
             /\ nodes'[n].phase = "Live" => nodes[n].phase = "Live"
             /\ nodes'[n].held => nodes'[n].phase = "Terminating"
             /\ nodes'[n].held => nodes[n].held
  BY <1>5 DEF LetGo, Removed
<1>6. ASSUME NEW m \in Nodes, RegisterNode(m)
      PROVE  \/ nodes'[n] = nodes[n]
             \/ nodes'[n].uid = nodes[n].uid + 1 /\ ~nodes'[n].held
  BY <1>6 DEF RegisterNode, NewNode
<1>7. ASSUME Controller
      PROVE  \/ RemoveFinalizer
             \/ nodes' = nodes
             \/ \E m \in Nodes : AddFinalizer(m)
  BY <1>7 DEF Controller, Start, NothingToDo, reconcileNodeDeletion, Continue,
     reconcileOVNCentralState, cleanup, PatchAddresses, reconcileOVSOVNState,
     DeliverNode, Resync, Fail, FailedCall, Restart
<1>8. ASSUME ConfigurationController
      PROVE  nodes' = nodes
  BY <1>8 DEF ConfigurationController, findMasterNodes, PatchStatus, FailedPass,
     DeliverConfig, ResyncConfig, nodeVars
<1>9. CASE Cluster
  BY <1>1, <1>4, <1>5, <1>6, <1>9
  DEF Cluster, JoinDatabase, LoseLeader, ElectLeader, DeleteConfig, ConfigGone
<1>10. CASE UNCHANGED vars
  BY <1>1, <1>10 DEF vars, nodeVars
<1>11. QED
  BY <1>1, <1>2, <1>3, <1>7, <1>8, <1>9, <1>10 DEF Next

(* A copy changes to what the node is. *)
LEMMA CopyStep ==
    ASSUME TypeOK, [Next]_vars, NEW n \in Nodes
    PROVE  ncache'[n] = ncache[n] \/ ncache'[n] = nodes'[n]
<1> USE DEF copies, nodeVars
<1>1. CASE ncache' = ncache
  BY <1>1
<1>2. ASSUME NEW m \in Nodes, DeliverNode(m)
      PROVE  ncache'[n] = ncache[n] \/ ncache'[n] = nodes'[n]
  BY <1>2 DEF DeliverNode, TypeOK
<1>3. CASE Restart
  BY <1>3 DEF Restart
<1>4. ASSUME Controller
      PROVE  Restart \/ ncache' = ncache \/ \E m \in Nodes : DeliverNode(m)
  BY <1>4 DEF Controller, Start, NothingToDo, AddFinalizer, reconcileNodeDeletion,
     Continue, reconcileOVNCentralState, cleanup, PatchAddresses, reconcileOVSOVNState,
     RemoveFinalizer, Resync, Fail, FailedCall
<1>5. ASSUME ConfigurationController \/ Cluster
      PROVE  ncache' = ncache
  BY <1>5 DEF ConfigurationController, findMasterNodes, PatchStatus, FailedPass,
     DeliverConfig, ResyncConfig, Cluster, DeleteNode, LetGo, RegisterNode, JoinDatabase,
     LoseLeader, ElectLeader, DeleteConfig, ConfigGone
<1>6. CASE UNCHANGED vars
  BY <1>1, <1>6 DEF vars
<1>7. QED
  BY <1>1, <1>2, <1>3, <1>4, <1>5, <1>6 DEF Next

(* A call begins with what a copy says, goes on with it, or ends. *)
SameCall ==
    /\ ~At("idle")
    /\ call'.node = call.node /\ call'.uid = call.uid
    /\ call'.addrs = call.addrs /\ call'.held = call.held
    /\ call'.pc \in {"nb", "sb"} => call.pc \in {"nb", "sb"}

LEMMA CallStep ==
    ASSUME TypeOK, [Next]_vars
    PROVE  \/ call' = Idle
           \/ call' = call
           \/ SameCall
           \/ \E n \in Nodes : reconcileNodeDeletion(n)
<1> USE DEF copies, ovn, nodeVars
<1>1. ASSUME NEW db \in DBs, NEW next \in {"sb", "address"}, cleanup(db, next)
      PROVE  call' = Idle \/ SameCall
  <2>1. At(db) /\ ~At("idle")
    BY <1>1 DEF cleanup, At, DBs
  <2>2. CASE Requeue
    BY <2>2 DEF Requeue
  <2>3. CASE GoOn(db, next)
    BY <2>1, <2>3, GoOnKeeps DEF SameCall, At, DBs
  <2>4. QED
    BY <1>1, <2>2, <2>3 DEF cleanup
<1>2. CASE PatchAddresses
  <2>1. ~At("idle")
    BY <1>2 DEF PatchAddresses, At
  <2>2. CASE Goto("chassis")
    BY <2>1, <2>2, GotoKeeps DEF SameCall
  <2>3. QED
    BY <1>2, <2>2 DEF PatchAddresses, Requeue
<1>3. CASE reconcileOVSOVNState
  <2>1. ~At("idle")
    BY <1>3 DEF reconcileOVSOVNState, At
  <2>2. CASE Goto("release")
    BY <2>1, <2>2, GotoKeeps DEF SameCall
  <2>3. QED
    BY <1>3, <2>2 DEF reconcileOVSOVNState, Return
<1>4. CASE RemoveFinalizer \/ Fail \/ Restart
  BY <1>4 DEF RemoveFinalizer, Fail, FailedCall, Restart, Return, Requeue
<1>5. ASSUME NEW db \in DBs, NEW n \in Nodes, JoinDatabase(db, n)
      PROVE  call' = call \/ SameCall
  <2>1. CASE WorksOn(n)
    <3>1. ~At("idle") /\ call \in Call
      BY <2>1, Frame DEF WorksOn
    <3>2. call' = [call EXCEPT !.spoilt = @ \cup {db}]
      BY <1>5, <2>1 DEF JoinDatabase
    <3>3. QED
      BY <3>1, <3>2 DEF SameCall, Call
  <2>2. QED
    BY <1>5, <2>1 DEF JoinDatabase
<1>6. ASSUME Controller
      PROVE  \/ call' = call
             \/ \E n \in Nodes : reconcileNodeDeletion(n)
             \/ reconcileOVNCentralState \/ PatchAddresses \/ reconcileOVSOVNState
             \/ RemoveFinalizer \/ Fail \/ Restart
  BY <1>6 DEF Controller, Start, NothingToDo, AddFinalizer, Continue, DeliverNode, Resync
<1>7. CASE Controller
  BY <1>1, <1>2, <1>3, <1>4, <1>6, <1>7 DEF reconcileOVNCentralState, DBs
<1>8. ASSUME ConfigurationController
      PROVE  call' = call
  BY <1>8 DEF ConfigurationController, findMasterNodes, PatchStatus, FailedPass,
     DeliverConfig, ResyncConfig
<1>9. CASE Cluster
  BY <1>5, <1>9 DEF Cluster, DeleteNode, LetGo, RegisterNode, LoseLeader, ElectLeader,
     DeleteConfig, ConfigGone
<1>10. CASE UNCHANGED vars
  BY <1>10 DEF vars
<1>11. QED
  BY <1>7, <1>8, <1>9, <1>10 DEF Next

LEMMA DeletionIsFinalStep ==
    ASSUME TypeOK, TypeOK', DeletionIsFinal, [Next]_vars
    PROVE  DeletionIsFinal'
<1> USE DEF DeletionIsFinal
<1>1. \A n \in Nodes : /\ nodes[n] \in NodeObject /\ nodes'[n] \in NodeObject
                       /\ ncache[n] \in NodeObject
  BY DEF TypeOK
<1>2. HeldIsDeparting'
  BY <1>1, NodeStep DEF HeldIsDeparting, NodeObject
<1>3. /\ \A n \in Nodes : ncache'[n].uid <= nodes'[n].uid
      /\ CopyIsDeparting'
      /\ CopyIsHeld'
  <2> SUFFICES ASSUME NEW n \in Nodes
               PROVE  /\ ncache'[n].uid <= nodes'[n].uid
                      /\ ncache'[n].phase = "Terminating" /\ ncache'[n].uid = nodes'[n].uid
                           => nodes'[n].phase # "Live" /\ (nodes'[n].held => ncache'[n].held)
    BY DEF CopyIsDeparting, CopyIsHeld
  <2>1. CASE ncache'[n] = nodes'[n]
    BY <1>1, <2>1 DEF NodeObject
  <2>2. CASE ncache'[n] = ncache[n]
    BY <1>1, <2>2, NodeStep DEF UidsGrow, CopyIsDeparting, CopyIsHeld, NodeObject
  <2>3. QED
    BY <2>1, <2>2, CopyStep
<1>4. ASSUME ~At("idle"), call'.node = call.node, call'.uid = call.uid, call'.held = call.held
      PROVE  /\ call'.uid <= nodes'[call'.node].uid
             /\ CallIsDeparting'
             /\ CallIsHeld'
  <2>1. call.node \in Nodes /\ call.uid \in Nat
    BY <1>4, Frame DEF Call
  <2>2. QED
    BY <1>1, <1>4, <2>1, NodeStep DEF UidsGrow, CallIsDeparting, CallIsHeld, NodeObject
<1>5. CASE call' = Idle
  BY <1>2, <1>3, <1>5 DEF UidsGrow, CallIsDeparting, CallIsHeld, CallIsTold, At, Idle
<1>6. CASE SameCall
  BY <1>2, <1>3, <1>4, <1>6 DEF SameCall, UidsGrow, CallIsTold, At
<1>7. CASE call' = call
  <2>1. CASE At("idle")
    BY <1>2, <1>3, <1>7, <2>1 DEF UidsGrow, CallIsDeparting, CallIsHeld, CallIsTold, At
  <2>2. CASE ~At("idle")
    BY <1>2, <1>3, <1>4, <1>7, <2>2 DEF UidsGrow, CallIsTold, At
  <2>3. QED
    BY <2>1, <2>2
<1>8. ASSUME NEW n \in Nodes, reconcileNodeDeletion(n)
      PROVE  DeletionIsFinal'
  <2>1. /\ call'.node = n /\ call'.uid = ncache[n].uid /\ call'.held = ncache[n].held
        /\ call'.addrs = cache.addrs /\ call'.pc = IF IsCentral(n) THEN "nb" ELSE "chassis"
        /\ ncache[n].phase = "Terminating" /\ nodes' = nodes
    BY <1>8 DEF reconcileNodeDeletion
  <2>2. call'.uid <= nodes'[call'.node].uid /\ CallIsDeparting' /\ CallIsHeld'
    BY <2>1 DEF UidsGrow, CallIsDeparting, CallIsHeld, CopyIsDeparting, CopyIsHeld
  <2>3. CallIsTold'
    BY <2>1 DEF CallIsTold, At, IsCentral
  <2>4. QED
    BY <1>2, <1>3, <2>2, <2>3 DEF UidsGrow
<1>9. QED
  BY <1>5, <1>6, <1>7, <1>8, CallStep

LEMMA DeletionIsFinalInvariant == Spec => []DeletionIsFinal
<1>1. Init => DeletionIsFinal
  BY DEF Init, DeletionIsFinal, UidsGrow, CopyIsDeparting, CallIsDeparting, HeldIsDeparting,
     CopyIsHeld, CallIsHeld, CallIsTold, At, Idle, NewNode
<1>2. TypeOK /\ TypeOK' /\ DeletionIsFinal /\ [Next]_vars => DeletionIsFinal'
  BY DeletionIsFinalStep
<1>3. QED
  BY <1>1, <1>2, TypeCorrect, PTL DEF Spec

----------------------------------------------------------------------------
(* The members of the databases.                                           *)

(* The one step that takes a server out of a database. *)
LEMMA OnlyCleanupRemoves ==
    ASSUME TypeOK, [Next]_vars, NEW db \in DBs, NEW m \in members[db] \ members'[db]
    PROVE  cleanup("nb", "sb") \/ cleanup("sb", "address")
<1> USE DEF ovn, copies
<1>1. ASSUME Controller, ~reconcileOVNCentralState
      PROVE  members' = members
  BY <1>1 DEF Controller, Start, NothingToDo, AddFinalizer, reconcileNodeDeletion,
     Continue, PatchAddresses, reconcileOVSOVNState, RemoveFinalizer, DeliverNode,
     Resync, Fail, FailedCall, Restart
<1>2. ASSUME ConfigurationController
      PROVE  members' = members
  BY <1>2 DEF ConfigurationController, findMasterNodes, PatchStatus, FailedPass,
     DeliverConfig, ResyncConfig, nodeVars
<1>3. ASSUME Cluster
      PROVE  m \in members'[db]
  <2>1. ASSUME NEW d \in DBs, NEW n \in Nodes, JoinDatabase(d, n)
        PROVE  m \in members'[db]
    BY <2>1 DEF JoinDatabase, TypeOK
  <2>2. CASE members' = members
    BY <2>2
  <2>3. QED
    BY <1>3, <2>1, <2>2 DEF Cluster, DeleteNode, LetGo, RegisterNode, LoseLeader,
       ElectLeader, DeleteConfig, ConfigGone
<1>4. CASE UNCHANGED vars
  BY <1>4 DEF vars, nodeVars
<1>5. QED
  BY <1>1, <1>2, <1>3, <1>4 DEF Next, reconcileOVNCentralState

(* A script removes one server: the node's, or a lookalike's in its stead. *)
LEMMA KickEffect ==
    ASSUME TypeOK, NEW db \in DBs, Kick(db), members' # members
    PROVE  \E m \in members[db] :
             /\ members' = [members EXCEPT ![db] = @ \ {m}]
             /\ \/ m = call.node
                \/ /\ m # call.node
                   /\ <<call.node, m>> \in Lookalikes
                   /\ call.node \notin members[db]
<1>1. PICK m \in Nodes : Selected(db) = {m} /\ members' = [members EXCEPT ![db] = @ \ {m}]
  BY DEF Kick
<1>2. m \in members[db] /\ (m = call.node \/ <<call.node, m>> \in Lookalikes)
  BY <1>1 DEF Selected
<1>3. call.node \in members[db] => m = call.node
  BY <1>1 DEF Selected
<1>4. QED
  BY <1>1, <1>2, <1>3

(***************************************************************************)
(* No deletion of one node costs another its place in a database           *)
(* (CleanupNBDB, CleanupSBDB), for any addresses, however old the copies   *)
(* are and whenever machines come back, but for the cases that             *)
(* OnlyTheDeparted names: a server that looks alike when the node itself   *)
(* has no entry, and a machine that has taken the name since.              *)
(***************************************************************************)
THEOREM OnlyTheDepartedAreRemoved == Spec => OnlyTheDeparted
<1>1. TypeOK /\ DeletionIsFinal /\ [Next]_vars =>
        [\A db \in DBs : \A m \in members[db] \ members'[db] :
           \/ WorksOn(m) /\ (Current(m) => nodes[m].phase # "Live")
           \/ /\ ~WorksOn(m)
              /\ <<call.node, m>> \in Lookalikes
              /\ call.node \notin members[db]]_vars
  <2> SUFFICES ASSUME TypeOK, DeletionIsFinal, [Next]_vars, NEW db \in DBs,
                      NEW m \in members[db] \ members'[db]
               PROVE  \/ WorksOn(m) /\ (Current(m) => nodes[m].phase # "Live")
                      \/ /\ ~WorksOn(m)
                         /\ <<call.node, m>> \in Lookalikes
                         /\ call.node \notin members[db]
    OBVIOUS
  <2>1. PICK d \in DBs, next \in {"sb", "address"} : cleanup(d, next)
    BY OnlyCleanupRemoves DEF DBs
  <2>2. ~At("idle") /\ Kick(d) /\ members' # members
    BY <2>1 DEF cleanup, At, DBs
  <2>3. PICK k \in members[d] :
          /\ members' = [members EXCEPT ![d] = @ \ {k}]
          /\ \/ k = call.node
             \/ /\ k # call.node
                /\ <<call.node, k>> \in Lookalikes
                /\ call.node \notin members[d]
    BY <2>2, KickEffect
  <2>4. d = db /\ k = m
    BY <2>3 DEF TypeOK
  <2>5. CASE m = call.node
    BY <2>2, <2>5 DEF WorksOn, Current, DeletionIsFinal, CallIsDeparting
  <2>6. QED
    BY <2>3, <2>4, <2>5 DEF WorksOn
<1>2. QED
  BY <1>1, TypeCorrect, DeletionIsFinalInvariant, PTL DEF Spec, OnlyTheDeparted

(* A step that ends the call, or touches neither it nor the members. *)
LEMMA QuietKicked ==
    ASSUME Kicked, call' = Idle \/ (call' = call /\ members' = members)
    PROVE  Kicked'
BY DEF Kicked, Cleaned, At, Idle

(* A call that goes on keeps what its scripts have done. *)
LEMMA GotoKicked ==
    ASSUME TypeOK, Kicked, ~At("idle"), ~At("nb"), ~At("sb"), members' = members,
           NEW pc, Goto(pc)
    PROVE  Kicked'
BY GotoKeeps DEF Kicked, Cleaned, At

(* Every script leaves behind what the next ones rely on. *)
LEMMA CleanupKicked ==
    ASSUME TypeOK, Kicked, NEW db \in DBs, Kick(db), ~At("idle"),
           NEW next \in {"sb", "address"}, GoOn(db, next)
    PROVE  /\ Cleaned(db)'
           /\ \A d \in DBs : Cleaned(d) => Cleaned(d)'
<1>1. /\ call'.node = call.node
      /\ call'.spoilt = IF Missed(db) THEN call.spoilt \cup {db} ELSE call.spoilt
  BY GoOnKeeps
<1>2. \A d \in DBs : members'[d] \subseteq members[d]
  BY DEF Kick, TypeOK
<1>3. ASSUME NEW d \in DBs, Cleaned(d)
      PROVE  Cleaned(d)'
  BY <1>1, <1>2, <1>3 DEF Cleaned
<1>4. Cleaned(db)'
  <2>1. CASE members' = members
    <3>1. CASE call.node \in members[db]
      <4>1. Selected(db) # {}
        BY <3>1 DEF Selected
      <4>2. db \in call'.spoilt
        BY <1>1, <2>1, <4>1 DEF Missed
      <4>3. QED
        BY <4>2 DEF Cleaned
    <3>2. CASE call.node \notin members[db]
      BY <1>1, <2>1, <3>2 DEF Cleaned
    <3>3. QED
      BY <3>1, <3>2
  <2>2. CASE members' # members
    <3>1. call.node \notin members'[db]
      <4>1. PICK m \in members[db] :
              /\ members' = [members EXCEPT ![db] = @ \ {m}]
              /\ m = call.node \/ call.node \notin members[db]
        BY <2>2, KickEffect
      <4>2. members'[db] = members[db] \ {m}
        BY <4>1 DEF TypeOK
      <4>3. QED
        BY <4>1, <4>2
    <3>2. QED
      BY <1>1, <3>1 DEF Cleaned
  <2>3. QED
    BY <2>1, <2>2
<1>5. QED
  BY <1>3, <1>4

LEMMA KickedStep ==
    ASSUME TypeOK, Kicked, [Next]_vars
    PROVE  Kicked'
<1> USE DEF ovn, copies
<1>1. ASSUME NEW n \in Nodes, reconcileNodeDeletion(n)
      PROVE  Kicked'
  <2>1. /\ call'.node = n /\ call'.addrs = cache.addrs
        /\ call'.pc = IF IsCentral(n) THEN "nb" ELSE "chassis"
    BY <1>1 DEF reconcileNodeDeletion
  <2>2. QED
    BY <2>1 DEF IsCentral, Kicked, At
<1>2. ASSUME NEW n \in Nodes,
             NothingToDo(n) \/ AddFinalizer(n) \/ DeliverNode(n) \/ Resync(n)
      PROVE  Kicked'
  BY <1>2, QuietKicked DEF NothingToDo, AddFinalizer, DeliverNode, Resync
<1>3. CASE cleanup("nb", "sb")
  <2>1. ~At("idle")
    BY <1>3 DEF cleanup, At
  <2>2. CASE Kick("nb") /\ GoOn("nb", "sb")
    <3>1. Cleaned("nb")' /\ call'.pc = "sb"
      BY <2>1, <2>2, CleanupKicked, GoOnKeeps DEF DBs
    <3>2. QED
      BY <3>1 DEF Kicked, At
  <2>3. CASE Requeue
    BY <2>3, QuietKicked DEF Requeue
  <2>4. QED
    BY <1>3, <2>2, <2>3 DEF cleanup
<1>4. CASE cleanup("sb", "address")
  <2>1. ~At("idle") /\ At("sb")
    BY <1>4 DEF cleanup, At
  <2>2. CASE Kick("sb") /\ GoOn("sb", "address")
    <3>1. Cleaned("sb")' /\ (Cleaned("nb") => Cleaned("nb")')
      BY <2>1, <2>2, CleanupKicked DEF DBs
    <3>2. call'.node = call.node /\ call'.addrs = call.addrs
      BY <2>1, <2>2, GoOnKeeps DEF DBs
    <3>3. call.node \in call.addrs => Cleaned("nb")
      BY <2>1 DEF Kicked, At
    <3>4. QED
      BY <3>1, <3>2, <3>3 DEF Kicked
  <2>3. CASE Requeue
    BY <2>3, QuietKicked DEF Requeue
  <2>4. QED
    BY <1>4, <2>2, <2>3 DEF cleanup
<1>5. CASE PatchAddresses \/ reconcileOVSOVNState
  <2>1. ~At("idle") /\ ~At("nb") /\ ~At("sb") /\ members' = members
    BY <1>5 DEF PatchAddresses, reconcileOVSOVNState, At
  <2>2. CASE call' = Idle
    BY <2>2, QuietKicked
  <2>3. CASE Goto("chassis") \/ Goto("release")
    BY <2>1, <2>3, GotoKicked
  <2>4. QED
    BY <1>5, <2>2, <2>3 DEF PatchAddresses, reconcileOVSOVNState, Requeue, Return
<1>6. CASE RemoveFinalizer \/ Fail \/ Restart
  BY <1>6, QuietKicked DEF RemoveFinalizer, Fail, FailedCall, Restart, Return, Requeue
<1>7. CASE ConfigurationController
  BY <1>7, QuietKicked DEF ConfigurationController, findMasterNodes, PatchStatus,
     FailedPass, DeliverConfig, ResyncConfig, nodeVars
<1>8. CASE Cluster
  <2>1. ASSUME NEW db \in DBs, NEW n \in Nodes, JoinDatabase(db, n)
        PROVE  Kicked'
    <3>1. members' = [members EXCEPT ![db] = @ \cup {n}]
      BY <2>1 DEF JoinDatabase
    <3>2. CASE At("idle")
      <4>1. call' = call
        BY <2>1, <3>2 DEF JoinDatabase, WorksOn
      <4>2. QED
        BY <3>2, <4>1 DEF Kicked, At
    <3>3. CASE ~At("idle") /\ ~WorksOn(n)
      <4>1. call' = call /\ call.node # n
        BY <2>1, <3>3 DEF JoinDatabase, WorksOn
      <4>2. ASSUME NEW d \in DBs, Cleaned(d)
            PROVE  Cleaned(d)'
        BY <3>1, <4>1, <4>2 DEF Cleaned, TypeOK
      <4>3. QED
        BY <4>1, <4>2 DEF Kicked, At, DBs
    <3>4. CASE WorksOn(n)
      <4>1. call \in Call /\ call' = [call EXCEPT !.spoilt = @ \cup {db}] /\ ~At("idle")
        BY <2>1, <3>4, Frame DEF JoinDatabase, WorksOn
      <4>2. /\ call'.pc = call.pc /\ call'.node = call.node /\ call'.addrs = call.addrs
            /\ call'.spoilt = call.spoilt \cup {db}
        BY <4>1 DEF Call
      <4>3. ASSUME NEW d \in DBs, Cleaned(d)
            PROVE  Cleaned(d)'
        BY <3>1, <4>2, <4>3 DEF Cleaned, TypeOK
      <4>4. QED
        BY <4>1, <4>2, <4>3 DEF Kicked, At, DBs
    <3>5. QED
      BY <3>2, <3>3, <3>4
  <2>2. CASE call' = call /\ members' = members
    BY <2>2, QuietKicked
  <2>3. QED
    BY <1>8, <2>1, <2>2 DEF Cluster, DeleteNode, LetGo, RegisterNode, LoseLeader,
       ElectLeader, DeleteConfig, ConfigGone
<1>9. CASE UNCHANGED vars
  BY <1>9, QuietKicked DEF vars, nodeVars
<1>10. QED
  BY <1>1, <1>2, <1>3, <1>4, <1>5, <1>6, <1>7, <1>8, <1>9
  DEF Next, Controller, Start, Continue, reconcileOVNCentralState

LEMMA KickedInvariant == Spec => []Kicked
<1>1. Init => Kicked
  BY DEF Init, Kicked, At, Idle
<1>2. TypeOK /\ Kicked /\ [Next]_vars => Kicked'
  BY KickedStep
<1>3. QED
  BY <1>1, <1>2, TypeCorrect, PTL DEF Spec

(* The one step that takes the operator's finalizer off a node. *)
LEMMA OnlyRemoveFinalizerReleases ==
    ASSUME TypeOK, [Next]_vars, NEW n \in Nodes, Released(n)
    PROVE  At("release") /\ call.node = n
<1> USE DEF ovn, copies
<1>1. CASE RemoveFinalizer
  <2>1. call.node \in Nodes
    BY <1>1, Frame DEF RemoveFinalizer, At, Call
  <2>2. \A m \in Nodes \ {call.node} : nodes'[m] = nodes[m]
    BY <1>1, <2>1 DEF RemoveFinalizer, TypeOK
  <2>3. QED
    BY <1>1, <2>2 DEF RemoveFinalizer, Released
<1>2. ASSUME NEW m \in Nodes, AddFinalizer(m)
      PROVE  FALSE
  BY <1>2 DEF AddFinalizer, Released, TypeOK, NodeObject
<1>3. ASSUME NEW m \in Nodes, NEW held \in BOOLEAN, DeleteNode(m, held)
      PROVE  FALSE
  BY <1>3 DEF DeleteNode, Released, TypeOK, NodeObject
<1>4. ASSUME NEW m \in Nodes, LetGo(m)
      PROVE  FALSE
  BY <1>4 DEF LetGo, Released, TypeOK, NodeObject
<1>5. ASSUME NEW m \in Nodes, RegisterNode(m)
      PROVE  FALSE
  BY <1>5 DEF RegisterNode, Released, TypeOK
<1>6. CASE nodes' = nodes
  BY <1>6 DEF Released
<1>7. ASSUME NEW m \in Nodes, Start(m), ~AddFinalizer(m)
      PROVE  nodes' = nodes
  BY <1>7 DEF Start, NothingToDo, reconcileNodeDeletion
<1>8. ASSUME Continue, ~RemoveFinalizer
      PROVE  nodes' = nodes
  BY <1>8 DEF Continue, reconcileOVNCentralState, cleanup, PatchAddresses,
     reconcileOVSOVNState
<1>9. ASSUME Controller
      PROVE  \/ RemoveFinalizer
             \/ nodes' = nodes
             \/ \E m \in Nodes : AddFinalizer(m)
  BY <1>7, <1>8, <1>9 DEF Controller, DeliverNode, Resync, Fail, FailedCall, Restart
<1>10. ASSUME ConfigurationController
       PROVE  nodes' = nodes
  BY <1>10 DEF ConfigurationController, findMasterNodes, PatchStatus, FailedPass,
     DeliverConfig, ResyncConfig, nodeVars
<1>11. ASSUME Cluster
       PROVE  nodes' = nodes
  BY <1>3, <1>4, <1>5, <1>11
  DEF Cluster, JoinDatabase, LoseLeader, ElectLeader, DeleteConfig, ConfigGone
<1>12. CASE UNCHANGED vars
  BY <1>6, <1>12 DEF vars, nodeVars
<1>13. QED
  BY <1>1, <1>2, <1>6, <1>9, <1>10, <1>11, <1>12 DEF Next

(***************************************************************************)
(* A node is let go by its own cleanup only, and after both databases have *)
(* lost a server that was known, unless a kick failed unseen or the server *)
(* joined again (reconcileNodeDeletion): in every interleaving with leader *)
(* changes, failed calls, restarts, machines that come back and the        *)
(* configuration controller.                                               *)
(***************************************************************************)
THEOREM MembersLeaveFirst == Spec => MembersLeave
<1>1. TypeOK /\ Kicked /\ [Next]_vars =>
        [\A n \in Nodes : Released(n) =>
           /\ WorksOn(n)
           /\ n \in call.addrs =>
                \A db \in DBs : n \notin members[db] \/ db \in call.spoilt]_vars
  <2> SUFFICES ASSUME TypeOK, Kicked, [Next]_vars, NEW n \in Nodes, Released(n)
               PROVE  /\ WorksOn(n)
                      /\ n \in call.addrs =>
                           \A db \in DBs : n \notin members[db] \/ db \in call.spoilt
    OBVIOUS
  <2>1. At("release") /\ call.node = n
    BY OnlyRemoveFinalizerReleases
  <2>2. QED
    BY <2>1 DEF Kicked, Cleaned, WorksOn, At, DBs
<1>2. QED
  BY <1>1, TypeCorrect, KickedInvariant, PTL DEF Spec, MembersLeave

----------------------------------------------------------------------------
(* NodeMembership.                                                         *)

(* The stages of a node. *)
LEMMA Stages ==
    ASSUME NEW o \in NodeObject
    PROVE  /\ StageOf(o) = "absent" <=> o.phase = "Absent"
           /\ StageOf(o) = "new" <=> o.phase = "Live" /\ ~o.fin
           /\ StageOf(o) = "guarded" <=> o.phase = "Live" /\ o.fin
           /\ StageOf(o) = "guardedLeaving" <=> o.phase = "Terminating" /\ o.fin
           /\ StageOf(o) = "leaving" <=> o.phase = "Terminating" /\ ~o.fin
BY DEF NodeObject, StageOf

(* Stage changes where nodes do. *)
LEMMA StageChange ==
    ASSUME NEW n \in Nodes, NEW o, nodes' = [nodes EXCEPT ![n] = o], TypeOK
    PROVE  /\ Stage' = [Stage EXCEPT ![n] = StageOf(o)]
           /\ Stage[n] = StageOf(nodes[n])
           /\ nodes'[n] = o
           /\ \A m \in Nodes \ {n} : nodes'[m] = nodes[m]
<1>1. nodes'[n] = o /\ \A m \in Nodes \ {n} : nodes'[m] = nodes[m]
  BY DEF TypeOK
<1>2. Stage' = [m \in Nodes |-> StageOf(nodes'[m])] /\ Stage = [m \in Nodes |-> StageOf(nodes[m])]
  BY DEF Stage
<1>3. \A m \in Nodes : Stage'[m] = IF m = n THEN StageOf(o) ELSE Stage[m]
  BY <1>1, <1>2
<1>4. QED
  BY <1>1, <1>2, <1>3

(* What a call leaves alone, as NodeMembership sees it. *)
LEMMA QuietCleanup ==
    ASSUME call' = call, At("idle") \/ nodes'[call.node].uid = nodes[call.node].uid
    PROVE  UNCHANGED <<Cleaning, Told, Same, Spoilt>>
BY DEF Cleaning, Told, Same, Spoilt, Current, WorksOn, At

(* The end of a call. *)
LEMMA EndedCleanup ==
    ASSUME call' = Idle
    PROVE  Cleaning' = {} /\ Told' = FALSE /\ Same' = FALSE /\ Spoilt' = {}
BY DEF Cleaning, Told, Same, Spoilt, At, Idle

(* What NodeMembership does not see, and the end of a call. *)
LEMMA UnseenStep ==
    ASSUME UNCHANGED <<nodes, members>>, UNCHANGED call \/ call' = Idle
    PROVE  [Membership!Next]_(Membership!vars)
<1>1. UNCHANGED <<Stage, Kept>>
  BY DEF Stage, Kept
<1>2. CASE UNCHANGED call
  <2>1. UNCHANGED <<Cleaning, Told, Same, Spoilt>>
    BY <1>2, QuietCleanup
  <2>2. QED
    BY <1>1, <2>1 DEF Membership!vars, Membership!cleanupVars
<1>3. CASE call' = Idle
  <2>1. Membership!GiveUp
    BY <1>1, <1>3, EndedCleanup DEF Membership!GiveUp, Membership!EndCleanup
  <2>2. QED
    BY <2>1 DEF Membership!Next
<1>4. QED
  BY <1>2, <1>3

(* A call that goes on is the same cleanup. *)
LEMMA GotoUnseen ==
    ASSUME TypeOK, ~At("idle"), NEW pc \in {"nb", "sb", "address", "chassis", "release"},
           Goto(pc), UNCHANGED nodes
    PROVE  UNCHANGED <<Cleaning, Told, Same, Spoilt>>
BY GotoKeeps DEF Cleaning, Told, Same, Spoilt, Current, WorksOn, At

(* The first step of a call. *)
LEMMA StartMembership ==
    ASSUME TypeOK, DeletionIsFinal, NEW n \in Nodes, Start(n)
    PROVE  [Membership!Next]_(Membership!vars)
<1> USE DEF copies, ovn
<1>1. CASE NothingToDo(n)
  BY <1>1, UnseenStep DEF NothingToDo
<1>2. CASE AddFinalizer(n)
  <2>1. UNCHANGED <<call, members>>
    BY <1>2 DEF AddFinalizer
  <2>2. UNCHANGED <<Cleaning, Told, Same, Spoilt>>
    BY <1>2, <2>1, QuietCleanup DEF AddFinalizer, Dequeue
  <2>3. ASSUME nodes[n].phase = "Live", nodes' = [nodes EXCEPT ![n].fin = TRUE]
        PROVE  [Membership!Next]_(Membership!vars)
    <3> DEFINE o == [nodes[n] EXCEPT !.fin = TRUE]
    <3>1. nodes[n] \in NodeObject /\ o \in NodeObject
      BY NodeTypes DEF TypeOK
    <3>2. o.phase = "Live" /\ o.fin /\ o.held = nodes[n].held
      BY <2>3, <3>1 DEF NodeObject
    <3>3. nodes' = [nodes EXCEPT ![n] = o]
      BY <2>3
    <3> HIDE DEF o
    <3>4. Stage' = [Stage EXCEPT ![n] = "guarded"] /\ Stage[n] \in {"new", "guarded"}
      <4>1. StageOf(o) = "guarded"
        BY <3>1, <3>2, Stages
      <4>2. StageOf(nodes[n]) \in {"new", "guarded"}
        BY <2>3, <3>1, Stages DEF NodeObject
      <4>3. QED
        BY <3>3, <4>1, <4>2, StageChange
    <3>5. Kept' = Kept
      BY <3>2, <3>3, StageChange DEF Kept
    <3>6. CASE Stage[n] = "new"
      BY <2>1, <2>2, <3>4, <3>5, <3>6
      DEF Membership!Guard, Membership!Next, Membership!cleanupVars
    <3>7. CASE Stage[n] = "guarded"
      <4>1. Stage' = Stage
        BY <3>4, <3>7 DEF Stage
      <4>2. QED
        BY <2>1, <2>2, <3>5, <4>1 DEF Membership!vars, Membership!cleanupVars
    <3>8. QED
      BY <3>4, <3>6, <3>7
  <2>4. CASE UNCHANGED nodes
    BY <2>1, <2>4, UnseenStep
  <2>5. QED
    BY <1>2, <2>3, <2>4 DEF AddFinalizer
<1>3. CASE reconcileNodeDeletion(n)
  <2>1. /\ Cleaning = {} /\ Cleaning' = {n} /\ Told' \in BOOLEAN
        /\ Same' \in BOOLEAN /\ Spoilt' = {}
    BY <1>3 DEF reconcileNodeDeletion, Dequeue, Cleaning, Told, Same, Current, WorksOn,
       Spoilt, At
  <2>2. UNCHANGED <<Stage, Kept, members>>
    BY <1>3 DEF reconcileNodeDeletion, Stage, Kept
  <2>3. Same' => ~Membership!InUse(n)
    <3>1. Same' => ncache[n].uid = nodes[n].uid
      BY <1>3 DEF reconcileNodeDeletion, Same, Current, WorksOn
    <3>2. nodes[n] \in NodeObject /\ (Same' => nodes[n].phase # "Live")
      BY <1>3, <3>1 DEF reconcileNodeDeletion, DeletionIsFinal, CopyIsDeparting, TypeOK
    <3>3. QED
      BY <3>2, Stages DEF Membership!InUse, Stage
  <2>4. QED
    BY <2>1, <2>2, <2>3 DEF Membership!BeginCleanup, Membership!Next
<1>4. QED
  BY <1>1, <1>2, <1>3 DEF Start

(* The scripts evict the node that is cleaned up, or one that looks alike. *)
LEMMA CleanupMembership ==
    ASSUME TypeOK, DeletionIsFinal, NEW db \in DBs, NEW next \in {"sb", "address"},
           cleanup(db, next)
    PROVE  [Membership!Next]_(Membership!vars)
<1>1. ~At("idle") /\ call.node \in call.addrs /\ UNCHANGED nodes
  BY DEF cleanup, At, DBs, DeletionIsFinal, CallIsTold
<1>2. CASE Requeue /\ UNCHANGED members
  BY <1>1, <1>2, UnseenStep DEF Requeue
<1>3. CASE Kick(db) /\ GoOn(db, next)
  <2>1. /\ call'.pc = next
        /\ call'.node = call.node /\ call'.uid = call.uid /\ call'.addrs = call.addrs
        /\ call'.spoilt = IF Missed(db) THEN call.spoilt \cup {db} ELSE call.spoilt
    BY <1>1, <1>3, GoOnKeeps
  <2>2. UNCHANGED <<Stage, Kept, Cleaning, Told, Same>>
    BY <1>1, <2>1 DEF Stage, Kept, Cleaning, Told, Same, Current, WorksOn, At
  <2>3. Cleaning = {call.node} /\ Told /\ call.node \in Nodes
    BY <1>1, Frame DEF Cleaning, Told, Call
  <2>4. Spoilt' = IF Missed(db) THEN Spoilt \cup {db} ELSE Spoilt
    BY <1>1, <2>1 DEF Spoilt, At
  <2>5. CASE members' = members
    <3>1. CASE Spoilt' = Spoilt
      BY <2>2, <2>5, <3>1 DEF Membership!vars, Membership!cleanupVars
    <3>2. CASE Spoilt' = Spoilt \cup {db}
      <4>1. Membership!Spoil(db)
        BY <2>2, <2>3, <2>5, <3>2 DEF Membership!Spoil
      <4>2. QED
        BY <4>1 DEF Membership!Next
    <3>3. QED
      BY <2>4, <3>1, <3>2
  <2>6. CASE members' # members
    <3>1. Spoilt' = Spoilt
      BY <2>4, <2>6 DEF Missed
    <3>2. PICK m \in members[db] :
            /\ members' = [members EXCEPT ![db] = @ \ {m}]
            /\ \/ m = call.node
               \/ /\ m # call.node
                  /\ <<call.node, m>> \in Lookalikes
                  /\ call.node \notin members[db]
      BY <1>3, <2>6, KickEffect
    <3>3. CASE m = call.node
      <4>1. Membership!Evict(db)
        BY <2>2, <2>3, <3>1, <3>2, <3>3 DEF Membership!Evict, Membership!cleanupVars
      <4>2. QED
        BY <4>1 DEF Membership!Next
    <3>4. CASE m # call.node
      <4>1. m \in Nodes
        BY <3>2 DEF TypeOK
      <4>2. Membership!EvictLookalike(db, call.node, m)
        BY <2>2, <2>3, <3>1, <3>2, <3>4
        DEF Membership!EvictLookalike, Membership!cleanupVars
      <4>3. QED
        BY <2>3, <4>1, <4>2 DEF Membership!Next
    <3>5. QED
      BY <3>3, <3>4
  <2>7. QED
    BY <2>5, <2>6
<1>4. QED
  BY <1>2, <1>3 DEF cleanup

(* The node is released, when both databases have lost it. *)
LEMMA ReleaseMembership ==
    ASSUME TypeOK, DeletionIsFinal, Kicked, RemoveFinalizer
    PROVE  [Membership!Next]_(Membership!vars)
<1> DEFINE n == call.node
           off == [nodes[n] EXCEPT !.fin = FALSE]
           gone == Removed(nodes[n])
<1>1. ~At("idle") /\ n \in Nodes /\ call' = Idle /\ UNCHANGED members
  BY Frame DEF RemoveFinalizer, At, Call, Return, Requeue, ovn
<1>2. nodes[n] \in NodeObject
  BY <1>1 DEF TypeOK
<1>3. /\ off \in NodeObject /\ gone \in NodeObject
      /\ off.phase = nodes[n].phase /\ off.held = nodes[n].held /\ ~off.fin
      /\ gone.phase = "Absent" /\ ~gone.held
  BY <1>2, NodeTypes DEF NodeObject, Removed
<1>4. CASE UNCHANGED nodes
  BY <1>1, <1>4, UnseenStep
<1>5. ASSUME ~UNCHANGED nodes
      PROVE  /\ nodes[n].phase # "Absent"
             /\ nodes[n].phase # "Live" /\ call.held => nodes[n].held
             /\ nodes' = [nodes EXCEPT ![n] =
                            IF nodes[n].phase = "Live" \/ call.held THEN off ELSE gone]
  BY <1>5 DEF RemoveFinalizer
<1> HIDE DEF off, gone
<1>6. ASSUME ~UNCHANGED nodes, Same
      PROVE  [Membership!Next]_(Membership!vars)
  <2> DEFINE o == IF call.held THEN off ELSE gone
  <2>1. nodes[n].phase # "Live" /\ (nodes[n].held => call.held)
    BY <1>6 DEF Same, Current, DeletionIsFinal, CallIsDeparting, CallIsHeld
  <2>2. /\ nodes[n].phase = "Terminating"
        /\ call.held => nodes[n].held
        /\ nodes' = [nodes EXCEPT ![n] = o]
    BY <1>2, <1>5, <1>6, <2>1 DEF NodeObject
  <2>3. nodes[n].fin
    <3>1. CASE call.held
      <4>1. nodes[n].fin = FALSE => off = nodes[n]
        BY <1>2 DEF NodeObject, off
      <4>2. nodes[n].fin # FALSE
        BY <1>1, <1>6, <2>2, <3>1, <4>1 DEF TypeOK
      <4>3. QED
        BY <1>2, <4>2 DEF NodeObject
    <3>2. CASE ~call.held
      BY <1>1, <2>1, <2>2, <3>2 DEF TypeOK
    <3>3. QED
      BY <3>1, <3>2
  <2>4. /\ o \in NodeObject
        /\ o.held = nodes[n].held
        /\ nodes[n].held => o.phase = "Terminating" /\ ~o.fin
        /\ ~nodes[n].held => o.phase = "Absent"
    BY <1>2, <1>3, <2>1, <2>2 DEF NodeObject
  <2> HIDE DEF o
  <2>5. Kept' = Kept
    BY <1>1, <2>2, <2>4, StageChange DEF Kept
  <2>6. Stage[n] = "guardedLeaving" /\ Stage' = [Stage EXCEPT ![n] = Membership!Unguarded(n, Kept)]
    <3>1. Stage[n] = "guardedLeaving"
      BY <1>1, <1>2, <2>2, <2>3, Stages DEF Stage
    <3>2. StageOf(o) = Membership!Unguarded(n, Kept)
      BY <1>1, <2>4, Stages DEF Membership!Unguarded, Kept
    <3>3. Stage' = [Stage EXCEPT ![n] = StageOf(o)]
      BY <1>1, <2>2, StageChange
    <3>4. QED
      BY <3>1, <3>2, <3>3
  <2>7. n \in Cleaning /\ (Told => \A db \in DBs : n \notin members[db] \/ db \in Spoilt)
    BY <1>1 DEF Cleaning, Told, Spoilt, Kicked, Cleaned, At, DBs, RemoveFinalizer
  <2>8. Membership!Release(n)
    BY <1>1, <1>6, <2>5, <2>6, <2>7, EndedCleanup
    DEF Membership!Release, Membership!EndCleanup
  <2>9. QED
    BY <1>1, <2>8 DEF Membership!Next
<1>7. ASSUME ~UNCHANGED nodes, ~Same
      PROVE  [Membership!Next]_(Membership!vars)
  <2>1. n \in Cleaning
    BY <1>1 DEF Cleaning
  <2>2. CASE nodes[n].phase = "Live"
    <3>1. nodes' = [nodes EXCEPT ![n] = off]
      BY <1>5, <1>7, <2>2
    <3>2. Kept' = Kept
      BY <1>1, <1>3, <3>1, StageChange DEF Kept
    <3>3. Stage' = [Stage EXCEPT ![n] = "new"]
      <4>1. StageOf(off) = "new"
        BY <1>3, <2>2, Stages
      <4>2. QED
        BY <1>1, <3>1, <4>1, StageChange
    <3>4. Membership!InUse(n)
      BY <1>1, <1>2, <2>2, Stages DEF Membership!InUse, Stage, NodeObject
    <3>5. Membership!Mistake(n)
      BY <1>1, <1>7, <2>1, <3>2, <3>3, <3>4, EndedCleanup
      DEF Membership!Mistake, Membership!EndCleanup
    <3>6. QED
      BY <1>1, <3>5 DEF Membership!Next
  <2>3. CASE nodes[n].phase # "Live"
    <3> DEFINE o == IF call.held THEN off ELSE gone
    <3>1. /\ nodes[n].phase = "Terminating"
          /\ call.held => nodes[n].held
          /\ nodes' = [nodes EXCEPT ![n] = o]
      BY <1>2, <1>5, <1>7, <2>3 DEF NodeObject
    <3>2. /\ o \in NodeObject
          /\ call.held => o.held /\ o.phase = "Terminating" /\ ~o.fin
          /\ ~call.held => ~o.held /\ o.phase = "Absent"
      BY <1>3, <3>1
    <3> HIDE DEF o
    <3>3. nodes'[n] = o /\ \A m \in Nodes \ {n} : nodes'[m] = nodes[m]
      BY <1>1, <3>1, StageChange
    <3>4. Kept' = (IF call.held THEN Kept ELSE Kept \ {n}) /\ (n \in Kept' <=> call.held)
      <4>1. Kept' = { m \in Nodes : nodes'[m].held } /\ Kept = { m \in Nodes : nodes[m].held }
        BY DEF Kept
      <4>2. n \in Kept' <=> call.held
        BY <1>1, <3>2, <3>3, <4>1
      <4>3. call.held => n \in Kept
        BY <1>1, <3>1, <4>1
      <4>4. \A m \in Nodes \ {n} : m \in Kept' <=> m \in Kept
        BY <3>3, <4>1
      <4>5. QED
        BY <4>1, <4>2, <4>3, <4>4
    <3>5. StageOf(o) = Membership!Unguarded(n, Kept')
      BY <3>2, <3>4, Stages DEF Membership!Unguarded
    <3>6. Stage' = [Stage EXCEPT ![n] = Membership!Unguarded(n, Kept')]
      BY <1>1, <3>1, <3>5, StageChange
    <3>7. ~Membership!InUse(n)
      BY <1>1, <1>2, <2>3, Stages DEF Membership!InUse, Stage
    <3>8. Kept' \in {Kept, Kept \ {n}}
      BY <3>4
    <3>9. Membership!Mistake(n)
      BY <1>1, <1>7, <2>1, <3>6, <3>7, <3>8, EndedCleanup
      DEF Membership!Mistake, Membership!EndCleanup
    <3>10. QED
      BY <1>1, <3>9 DEF Membership!Next
  <2>4. QED
    BY <2>2, <2>3
<1>8. QED
  BY <1>4, <1>6, <1>7

(* The nodes and servers of the cluster. *)
LEMMA ClusterMembership ==
    ASSUME TypeOK, TypeOK', DeletionIsFinal, Cluster
    PROVE  [Membership!Next]_(Membership!vars)
<1>1. \A n \in Nodes : nodes[n] \in NodeObject /\ Stage[n] = StageOf(nodes[n])
  BY DEF TypeOK, Stage
<1>2. ASSUME NEW n \in Nodes, NEW held \in BOOLEAN, DeleteNode(n, held)
      PROVE  [Membership!Next]_(Membership!vars)
  <2> DEFINE o == IF nodes[n].fin \/ held
                    THEN [nodes[n] EXCEPT !.phase = "Terminating", !.held = held]
                    ELSE Removed(nodes[n])
  <2>1. UNCHANGED <<members, Cleaning, Told, Same, Spoilt>>
    <3>1. nodes'[call.node].uid = nodes[call.node].uid \/ At("idle")
      <4>1. \A m \in Nodes : nodes'[m].uid = nodes[m].uid
        BY <1>1, <1>2 DEF DeleteNode, TypeOK, NodeObject, Removed
      <4>2. QED
        BY <4>1, Frame DEF Call
    <3>2. QED
      BY <1>2, <3>1, QuietCleanup DEF DeleteNode, ovn
  <2>2. nodes' = [nodes EXCEPT ![n] = o] /\ nodes[n].phase = "Live" /\ ~nodes[n].held
    BY <1>2 DEF DeleteNode, DeletionIsFinal, HeldIsDeparting
  <2>3. /\ o \in NodeObject
        /\ o.held = held
        /\ nodes[n].fin => o.phase = "Terminating" /\ o.fin
        /\ ~nodes[n].fin /\ held => o.phase = "Terminating" /\ ~o.fin
        /\ ~nodes[n].fin /\ ~held => o.phase = "Absent"
    <3>1. Removed(nodes[n]) \in NodeObject
          /\ [nodes[n] EXCEPT !.phase = "Terminating", !.held = held] \in NodeObject
      BY <1>1, NodeTypes
    <3>2. QED
      BY <1>1, <3>1 DEF NodeObject, Removed
  <2> HIDE DEF o
  <2>4. Kept' = (IF held THEN Kept \cup {n} ELSE Kept) /\ n \notin Kept
    <3>1. nodes'[n] = o /\ \A m \in Nodes \ {n} : nodes'[m] = nodes[m]
      BY <2>2, StageChange
    <3>2. Kept' = { m \in Nodes : nodes'[m].held } /\ Kept = { m \in Nodes : nodes[m].held }
      BY DEF Kept
    <3>3. QED
      BY <2>2, <2>3, <3>1, <3>2
  <2>5. Membership!InUse(n)
    BY <1>1, <2>2, Stages DEF Membership!InUse
  <2>6. StageOf(o) = IF Stage[n] = "guarded" THEN "guardedLeaving"
                                             ELSE Membership!Unguarded(n, Kept')
    BY <1>1, <2>2, <2>3, <2>4, Stages DEF Membership!Unguarded
  <2>7. Membership!Delete(n)
    <3>1. Stage' = [Stage EXCEPT ![n] = IF Stage[n] = "guarded" THEN "guardedLeaving"
                                        ELSE Membership!Unguarded(n, Kept')]
      BY <2>2, <2>6, StageChange
    <3>2. Kept' \in {Kept, Kept \cup {n}}
      BY <2>4
    <3>3. QED
      BY <2>1, <2>5, <3>1, <3>2 DEF Membership!Delete, Membership!cleanupVars
  <2>8. QED
    BY <2>7 DEF Membership!Next
<1>3. ASSUME NEW n \in Nodes, LetGo(n)
      PROVE  [Membership!Next]_(Membership!vars)
  <2> DEFINE o == IF nodes[n].fin THEN [nodes[n] EXCEPT !.held = FALSE] ELSE Removed(nodes[n])
  <2>1. UNCHANGED <<members, Cleaning, Told, Same, Spoilt>>
    <3>1. nodes'[call.node].uid = nodes[call.node].uid \/ At("idle")
      <4>1. \A m \in Nodes : nodes'[m].uid = nodes[m].uid
        BY <1>1, <1>3 DEF LetGo, TypeOK, NodeObject, Removed
      <4>2. QED
        BY <4>1, Frame DEF Call
    <3>2. QED
      BY <1>3, <3>1, QuietCleanup DEF LetGo, ovn
  <2>2. nodes' = [nodes EXCEPT ![n] = o] /\ nodes[n].phase = "Terminating" /\ nodes[n].held
    BY <1>3 DEF LetGo, DeletionIsFinal, HeldIsDeparting
  <2>3. /\ o \in NodeObject
        /\ ~o.held
        /\ nodes[n].fin => o.phase = "Terminating" /\ o.fin
        /\ ~nodes[n].fin => o.phase = "Absent"
    <3>1. Removed(nodes[n]) \in NodeObject /\ [nodes[n] EXCEPT !.held = FALSE] \in NodeObject
      BY <1>1, NodeTypes
    <3>2. QED
      BY <1>1, <2>2, <3>1 DEF NodeObject, Removed
  <2> HIDE DEF o
  <2>4. Kept' = Kept \ {n} /\ n \in Kept
    <3>1. nodes'[n] = o /\ \A m \in Nodes \ {n} : nodes'[m] = nodes[m]
      BY <2>2, StageChange
    <3>2. Kept' = { m \in Nodes : nodes'[m].held } /\ Kept = { m \in Nodes : nodes[m].held }
      BY DEF Kept
    <3>3. QED
      BY <2>2, <2>3, <3>1, <3>2
  <2>5. StageOf(o) = IF Stage[n] = "leaving" THEN "absent" ELSE Stage[n]
    BY <1>1, <2>2, <2>3, Stages
  <2>6. Membership!LetGo(n)
    <3>1. Stage' = [Stage EXCEPT ![n] = IF Stage[n] = "leaving" THEN "absent" ELSE Stage[n]]
      BY <2>2, <2>5, StageChange
    <3>2. QED
      BY <2>1, <2>4, <3>1 DEF Membership!LetGo, Membership!cleanupVars
  <2>7. QED
    BY <2>6 DEF Membership!Next
<1>4. ASSUME NEW n \in Nodes, RegisterNode(n)
      PROVE  [Membership!Next]_(Membership!vars)
  <2> DEFINE o == NewNode(nodes[n].uid + 1)
  <2>1. UNCHANGED <<members, call>>
    BY <1>4 DEF RegisterNode
  <2>2. nodes' = [nodes EXCEPT ![n] = o] /\ nodes[n].phase = "Absent"
    BY <1>4 DEF RegisterNode
  <2>3. /\ o \in NodeObject /\ o.phase = "Live" /\ ~o.fin /\ ~o.held
        /\ o.uid = nodes[n].uid + 1
    BY <1>1 DEF NewNode, NodeObject
  <2> HIDE DEF o
  <2>4. Kept' = Kept
    BY <2>2, <2>3, StageChange DEF Kept, DeletionIsFinal, HeldIsDeparting
  <2>5. Stage[n] = "absent" /\ Stage' = [Stage EXCEPT ![n] = "new"]
    <3>1. Stage' = [Stage EXCEPT ![n] = StageOf(o)] /\ Stage[n] = StageOf(nodes[n])
      BY <2>2, StageChange
    <3>2. StageOf(o) = "new" /\ StageOf(nodes[n]) = "absent"
      BY <1>1, <2>2, <2>3, Stages
    <3>3. QED
      BY <3>1, <3>2
  <2>6. UNCHANGED <<Cleaning, Told, Spoilt>>
    BY <2>1 DEF Cleaning, Told, Spoilt, At
  <2>7. Same' = (Same /\ n \notin Cleaning)
    <3>1. CASE At("idle")
      BY <2>1, <3>1 DEF Same, At
    <3>2. CASE ~At("idle") /\ call.node = n
      <4>1. call.uid \in Nat /\ call.uid <= nodes[n].uid /\ nodes'[n].uid = nodes[n].uid + 1
        BY <2>2, <2>3, <3>2, Frame, StageChange DEF Call, DeletionIsFinal, UidsGrow
      <4>2. call.uid # nodes'[n].uid
        BY <1>1, <4>1 DEF NodeObject
      <4>3. QED
        BY <2>1, <3>2, <4>2 DEF Same, Current, WorksOn, Cleaning, At
    <3>3. CASE ~At("idle") /\ call.node # n
      <4>1. call.node \in Nodes
        BY <3>3, Frame DEF Call
      <4>2. nodes'[call.node] = nodes[call.node]
        BY <2>2, <3>3, <4>1, StageChange
      <4>3. QED
        BY <2>1, <3>3, <4>2 DEF Same, Current, WorksOn, Cleaning, At
    <3>4. QED
      BY <3>1, <3>2, <3>3
  <2>8. Membership!Return(n)
    BY <2>1, <2>4, <2>5, <2>6, <2>7 DEF Membership!Return
  <2>9. QED
    BY <2>8 DEF Membership!Next
<1>5. ASSUME NEW db \in DBs, NEW n \in Nodes, JoinDatabase(db, n)
      PROVE  [Membership!Next]_(Membership!vars)
  <2>1. UNCHANGED <<Stage, Kept>> /\ Stage[n] # "absent"
    BY <1>1, <1>5, Stages DEF JoinDatabase, Stage, Kept
  <2>2. /\ UNCHANGED <<Cleaning, Told, Same>>
        /\ Spoilt' = IF n \in Cleaning THEN Spoilt \cup {db} ELSE Spoilt
    <3>1. CASE WorksOn(n)
      <4>1. call \in Call /\ call' = [call EXCEPT !.spoilt = @ \cup {db}] /\ ~At("idle")
        BY <1>5, <3>1, Frame DEF JoinDatabase, WorksOn
      <4>2. /\ call'.pc = call.pc /\ call'.node = call.node /\ call'.addrs = call.addrs
            /\ call'.uid = call.uid /\ call'.spoilt = call.spoilt \cup {db}
        BY <4>1 DEF Call
      <4>3. UNCHANGED nodes
        BY <1>5 DEF JoinDatabase
      <4>4. QED
        BY <3>1, <4>1, <4>2, <4>3 DEF Cleaning, Told, Same, Spoilt, Current, WorksOn, At
    <3>2. CASE ~WorksOn(n)
      <4>1. call' = call /\ nodes' = nodes
        BY <1>5, <3>2 DEF JoinDatabase
      <4>2. n \notin Cleaning
        BY <3>2 DEF WorksOn, Cleaning
      <4>3. QED
        BY <4>1, <4>2, QuietCleanup
    <3>3. QED
      BY <3>1, <3>2
  <2>3. Membership!Join(db, n)
    BY <1>5, <2>1, <2>2 DEF JoinDatabase, Membership!Join
  <2>4. QED
    BY <2>3 DEF Membership!Next
<1>6. ASSUME \/ \E db \in DBs, k \in {0, 2} : LoseLeader(db, k)
             \/ \E db \in DBs : ElectLeader(db)
             \/ DeleteConfig
             \/ ConfigGone
      PROVE  [Membership!Next]_(Membership!vars)
  BY <1>6, UnseenStep DEF LoseLeader, ElectLeader, DeleteConfig, ConfigGone, ovn
<1>7. QED
  BY <1>2, <1>3, <1>4, <1>5, <1>6 DEF Cluster

LEMMA NextMembership ==
    ASSUME TypeOK, TypeOK', DeletionIsFinal, Kicked, [Next]_vars
    PROVE  [Membership!Next]_(Membership!vars)
<1> USE DEF copies, ovn
<1>1. ASSUME NEW n \in Nodes, Start(n)
      PROVE  [Membership!Next]_(Membership!vars)
  BY <1>1, StartMembership
<1>2. CASE reconcileOVNCentralState
  BY <1>2, CleanupMembership DEF reconcileOVNCentralState, DBs
<1>3. CASE PatchAddresses \/ reconcileOVSOVNState
  <2>1. ~At("idle") /\ UNCHANGED <<nodes, members>>
    BY <1>3 DEF PatchAddresses, reconcileOVSOVNState, At
  <2>2. CASE call' = Idle
    BY <2>1, <2>2, UnseenStep
  <2>3. CASE Goto("chassis") \/ Goto("release")
    BY <2>1, <2>3, GotoUnseen DEF Stage, Kept, Membership!vars, Membership!cleanupVars
  <2>4. QED
    BY <1>3, <2>2, <2>3 DEF PatchAddresses, reconcileOVSOVNState, Return, Requeue
<1>4. CASE RemoveFinalizer
  BY <1>4, ReleaseMembership
<1>5. CASE Fail \/ Restart \/ \E n \in Nodes : DeliverNode(n) \/ Resync(n)
  BY <1>5, UnseenStep DEF Fail, FailedCall, Return, Requeue, Restart, DeliverNode, Resync
<1>6. CASE ConfigurationController
  BY <1>6, UnseenStep DEF ConfigurationController, findMasterNodes, PatchStatus, FailedPass,
     DeliverConfig, ResyncConfig, nodeVars
<1>7. CASE Cluster
  BY <1>7, ClusterMembership
<1>8. CASE UNCHANGED vars
  BY <1>8, UnseenStep DEF vars, nodeVars
<1>9. QED
  BY <1>1, <1>2, <1>3, <1>4, <1>5, <1>6, <1>7, <1>8 DEF Next, Controller, Continue

(***************************************************************************)
(* The node controller in its cluster implements NodeMembership            *)
(* (reconcileNodeDeletion), whatever it has read too early, whichever      *)
(* script fails, whenever a machine comes back, and wherever a call is cut *)
(* off.                                                                    *)
(***************************************************************************)
THEOREM MembershipIsImplemented == Spec => ImplementsNodeMembership
<1>1. Init => Membership!Init
  <2> SUFFICES ASSUME Init PROVE Membership!Init
    OBVIOUS
  <2>1. TypeOK
    BY InitTypeOK
  <2>2. \A n \in Nodes : nodes[n] \in NodeObject /\ nodes[n].phase = "Live" /\ ~nodes[n].held
    BY <2>1 DEF Init, NewNode, TypeOK
  <2>3. Stage \in [Nodes -> {"new", "guarded"}] /\ Kept = {}
    BY <2>2, Stages DEF Stage, Kept, NodeObject
  <2>4. Cleaning = {} /\ Told = FALSE /\ Same = FALSE /\ Spoilt = {}
    BY DEF Init, Cleaning, Told, Same, Spoilt, At, Idle
  <2>5. QED
    BY <2>1, <2>3, <2>4 DEF TypeOK, Membership!Init
<1>2. TypeOK /\ TypeOK' /\ DeletionIsFinal /\ Kicked /\ [Next]_vars
        => [Membership!Next]_(Membership!vars)
  BY NextMembership
<1>3. QED
  BY <1>1, <1>2, TypeCorrect, DeletionIsFinalInvariant, KickedInvariant, PTL
     DEF Spec, ImplementsNodeMembership, Membership!Spec

=============================================================================
