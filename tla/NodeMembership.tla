--------------------------- MODULE NodeMembership ---------------------------
(***************************************************************************)
(* What the operator promises about the nodes of a cluster and the servers *)
(* that the OVN databases have on them.  A cleanup is for one machine that *)
(* is not in use.  It evicts no other server but one that looks alike, and *)
(* a server that the cleanup was told of is out of every database before   *)
(* its machine is released, unless the eviction was spoilt.  A release     *)
(* leaves the finalizers of others alone: the node goes with the last one. *)
(*                                                                         *)
(* A cleanup knows its machine by name.  When another machine has taken    *)
(* the name since, the promises are void for that machine: it may be       *)
(* evicted and lose its guard, once, for the cleanup ends with it.         *)
(***************************************************************************)
CONSTANTS
    Nodes,
    DBs,
    Lookalikes  \* <<n, m>>: m may be taken for n

VARIABLES
    stage,     \* where each node is in its life
    kept,      \* the nodes under deletion that others keep, too
    servers,   \* the nodes with a server, by database
    cleaning,  \* the node of the running cleanup, if there is one
    told,      \* the cleanup was told that its node has servers
    same,      \* the cleanup's machine still has the name
    spoilt     \* the databases the cleanup has not cleaned for good

cleanupVars == <<cleaning, told, same, spoilt>>
vars        == <<stage, kept, servers, cleanupVars>>

InUse(n) == stage[n] \in {"new", "guarded"}

(* A node that nothing keeps is gone. *)
Unguarded(n, S) == IF n \in S THEN "leaving" ELSE "absent"

Init ==
    /\ stage \in [Nodes -> {"new", "guarded"}]
    /\ kept = {}
    /\ servers \in [DBs -> SUBSET Nodes]
    /\ cleaning = {}
    /\ told = FALSE
    /\ same = FALSE
    /\ spoilt = {}

----------------------------------------------------------------------------

Guard(n) ==
    /\ stage[n] = "new"
    /\ stage' = [stage EXCEPT ![n] = "guarded"]
    /\ UNCHANGED <<kept, servers, cleanupVars>>

Delete(n) ==
    /\ InUse(n)
    /\ kept' \in {kept, kept \cup {n}}
    /\ stage' = [stage EXCEPT ![n] =
                   IF @ = "guarded" THEN "guardedLeaving" ELSE Unguarded(n, kept')]
    /\ UNCHANGED <<servers, cleanupVars>>

(* Others let go of a node. *)
LetGo(n) ==
    /\ n \in kept
    /\ kept' = kept \ {n}
    /\ stage' = [stage EXCEPT ![n] = IF @ = "leaving" THEN "absent" ELSE @]
    /\ UNCHANGED <<servers, cleanupVars>>

(* Another machine takes the name. *)
Return(n) ==
    /\ stage[n] = "absent"
    /\ stage' = [stage EXCEPT ![n] = "new"]
    /\ same' = (same /\ n \notin cleaning)
    /\ UNCHANGED <<kept, servers, cleaning, told, spoilt>>

Join(db, n) ==
    /\ stage[n] # "absent"
    /\ servers' = [servers EXCEPT ![db] = @ \cup {n}]
    /\ spoilt' = IF n \in cleaning THEN spoilt \cup {db} ELSE spoilt
    /\ UNCHANGED <<stage, kept, cleaning, told, same>>

----------------------------------------------------------------------------

BeginCleanup(n) ==
    /\ cleaning = {}
    /\ cleaning' = {n}
    /\ told' \in BOOLEAN
    /\ same' \in BOOLEAN
    /\ same' => ~InUse(n)
    /\ spoilt' = {}
    /\ UNCHANGED <<stage, kept, servers>>

Evict(db) ==
    /\ told
    /\ servers' = [servers EXCEPT ![db] = @ \ cleaning]
    /\ UNCHANGED <<stage, kept, cleanupVars>>

(* A server without an entry is taken for another. *)
EvictLookalike(db, n, m) ==
    /\ told
    /\ n \in cleaning
    /\ n \notin servers[db]
    /\ <<n, m>> \in Lookalikes
    /\ servers' = [servers EXCEPT ![db] = @ \ {m}]
    /\ UNCHANGED <<stage, kept, cleanupVars>>

Spoil(db) ==
    /\ told
    /\ spoilt' = spoilt \cup {db}
    /\ UNCHANGED <<stage, kept, servers, cleaning, told, same>>

EndCleanup == cleaning' = {} /\ told' = FALSE /\ same' = FALSE /\ spoilt' = {}

GiveUp == EndCleanup /\ UNCHANGED <<stage, kept, servers>>

Release(n) ==
    /\ n \in cleaning
    /\ same
    /\ told => \A db \in DBs : n \notin servers[db] \/ db \in spoilt
    /\ stage[n] = "guardedLeaving"
    /\ stage' = [stage EXCEPT ![n] = Unguarded(n, kept)]
    /\ EndCleanup
    /\ UNCHANGED <<kept, servers>>

(* The finalizers of a machine that has taken the name are written over. *)
Mistake(n) ==
    /\ n \in cleaning
    /\ ~same
    /\ \/ /\ InUse(n)
          /\ stage' = [stage EXCEPT ![n] = "new"]
          /\ UNCHANGED kept
       \/ /\ ~InUse(n)
          /\ kept' \in {kept, kept \ {n}}
          /\ stage' = [stage EXCEPT ![n] = Unguarded(n, kept')]
    /\ EndCleanup
    /\ UNCHANGED servers

----------------------------------------------------------------------------

Next ==
    \/ \E n \in Nodes :
         \/ Guard(n) \/ Delete(n) \/ LetGo(n) \/ Return(n)
         \/ BeginCleanup(n) \/ Release(n) \/ Mistake(n)
         \/ \E db \in DBs : Join(db, n)
    \/ \E db \in DBs : Evict(db) \/ Spoil(db)
    \/ \E db \in DBs : \E n, m \in Nodes : EvictLookalike(db, n, m)
    \/ GiveUp

Spec == Init /\ [][Next]_vars

=============================================================================
