---------------------------- MODULE HealthSystem ----------------------------
(***************************************************************************)
(* The health check next to the configuration controller, which writes the *)
(* same status: initializeConditions, findMasterNodes, the outcome of      *)
(* applyObject and the status patch.  Both work from copies and replace    *)
(* the list of conditions as a whole.                                      *)
(*                                                                         *)
(* A tick is long against a call: time passes when nothing is left to do.  *)
(***************************************************************************)
EXTENDS HealthCheck

CONSTANT MaxDisturbances   \* bound: faults and outside changes

ASSUME BoundAssumption == MaxDisturbances \in Nat

VARIABLES
    cq,       \* the key is in the configuration controller's queue
    pass,     \* the running call of that controller, before its patch
    masters,  \* the nodes that carry the master label and have an address
    since,    \* history: ticks since a database changed, or the deployment
    budget    \* disturbances left

vars == <<healthVars, cq, pass, masters, since, budget>>

Pass   == [obj : Copy, cfg : Copy, touched : BOOLEAN]
NoPass == [touched |-> FALSE]

(* Every variable has its type. *)
TypeOK ==
    /\ config \in Copy
    /\ pending \in BOOLEAN
    /\ cache \in Copy
    /\ hq \in BOOLEAN
    /\ timer \in 0..Interval
    /\ call \in Call \cup {Idle}
    /\ leaders \in [DBs -> 0..2]
    /\ ok \subseteq DBs
    /\ cq \in BOOLEAN
    /\ pass \in Pass \cup {NoPass}
    /\ masters \subseteq Nodes
    /\ since \in Ages
    /\ budget \in Nat

(* The controller's finalizer is on every object it reports about. *)
NewConfig == [c |-> [Fresh(TRUE, 1) EXCEPT !.fin = TRUE], age |-> 0]

(* A Configuration has just been created. *)
Init ==
    /\ config = NewConfig
    /\ pending = FALSE
    /\ cache = config
    /\ hq = TRUE
    /\ timer = 0
    /\ call = Idle
    /\ leaders \in [DBs -> 0..2]
    /\ ok = DBs
    /\ cq = TRUE
    /\ pass = NoPass
    /\ masters \in SUBSET (Nodes \ Addressless)
    /\ since = 0
    /\ budget = MaxDisturbances

Quiet == ~pending /\ ~hq /\ ~cq /\ call = Idle /\ pass = NoPass

----------------------------------------------------------------------------
(* The configuration controller.                                           *)

ReportedEveryTime(c) == masters # {}
FoundOnly(c) == masters # {} /\ masters # c.addrs
AddressesDiffer(c) == masters # c.addrs

(* findMasterNodes on a copy, and whether it called SetCondition. *)
MasterNodesFound(c) ==
    LET paused  == masters = {} /\ ~ConditionTrue(c, WaitingForMatchignNodes)
        changed == ~paused /\ AddressesDiffer(c)
    IN  [ touched |-> paused \/ changed,
          cfg |-> CASE paused  -> SetCondition(c, WaitingForMatchignNodes, "True")
                    [] changed -> [SetCondition(c, WaitingForMatchignNodes, "False")
                                     EXCEPT !.addrs = masters]
                    [] OTHER   -> c ]

(* applyObject sets the status when there are addresses to deploy with. *)
Applied(c) == IF c.addrs = {} THEN c ELSE [c EXCEPT !.status = "Deployed"]

ReconcileConfiguration ==
    /\ cq
    /\ pass = NoPass
    /\ cq' = FALSE
    /\ IF Live(cache.c)
         THEN LET found   == MasterNodesFound(initializeConditions(cache.c))
                  missing == \E t \in ConditionTypes : ~ConditionExists(cache.c, t)
              IN  pass' = [ obj |-> cache,
                            cfg |-> [ c   |-> Applied(found.cfg),
                                      age |-> IF ConditionExists(cache.c, OVNNBLeaderFound)
                                                THEN cache.age ELSE 0 ],
                            touched |-> missing \/ found.touched ]
         ELSE UNCHANGED pass
    /\ UNCHANGED <<healthVars, masters, since, budget>>

(* A status that does not differ is not patched. *)
PatchStatus ==
    /\ pass # NoPass
    /\ pass' = NoPass
    /\ LET deployed == pass.cfg.c.status # pass.obj.c.status
           same == ~pass.touched /\ ~deployed /\ pass.cfg.c.addrs = pass.obj.c.addrs
       IN  \/ same /\ UNCHANGED <<config, pending, cq, since>>
           \/ /\ ~same
              /\ config.c.exists
              /\ config' = Patched(pass.obj, pass.cfg, pass.touched)
              /\ pending' = TRUE
              /\ since' = IF deployed THEN 0 ELSE since
              /\ UNCHANGED cq
           \/ ~same /\ ~config.c.exists /\ cq' = TRUE /\ UNCHANGED <<config, pending, since>>
    /\ UNCHANGED <<cache, hq, timer, call, databases, masters, budget>>

----------------------------------------------------------------------------
(* The client machinery and time.                                          *)

Deliver ==
    /\ pending
    /\ pending' = FALSE
    /\ cache' = config
    /\ hq' = TRUE
    /\ cq' = TRUE
    /\ UNCHANGED <<config, timer, call, databases, pass, masters, since, budget>>

Older(n) == IF n = 2 * Interval THEN n ELSE n + 1

(***************************************************************************)
(* Time passes.  The timer adds the key to the queue; an event of a        *)
(* managed object, or the periodic resync, has the configuration           *)
(* controller look at the nodes again.                                     *)
(***************************************************************************)
Tick(resync) ==
    /\ Quiet
    /\ config' = [config EXCEPT !.age = Older(@)]
    /\ cache' = config'
    /\ since' = Older(since)
    /\ timer' = IF timer = 0 THEN 0 ELSE timer - 1
    /\ hq' = (timer = 1)
    /\ cq' = resync
    /\ UNCHANGED <<pending, call, databases, pass, masters, budget>>

Disturb == budget > 0 /\ budget' = budget - 1

(* A request of the running call fails: its key is retried. *)
FailCheck ==
    /\ Disturb
    /\ call # Idle
    /\ call' = Idle
    /\ hq' = TRUE
    /\ UNCHANGED <<config, pending, cache, timer, databases, cq, pass, masters, since>>

FailPass ==
    /\ Disturb
    /\ pass # NoPass
    /\ pass' = NoPass
    /\ cq' = TRUE
    /\ UNCHANGED <<healthVars, masters, since>>

(* The operator dies and starts again; what it waited for is forgotten. *)
Restart ==
    /\ Disturb
    /\ cache' = config
    /\ pending' = FALSE
    /\ hq' = config.c.exists
    /\ cq' = config.c.exists
    /\ timer' = 0
    /\ call' = Idle
    /\ pass' = NoPass
    /\ UNCHANGED <<config, databases, masters, since>>

----------------------------------------------------------------------------
(* The cluster and its users.                                              *)

ChangeLeaders(db, n) ==
    /\ Disturb
    /\ leaders[db] # n
    /\ leaders' = [leaders EXCEPT ![db] = n]
    /\ since' = 0
    /\ UNCHANGED <<config, pending, cache, hq, timer, call, ok, cq, pass, masters>>

ChangeHealth(db) ==
    /\ Disturb
    /\ ok' = IF db \in ok THEN ok \ {db} ELSE ok \cup {db}
    /\ since' = 0
    /\ UNCHANGED <<config, pending, cache, hq, timer, call, leaders, cq, pass, masters>>

RelabelNodes(M) ==
    /\ Disturb
    /\ masters # M
    /\ masters' = M
    /\ UNCHANGED <<healthVars, cq, pass, since>>

(* The Configuration is deleted, released by its controller, created again. *)
Write(c) ==
    /\ config' = c
    /\ pending' = TRUE
    /\ UNCHANGED <<cache, hq, timer, call, databases, cq, pass, masters>>

DeleteConfig ==
    /\ Disturb
    /\ Live(config.c)
    /\ Write([config EXCEPT !.c = RequestDeletion(@, FALSE)])
    /\ UNCHANGED since

Released ==
    /\ config.c.exists
    /\ config.c.deleting
    /\ Write([config EXCEPT !.c = Gone(@)])
    /\ UNCHANGED <<since, budget>>

CreateConfig ==
    /\ Disturb
    /\ ~config.c.exists
    /\ Write(NewConfig)
    /\ UNCHANGED since

Next ==
    \/ ReconcileNothing /\ UNCHANGED <<cq, pass, masters, since, budget>>
    \/ ReconcileNotNeeded /\ UNCHANGED <<cq, pass, masters, since, budget>>
    \/ ReconcileNeeded /\ UNCHANGED <<cq, pass, masters, since, budget>>
    \/ Check /\ UNCHANGED <<cq, pass, masters, since, budget>>
    \/ ReconcileConfiguration \/ PatchStatus \/ Deliver
    \/ \E resync \in BOOLEAN : Tick(resync)
    \/ FailCheck \/ FailPass \/ Restart
    \/ \E db \in DBs, n \in 0..2 : ChangeLeaders(db, n)
    \/ \E db \in DBs : ChangeHealth(db)
    \/ \E M \in SUBSET (Nodes \ Addressless) : RelabelNodes(M)
    \/ DeleteConfig \/ Released \/ CreateConfig

Spec == Init /\ [][Next]_vars

(***************************************************************************)
(* Workers take what is in their queues, the watch delivers, time passes,  *)
(* and the resync comes round.                                             *)
(***************************************************************************)
Fairness ==
    /\ WF_vars(Step /\ UNCHANGED <<cq, pass, masters, since, budget>>)
    /\ WF_vars(ReconcileConfiguration)
    /\ WF_vars(PatchStatus)
    /\ WF_vars(Deliver)
    /\ WF_vars(Released)
    /\ WF_vars(\E resync \in BOOLEAN : Tick(resync))
    /\ SF_vars(Tick(TRUE))

FairSpec == Spec /\ Fairness

----------------------------------------------------------------------------
(***************************************************************************)
(* The requeue chain of healthcheck_controller.go:77 never breaks: when    *)
(* nothing is left to do for a deployed Configuration, a timer is running, *)
(* and it ends before the report is two intervals old.                     *)
(***************************************************************************)
TimerRunning ==
    Quiet /\ Deployed(config.c) => timer > 0 /\ config.age + timer < 2 * Interval

(***************************************************************************)
(* The health of a database with a leader.  The exemption is a defect of   *)
(* the code: healthcheck_controller.go:118 runs the northbound check in    *)
(* the southbound leader's pod, too.  Without exactly one such pod no      *)
(* script runs, and a healthy database is reported as not healthy.         *)
(***************************************************************************)
NoScriptRuns == leaders["sb"] # 1

HealthReported(c, db) ==
    \/ c.conds[DBHealth[db]] = ToStatus(db \in ok)
    \/ NoScriptRuns /\ c.conds[DBHealth[db]] = "False"

(* The conditions say how the databases are.  Without a leader the health  *)
(* of a database keeps its last value.                                     *)
Truthful(c) ==
    /\ \A db \in DBs : c.conds[LeaderFound[db]] = ToStatus(leaders[db] > 0)
    /\ \A db \in DBs : leaders[db] > 0 => HealthReported(c, db)

(***************************************************************************)
(* README.md:166: "reconciles ovn nb/sb databases from the cluster and     *)
(* updates the results in appropriate configuration status conditions".    *)
(* When the databases of a deployed Configuration have not changed for two *)
(* intervals, its conditions say how they are, whatever the configuration  *)
(* controller, failures and restarts wrote or lost in between; only        *)
(* without the one pod that all scripts run in is a database wrongly       *)
(* reported as not healthy.                                                *)
(***************************************************************************)
ReportedInTime ==
    Quiet /\ Deployed(config.c) /\ since = 2 * Interval => Truthful(config.c)

(***************************************************************************)
(* Both controllers are woken by each other's status patches: they do not  *)
(* keep each other busy for ever.                                          *)
(***************************************************************************)
Settles == []<>Quiet

Waits == Live(config.c) /\ ConditionTrue(config.c, WaitingForMatchignNodes)

(***************************************************************************)
(* When no node matches any more, the Configuration ends up waiting, with  *)
(* no address left, although the health check patches the condition from   *)
(* older copies and findMasterNodes takes it back on its way               *)
(* (configuration_controller.go:289-298).                                  *)
(***************************************************************************)
PauseIsReported ==
    <>[](Live(config.c) /\ masters = {}) => <>[](Waits /\ config.c.addrs = {})

(***************************************************************************)
(* configuration_controller.go:288: reconcile is paused "until label       *)
(* matches".  A Configuration whose master nodes are there does not say    *)
(* for ever that it waits for them.                                        *)
(***************************************************************************)
WaitingEnds == []((masters # {}) => <>(~Waits \/ masters = {}))

=============================================================================
