---------------------------- MODULE HealthCheck ----------------------------
(***************************************************************************)
(* The health check controller                                             *)
(* (internal/controller/healthcheck_controller.go): a second controller of *)
(* the Configuration, which looks for the leaders of the OVN databases     *)
(* every interval and reports what it sees in the conditions.              *)
(*                                                                         *)
(* Time is counted in ticks, Interval of them to a health check interval.  *)
(* Of the conditions' LastTransitionTimes only the one of                  *)
(* ovnNorthDBLeaderFound is read; a copy of the Configuration carries its  *)
(* age.  call is the frame of the running call of Reconcile.               *)
(***************************************************************************)
EXTENDS Configuration

CONSTANT Interval   \* HealthCheckInterval, in ticks

ASSUME IntervalAssumption == Interval \in Nat \ {0}

VARIABLES
    config,   \* the Configuration and the age of its northbound condition
    pending,  \* a watch event of the Configuration is under way
    cache,    \* the informer's copy
    hq,       \* the Configuration's key is in the health check's queue
    timer,    \* ticks until RequeueAfter adds the key; 0: no timer is set
    call,     \* the running call of the health check's Reconcile
    leaders,  \* the number of pods with each database's leader label
    ok        \* the databases whose status script succeeds

databases   == <<leaders, ok>>
healthVars  == <<config, pending, cache, hq, timer, call, databases>>

DBs    == {"nb", "sb"}
Ages   == 0..(2 * Interval)
Copy   == [c : ConfigurationObject, age : Ages]
Steps  == {"nbPods", "sbPods", "nbCheck", "sbCheck", "patch"}

(* The object as read and its modified copy. *)
Call   == [pc : Steps, obj : Copy, cfg : Copy]
Idle   == [pc |-> "idle"]

LeaderFound == [nb |-> OVNNBLeaderFound, sb |-> OVNSBLeaderFound]
DBHealth    == [nb |-> OVNNBDBHealth,    sb |-> OVNSBDBHealth]

Deployed(c) == Live(c) /\ c.status = "Deployed"

ReasonWritten(b) == IF b THEN "LeaderFound" ELSE "LeaderNotFound"

ToStatus(b) == IF b THEN "True" ELSE "False"

----------------------------------------------------------------------------
At(pc) == call.pc = pc

(* The queue keeps the earlier one of two delayed additions of a key. *)
EarlierOf(t) == IF t = 0 THEN Interval ELSE t

RequeueAfter == timer' = EarlierOf(timer)

Dequeue == At("idle") /\ hq /\ hq' = FALSE

(* Nothing to check: not found, under deletion, or not deployed yet. *)
ReconcileNothing ==
    /\ Dequeue
    /\ ~Deployed(cache.c)
    /\ UNCHANGED <<config, pending, cache, timer, call, databases>>

(* LastTransitionTime + interval < now; a missing condition has time zero. *)
checkNeeded(copy) ==
    ~ConditionExists(copy.c, OVNNBLeaderFound) \/ copy.age >= Interval

NoTimerWithoutCheck ==
    /\ Dequeue
    /\ Deployed(cache.c)
    /\ ~checkNeeded(cache)
    /\ UNCHANGED <<config, pending, cache, timer, call, databases>>

ReconcileNotNeeded ==
    /\ Dequeue
    /\ Deployed(cache.c)
    /\ ~checkNeeded(cache)
    /\ RequeueAfter
    /\ UNCHANGED <<config, pending, cache, call, databases>>

ReconcileNeeded ==
    /\ Dequeue
    /\ Deployed(cache.c)
    /\ checkNeeded(cache)
    /\ call' = [pc |-> "nbPods", obj |-> cache, cfg |-> cache]
    /\ UNCHANGED <<config, pending, cache, timer, databases>>

----------------------------------------------------------------------------
(* reconcileOVNDBHealth                                                    *)

Goto(pc) == [call EXCEPT !.pc = pc]

Set(copy, type, s) == [copy EXCEPT !.c = SetCondition(@, type, s)]

(* SetCondition on the northbound condition renews the time that is read. *)
podListNB ==
    /\ At("nbPods")
    /\ call' = [Goto("sbPods") EXCEPT
         !.cfg = [Set(@, OVNNBLeaderFound, ToStatus(leaders["nb"] > 0)) EXCEPT !.age = 0]]
    /\ UNCHANGED <<config, pending, cache, hq, timer, databases>>

podListSB ==
    /\ At("sbPods")
    /\ call' = [Goto("nbCheck") EXCEPT
         !.cfg = Set(@, OVNSBLeaderFound, ToStatus(leaders["sb"] > 0))]
    /\ UNCHANGED <<config, pending, cache, hq, timer, databases>>

SameScript(db) == leaders["sb"] = 1 /\ "nb" \in ok

(* The executor wants exactly one pod, the southbound leader's, for both.  *)
executeOVNCentralCommand(db) == leaders["sb"] = 1 /\ db \in ok

(* The check of a database is run when its leader was found. *)
Checked(db, pc) ==
    call' = IF call.cfg.c.conds[LeaderFound[db]] = "True"
              THEN [Goto(pc) EXCEPT
                      !.cfg = Set(@, DBHealth[db], ToStatus(executeOVNCentralCommand(db)))]
              ELSE Goto(pc)

checkNB ==
    /\ At("nbCheck")
    /\ Checked("nb", "sbCheck")
    /\ UNCHANGED <<config, pending, cache, hq, timer, databases>>

checkSB ==
    /\ At("sbCheck")
    /\ Checked("sb", "patch")
    /\ UNCHANGED <<config, pending, cache, hq, timer, databases>>

(* A merge patch of the status; the conditions' times go with their list. *)
Patched(obj, cfg, touched) ==
    [ c   |-> MergeStatus(config.c, obj.c, cfg.c, touched),
      age |-> IF touched THEN cfg.age ELSE config.age ]

(* A check renews a time, so there always is something to patch. *)
PatchConditions ==
    /\ At("patch")
    /\ call' = Idle
    /\ \/ /\ config.c.exists
          /\ config' = Patched(call.obj, call.cfg, TRUE)
          /\ pending' = TRUE
          /\ RequeueAfter
          /\ UNCHANGED hq
       \/ /\ ~config.c.exists
          /\ hq' = TRUE
          /\ UNCHANGED <<config, pending, timer>>
    /\ UNCHANGED <<cache, databases>>

Check == podListNB \/ podListSB \/ checkNB \/ checkSB \/ PatchConditions

Step == ReconcileNothing \/ ReconcileNotNeeded \/ ReconcileNeeded \/ Check

=============================================================================
