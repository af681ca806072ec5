------------------------- MODULE HealthSystemProofs -------------------------
(***************************************************************************)
(* For every interval, every set of nodes and any number of disturbances:  *)
(* the health check's timer keeps running and its report is true within    *)
(* two intervals.                                                          *)
(***************************************************************************)
EXTENDS HealthSystem, ConfigurationProofs, TLAPS

(* What is not under way has arrived. *)
Synced == ~pending => cache = config

(* The timer of a deployed Configuration, before and after each call. *)
Timed ==
    Deployed(cache.c) /\ ~pending /\ ~hq /\ call = Idle
      => timer > 0 /\ cache.age + timer < 2 * Interval

HasNB(c) == c.conds[OVNNBLeaderFound] # "Absent"

(* The health check changes conditions and nothing else of the status. *)
StatusKept == call # Idle => call.cfg.c.status = call.obj.c.status

(* A configuration pass that nobody asked to repeat has the current copy. *)
Current == pass # NoPass /\ ~pending /\ ~cq => pass.obj = cache

(* A pass completes the conditions: each one has been, or will be. *)
Initialised ==
    /\ Live(cache.c) /\ ~pending /\ ~cq /\ pass = NoPass => HasNB(cache.c)
    /\ pass # NoPass => Live(pass.obj.c) /\ HasNB(pass.cfg.c)
    /\ pass # NoPass /\ ~pass.touched => HasNB(pass.obj.c)

(* Only a deployment in this tick is news to a copy. *)
NoNews ==
    /\ Deployed(config.c) /\ ~Deployed(cache.c) => since = 0
    /\ Deployed(config.c) /\ pass # NoPass /\ ~Deployed(pass.obj.c) => since = 0

(* A copy older than the last change of the databases promises nothing. *)
Accurate(copy) ==
    Deployed(copy.c) /\ since > copy.age => HasNB(copy.c) /\ Truthful(copy.c)

Missing(copy) == Deployed(copy.c) /\ ~HasNB(copy.c) => since = 0

PassAccurate ==
    pass # NoPass =>
      /\ Accurate(pass.obj)
      /\ Missing(pass.obj)
      /\ Deployed(pass.obj.c) /\ since > pass.cfg.age => Truthful(pass.cfg.c)

(* What the running check has written into its copy so far. *)
After(S) == call # Idle /\ call.pc \in S

FoundSoFar(db) == call.cfg.c.conds[LeaderFound[db]] = ToStatus(leaders[db] > 0)

HealthSoFar(db) == leaders[db] > 0 => HealthReported(call.cfg.c, db)

CheckAccurate ==
    /\ After({"sbPods", "nbCheck", "sbCheck", "patch"})
         => call.cfg.age = 0 /\ HasNB(call.cfg.c) /\ (since > 0 => FoundSoFar("nb"))
    /\ After({"nbCheck", "sbCheck", "patch"}) => (since > 0 => FoundSoFar("sb"))
    /\ After({"sbCheck", "patch"}) => (since > 0 => HealthSoFar("nb"))
    /\ After({"patch"}) => (since > 0 => HealthSoFar("sb"))

Reports ==
    /\ Accurate(config) /\ Accurate(cache)
    /\ Missing(config) /\ Missing(cache)
    /\ PassAccurate
    /\ CheckAccurate

IInv ==
    TypeOK /\ Synced /\ Timed /\ StatusKept /\ Current /\ Initialised /\ NoNews /\ Reports

----------------------------------------------------------------------------
(* The operators of the model.                                             *)

(* What a boolean becomes is a status, and tells the two apart. *)
LEMMA ToStatusType ==
    ASSUME NEW b \in BOOLEAN
    PROVE  /\ ToStatus(b) \in ConditionStatus
           /\ ToStatus(b) # "Absent"
           /\ ToStatus(b) = "True" <=> b
BY DEF ToStatus, ConditionStatus

(* The conditions that the health check writes are four different ones. *)
LEMMA ConditionsDiffer ==
    /\ \A db \in DBs : LeaderFound[db] \in ConditionTypes /\ DBHealth[db] \in ConditionTypes
    /\ \A db, e \in DBs : LeaderFound[db] # DBHealth[e]
    /\ \A db, e \in DBs : db # e => LeaderFound[db] # LeaderFound[e] /\ DBHealth[db] # DBHealth[e]
    /\ \A db \in DBs : /\ LeaderFound[db] # WaitingForMatchignNodes
                       /\ DBHealth[db] # WaitingForMatchignNodes
    /\ LeaderFound["nb"] = OVNNBLeaderFound
BY DEF DBs, LeaderFound, DBHealth, ConditionTypes, OVNNBLeaderFound, OVNSBLeaderFound,
       OVNNBDBHealth, OVNSBDBHealth, WaitingForMatchignNodes

(* SetCondition on a copy changes the one condition. *)
LEMMA SetType ==
    ASSUME NEW copy \in Copy, NEW t \in ConditionTypes, NEW s \in ConditionStatus
    PROVE  /\ Set(copy, t, s) \in Copy
           /\ Set(copy, t, s).age = copy.age
           /\ Set(copy, t, s).c.status = copy.c.status
           /\ Set(copy, t, s).c.conds[t] = s
           /\ \A u \in ConditionTypes \ {t} : Set(copy, t, s).c.conds[u] = copy.c.conds[u]
BY DEF Set, SetCondition, Copy, ConfigurationObject

(* What a merge patch of the status leaves of the stored object. *)
LEMMA PatchedType ==
    ASSUME config \in Copy, NEW o \in Copy, NEW d \in Copy, NEW b \in BOOLEAN
    PROVE  /\ Patched(o, d, b) \in Copy
           /\ Live(Patched(o, d, b).c) = Live(config.c)
           /\ Patched(o, d, b).c.conds = (IF b THEN d.c.conds ELSE config.c.conds)
           /\ Patched(o, d, b).age = (IF b THEN d.age ELSE config.age)
           /\ Patched(o, d, b).c.status
                = (IF d.c.status # o.c.status THEN d.c.status ELSE config.c.status)
<1>1. /\ config.c \in ConfigurationObject /\ o.c \in ConfigurationObject
      /\ d.c \in ConfigurationObject /\ d.age \in Ages /\ config.age \in Ages
  BY DEF Copy
<1>2. MergeStatus(config.c, o.c, d.c, b) \in ConfigurationObject
  BY <1>1, MergeStatusType
<1>3. Patched(o, d, b) \in Copy
  BY <1>1, <1>2 DEF Patched, Copy
<1>4. QED
  BY <1>1, <1>3 DEF Patched, MergeStatus, Live, ConfigurationObject

(* A frame is in use or idle. *)
LEMMA FramesDiffer ==
    /\ \A f \in Call : f # Idle /\ f.pc \in Steps /\ f.obj \in Copy /\ f.cfg \in Copy
    /\ Idle.pc = "idle" /\ "idle" \notin Steps
    /\ \A p \in Pass : p # NoPass
BY DEF Call, Idle, Pass, NoPass, Steps

(* A newly created object. *)
LEMMA NewConfigType ==
    NewConfig \in Copy /\ ~Deployed(NewConfig.c)
<1>1. Fresh(TRUE, 1) \in ConfigurationObject /\ Fresh(TRUE, 1).status = ""
  BY FreshType DEF Fresh
<1>2. 0 \in Ages
  BY IntervalAssumption DEF Ages
<1>3. QED
  BY <1>1, <1>2 DEF NewConfig, Copy, Deployed, ConfigurationObject

(* Time is capped. *)
LEMMA OlderType ==
    ASSUME NEW n \in Ages
    PROVE  Older(n) \in Ages
BY IntervalAssumption DEF Ages, Older

----------------------------------------------------------------------------
(* Type correctness.                                                       *)

(* The configuration controller's pass works on a copy of the right type, *)
(* changes only the waiting condition besides those that were missing, and *)
(* its status is the old one or Deployed.                                  *)
LEMMA PassType ==
    ASSUME TypeOK, ReconcileConfiguration, Live(cache.c)
    PROVE  /\ pass' \in Pass
           /\ pass'.obj = cache
           /\ pass'.cfg.age = (IF HasNB(cache.c) THEN cache.age ELSE 0)
           /\ \A t \in ConditionTypes \ {WaitingForMatchignNodes} :
                pass'.cfg.c.conds[t] = IF cache.c.conds[t] = "Absent" THEN "Unknown"
                                       ELSE cache.c.conds[t]
           /\ ~pass'.touched => HasNB(cache.c)
<1> DEFINE i       == initializeConditions(cache.c)
           f       == MasterNodesFound(i)
           missing == \E t \in ConditionTypes : ~ConditionExists(cache.c, t)
           cfg     == [ c   |-> Applied(f.cfg),
                        age |-> IF ConditionExists(cache.c, OVNNBLeaderFound)
                                  THEN cache.age ELSE 0 ]
<1>1. cache \in Copy /\ cache.c \in ConfigurationObject /\ cache.age \in Ages /\ masters \subseteq Nodes
  BY DEF TypeOK, Copy
<1>2. /\ i \in ConfigurationObject
      /\ \A t \in ConditionTypes : i.conds[t] = IF cache.c.conds[t] = "Absent" THEN "Unknown"
                                                ELSE cache.c.conds[t]
  BY <1>1, InitializeConditionsType
     DEF initializeConditions, ConfigurationObject, ConditionExists, LookupCondition
<1>3. WaitingForMatchignNodes \in ConditionTypes /\ OVNNBLeaderFound \in ConditionTypes
  BY DEF ConditionTypes
<1>4. /\ f.cfg \in ConfigurationObject
      /\ f.touched \in BOOLEAN
      /\ \A t \in ConditionTypes \ {WaitingForMatchignNodes} : f.cfg.conds[t] = i.conds[t]
  <2> DEFINE paused  == masters = {} /\ ~ConditionTrue(i, WaitingForMatchignNodes)
             changed == ~paused /\ AddressesDiffer(i)
             yes == SetCondition(i, WaitingForMatchignNodes, "True")
             no  == SetCondition(i, WaitingForMatchignNodes, "False")
  <2>1. yes \in ConfigurationObject /\ no \in ConfigurationObject
    BY <1>2, <1>3, SetConditionType DEF ConditionStatus
  <2>2. \A t \in ConditionTypes \ {WaitingForMatchignNodes} :
           yes.conds[t] = i.conds[t] /\ no.conds[t] = i.conds[t]
    BY <1>2, <1>3 DEF SetCondition, ConfigurationObject
  <2>3. /\ [no EXCEPT !.addrs = masters] \in ConfigurationObject
        /\ [no EXCEPT !.addrs = masters].conds = no.conds
    BY <1>1, <2>1 DEF ConfigurationObject
  <2>4. /\ f.touched = (paused \/ changed)
        /\ f.cfg = CASE paused  -> yes
                     [] changed -> [no EXCEPT !.addrs = masters]
                     [] OTHER   -> i
    BY DEF MasterNodesFound
  <2>5. f.touched \in BOOLEAN
    BY <2>4
  <2>6. f.cfg \in {yes, [no EXCEPT !.addrs = masters], i}
    BY <2>4
  <2> HIDE DEF yes, no, i, f, paused, changed
  <2>7. QED
    BY <1>2, <2>1, <2>2, <2>3, <2>5, <2>6
<1>5. /\ Applied(f.cfg) \in ConfigurationObject
      /\ Applied(f.cfg).conds = f.cfg.conds
  BY <1>4 DEF Applied, ConfigurationObject
<1>6. cfg \in Copy /\ cfg.c = Applied(f.cfg)
      /\ cfg.age = (IF HasNB(cache.c) THEN cache.age ELSE 0)
  BY <1>1, <1>5, IntervalAssumption DEF Copy, Ages, HasNB, ConditionExists, LookupCondition
<1>7. pass' = [obj |-> cache, cfg |-> cfg, touched |-> missing \/ f.touched]
  BY DEF ReconcileConfiguration
<1>8. ~missing => HasNB(cache.c)
  BY <1>3 DEF HasNB, ConditionExists, LookupCondition
<1>9. missing \in BOOLEAN
  OBVIOUS
<1> HIDE DEF i, f, missing, cfg
<1>10. pass' \in Pass /\ pass'.obj = cache /\ pass'.cfg = cfg /\ pass'.touched = (missing \/ f.touched)
  BY <1>1, <1>4, <1>6, <1>7, <1>9 DEF Pass
<1>11. QED
  BY <1>2, <1>4, <1>5, <1>6, <1>8, <1>10

(* A step of the check writes one condition of its copy at most. *)
Wrote(type, b) ==
    /\ call'.cfg.c.conds[type] = ToStatus(b)
    /\ \A u \in ConditionTypes \ {type} : call'.cfg.c.conds[u] = call.cfg.c.conds[u]

(* The running call goes from one step of the check to the next. *)
Moved(from, to) ==
    /\ call \in Call /\ call.pc = from
    /\ call' \in Call /\ call'.pc = to
    /\ call'.obj = call.obj
    /\ call'.cfg.c.status = call.cfg.c.status

(* A place that is not idle is one of a call. *)
LEMMA AtStep ==
    ASSUME TypeOK, NEW pc \in Steps, At(pc)
    PROVE  call \in Call /\ call.cfg \in Copy /\ call.obj \in Copy /\ call.pc = pc
BY FramesDiffer DEF TypeOK, At

(* The lists of the leaders' pods. *)
LEMMA PodLists ==
    ASSUME TypeOK
    PROVE  /\ podListNB => /\ Moved("nbPods", "sbPods")
                           /\ Wrote(LeaderFound["nb"], leaders["nb"] > 0)
                           /\ call'.cfg.age = 0
           /\ podListSB => /\ Moved("sbPods", "nbCheck")
                           /\ Wrote(LeaderFound["sb"], leaders["sb"] > 0)
                           /\ call'.cfg.age = call.cfg.age
<1>1. ASSUME podListNB
      PROVE  /\ Moved("nbPods", "sbPods")
             /\ Wrote(LeaderFound["nb"], leaders["nb"] > 0)
             /\ call'.cfg.age = 0
  <2> DEFINE s == Set(call.cfg, OVNNBLeaderFound, ToStatus(leaders["nb"] > 0))
  <2>1. call \in Call /\ call.cfg \in Copy /\ call.pc = "nbPods"
    BY <1>1, AtStep DEF podListNB, Steps
  <2>2. OVNNBLeaderFound \in ConditionTypes /\ LeaderFound["nb"] = OVNNBLeaderFound
    BY ConditionsDiffer DEF DBs
  <2>3. ToStatus(leaders["nb"] > 0) \in ConditionStatus
    BY DEF ToStatus, ConditionStatus
  <2>4. /\ s \in Copy /\ s.c.status = call.cfg.c.status
        /\ s.c.conds[OVNNBLeaderFound] = ToStatus(leaders["nb"] > 0)
        /\ \A u \in ConditionTypes \ {OVNNBLeaderFound} : s.c.conds[u] = call.cfg.c.conds[u]
    BY <2>1, <2>2, <2>3, SetType
  <2>5. call' = [call EXCEPT !.pc = "sbPods", !.cfg = [s EXCEPT !.age = 0]]
    BY <1>1 DEF podListNB, Goto
  <2>6. 0 \in Ages
    BY IntervalAssumption DEF Ages
  <2> HIDE DEF s
  <2>7. /\ [s EXCEPT !.age = 0] \in Copy /\ [s EXCEPT !.age = 0].c = s.c
        /\ [s EXCEPT !.age = 0].age = 0
    BY <2>4, <2>6 DEF Copy
  <2>8. /\ call' \in Call /\ call'.pc = "sbPods" /\ call'.obj = call.obj
        /\ call'.cfg = [s EXCEPT !.age = 0]
    BY <2>1, <2>5, <2>7 DEF Call, Steps
  <2>9. QED
    BY <2>1, <2>2, <2>4, <2>7, <2>8 DEF Moved, Wrote
<1>2. ASSUME podListSB
      PROVE  /\ Moved("sbPods", "nbCheck")
             /\ Wrote(LeaderFound["sb"], leaders["sb"] > 0)
             /\ call'.cfg.age = call.cfg.age
  <2> DEFINE s == Set(call.cfg, OVNSBLeaderFound, ToStatus(leaders["sb"] > 0))
  <2>1. call \in Call /\ call.cfg \in Copy /\ call.pc = "sbPods"
    BY <1>2, AtStep DEF podListSB, Steps
  <2>2. OVNSBLeaderFound \in ConditionTypes /\ LeaderFound["sb"] = OVNSBLeaderFound
    BY DEF LeaderFound, ConditionTypes
  <2>3. ToStatus(leaders["sb"] > 0) \in ConditionStatus
    BY DEF ToStatus, ConditionStatus
  <2>4. /\ s \in Copy /\ s.c.status = call.cfg.c.status /\ s.age = call.cfg.age
        /\ s.c.conds[OVNSBLeaderFound] = ToStatus(leaders["sb"] > 0)
        /\ \A u \in ConditionTypes \ {OVNSBLeaderFound} : s.c.conds[u] = call.cfg.c.conds[u]
    BY <2>1, <2>2, <2>3, SetType
  <2>5. call' = [call EXCEPT !.pc = "nbCheck", !.cfg = s]
    BY <1>2 DEF podListSB, Goto
  <2> HIDE DEF s
  <2>6. /\ call' \in Call /\ call'.pc = "nbCheck" /\ call'.obj = call.obj /\ call'.cfg = s
    BY <2>1, <2>4, <2>5 DEF Call, Steps
  <2>7. QED
    BY <2>1, <2>2, <2>4, <2>6 DEF Moved, Wrote
<1>3. QED
  BY <1>1, <1>2

(* The status scripts: run when the leader was found, else nothing changes. *)
LEMMA StatusChecks ==
    ASSUME TypeOK, NEW db \in DBs, NEW from \in Steps, NEW to \in Steps,
           At(from), Checked(db, to)
    PROVE  /\ Moved(from, to)
           /\ call'.cfg.age = call.cfg.age
           /\ IF call.cfg.c.conds[LeaderFound[db]] = "True"
                THEN Wrote(DBHealth[db], leaders["sb"] = 1 /\ db \in ok)
                ELSE call'.cfg.c.conds = call.cfg.c.conds
<1> DEFINE b == leaders["sb"] = 1 /\ db \in ok
           s == Set(call.cfg, DBHealth[db], ToStatus(b))
<1>1. call \in Call /\ call.cfg \in Copy /\ call.pc = from
  BY AtStep
<1>2. DBHealth[db] \in ConditionTypes
  BY ConditionsDiffer
<1>3. ToStatus(b) \in ConditionStatus
  BY ToStatusType
<1>4. /\ s \in Copy /\ s.c.status = call.cfg.c.status /\ s.age = call.cfg.age
      /\ s.c.conds[DBHealth[db]] = ToStatus(b)
      /\ \A u \in ConditionTypes \ {DBHealth[db]} : s.c.conds[u] = call.cfg.c.conds[u]
  BY <1>1, <1>2, <1>3, SetType
<1>5. CASE call.cfg.c.conds[LeaderFound[db]] = "True"
  <2>1. call' = [call EXCEPT !.pc = to, !.cfg = s]
    BY <1>5 DEF Checked, Goto, executeOVNCentralCommand
  <2> HIDE DEF s
  <2>2. call' \in Call /\ call'.pc = to /\ call'.obj = call.obj /\ call'.cfg = s
    BY <1>1, <1>4, <2>1 DEF Call
  <2>3. QED
    BY <1>1, <1>4, <1>5, <2>2 DEF Moved, Wrote
<1>6. CASE call.cfg.c.conds[LeaderFound[db]] # "True"
  <2>1. call' = [call EXCEPT !.pc = to]
    BY <1>6 DEF Checked, Goto
  <2>2. call' \in Call /\ call'.pc = to /\ call'.obj = call.obj /\ call'.cfg = call.cfg
    BY <1>1, <2>1 DEF Call
  <2>3. QED
    BY <1>1, <1>6, <2>2 DEF Moved
<1>7. QED
  BY <1>5, <1>6

(* Every step keeps the types. *)
LEMMA TypeStep ==
    ASSUME TypeOK, [Next]_vars
    PROVE  TypeOK'
<1> USE FramesDiffer DEF databases, healthVars
<1>1. CASE ReconcileNothing /\ UNCHANGED <<cq, pass, masters, since, budget>>
  BY <1>1 DEF ReconcileNothing, Dequeue, TypeOK
<1>2. CASE ReconcileNotNeeded /\ UNCHANGED <<cq, pass, masters, since, budget>>
  <2>1. timer' \in 0..Interval
    BY <1>2, IntervalAssumption DEF ReconcileNotNeeded, RequeueAfter, EarlierOf, TypeOK
  <2>2. QED
    BY <1>2, <2>1 DEF ReconcileNotNeeded, Dequeue, TypeOK
<1>3. CASE ReconcileNeeded /\ UNCHANGED <<cq, pass, masters, since, budget>>
  <2>1. call' \in Call
    BY <1>3 DEF ReconcileNeeded, TypeOK, Call, Steps
  <2>2. QED
    BY <1>3, <2>1 DEF ReconcileNeeded, Dequeue, TypeOK
<1>4. CASE Check /\ UNCHANGED <<cq, pass, masters, since, budget>>
  <2>1. CASE podListNB
    BY <1>4, <2>1, PodLists DEF podListNB, Moved, TypeOK
  <2>2. CASE podListSB
    BY <1>4, <2>2, PodLists DEF podListSB, Moved, TypeOK
  <2>3. CASE checkNB
    <3>1. Moved("nbCheck", "sbCheck")
      BY <2>3, StatusChecks DEF checkNB, DBs, Steps
    <3>2. QED
      BY <1>4, <2>3, <3>1 DEF checkNB, Moved, TypeOK
  <2>4. CASE checkSB
    <3>1. Moved("sbCheck", "patch")
      BY <2>4, StatusChecks DEF checkSB, DBs, Steps
    <3>2. QED
      BY <1>4, <2>4, <3>1 DEF checkSB, Moved, TypeOK
  <2>5. CASE PatchConditions
    <3>1. call \in Call /\ call.cfg \in Copy /\ call.obj \in Copy
      BY <2>5, AtStep DEF PatchConditions, Steps
    <3>2. Patched(call.obj, call.cfg, TRUE) \in Copy
      BY <3>1, PatchedType DEF TypeOK
    <3>3. config' \in Copy
      BY <2>5, <3>2 DEF PatchConditions, TypeOK
    <3>4. timer' \in 0..Interval
      <4>1. timer' \in {timer, Interval}
        BY <2>5 DEF PatchConditions, RequeueAfter, EarlierOf
      <4>2. QED
        BY <4>1, IntervalAssumption DEF TypeOK
    <3>5. pending' \in BOOLEAN /\ hq' \in BOOLEAN
      BY <2>5 DEF PatchConditions, TypeOK
    <3>6. QED
      BY <1>4, <2>5, <3>3, <3>4, <3>5 DEF PatchConditions, TypeOK
  <2>6. QED
    BY <1>4, <2>1, <2>2, <2>3, <2>4, <2>5 DEF Check
<1>5. CASE ReconcileConfiguration
  <2>1. pass' \in Pass \cup {NoPass}
    <3>1. CASE Live(cache.c)
      BY <1>5, <3>1, PassType
    <3>2. CASE ~Live(cache.c)
      BY <1>5, <3>2 DEF ReconcileConfiguration, TypeOK
    <3>3. QED
      BY <3>1, <3>2
  <2>2. QED
    BY <1>5, <2>1 DEF ReconcileConfiguration, TypeOK
<1>6. CASE PatchStatus
  <2>1. pass \in Pass
    BY <1>6 DEF PatchStatus, TypeOK
  <2>2. pass.obj \in Copy /\ pass.cfg \in Copy /\ pass.touched \in BOOLEAN
    BY <2>1 DEF Pass
  <2>3. Patched(pass.obj, pass.cfg, pass.touched) \in Copy
    BY <2>2, PatchedType DEF TypeOK
  <2>4. config' \in Copy
    BY <1>6, <2>3 DEF PatchStatus, TypeOK
  <2>5. since' \in Ages
    BY <1>6, IntervalAssumption DEF PatchStatus, TypeOK, Ages
  <2>6. pending' \in BOOLEAN /\ cq' \in BOOLEAN
    BY <1>6 DEF PatchStatus, TypeOK
  <2>7. QED
    BY <1>6, <2>4, <2>5, <2>6 DEF PatchStatus, TypeOK
<1>7. CASE Deliver
  BY <1>7 DEF Deliver, TypeOK
<1>8. ASSUME NEW resync \in BOOLEAN, Tick(resync)
      PROVE  TypeOK'
  <2>1. config' \in Copy
    BY <1>8, OlderType DEF Tick, TypeOK, Copy
  <2>2. since' \in Ages
    BY <1>8, OlderType DEF Tick, TypeOK
  <2>3. timer' \in 0..Interval
    BY <1>8, IntervalAssumption DEF Tick, TypeOK
  <2>4. hq' \in BOOLEAN /\ cq' \in BOOLEAN
    BY <1>8 DEF Tick
  <2>5. QED
    BY <1>8, <2>1, <2>2, <2>3, <2>4 DEF Tick, TypeOK
<1>9. CASE FailCheck
  BY <1>9 DEF FailCheck, Disturb, TypeOK
<1>10. CASE FailPass
  BY <1>10 DEF FailPass, Disturb, TypeOK
<1>11. CASE Restart
  <2>1. config.c.exists \in BOOLEAN
    BY DEF TypeOK, Copy, ConfigurationObject
  <2>2. 0 \in 0..Interval
    BY IntervalAssumption
  <2>3. budget' \in Nat
    BY <1>11 DEF Restart, Disturb, TypeOK
  <2>4. hq' \in BOOLEAN /\ cq' \in BOOLEAN /\ pending' \in BOOLEAN
    BY <1>11, <2>1 DEF Restart
  <2>5. QED
    BY <1>11, <2>2, <2>3, <2>4 DEF Restart, TypeOK
<1>12. ASSUME NEW db \in DBs, NEW n \in 0..2, ChangeLeaders(db, n)
       PROVE  TypeOK'
  <2>1. 0 \in Ages
    BY IntervalAssumption DEF Ages
  <2>2. QED
    BY <1>12, <2>1 DEF ChangeLeaders, Disturb, TypeOK
<1>13. ASSUME NEW db \in DBs, ChangeHealth(db)
       PROVE  TypeOK'
  <2>1. 0 \in Ages
    BY IntervalAssumption DEF Ages
  <2>2. QED
    BY <1>13, <2>1 DEF ChangeHealth, Disturb, TypeOK
<1>14. ASSUME NEW M \in SUBSET (Nodes \ Addressless), RelabelNodes(M)
       PROVE  TypeOK'
  BY <1>14 DEF RelabelNodes, Disturb, TypeOK
<1>15. CASE DeleteConfig
  <2>1. RequestDeletion(config.c, FALSE) \in ConfigurationObject
    BY RequestDeletionType DEF TypeOK, Copy
  <2>2. config' \in Copy
    BY <1>15, <2>1 DEF DeleteConfig, Write, TypeOK, Copy
  <2>3. QED
    BY <1>15, <2>2 DEF DeleteConfig, Write, Disturb, TypeOK
<1>16. CASE Released
  <2>1. Gone(config.c) \in ConfigurationObject
    BY FreshType DEF TypeOK, Copy, ConfigurationObject, Gone
  <2>2. config' \in Copy
    BY <1>16, <2>1 DEF Released, Write, TypeOK, Copy
  <2>3. QED
    BY <1>16, <2>2 DEF Released, Write, TypeOK
<1>17. CASE CreateConfig
  BY <1>17, NewConfigType DEF CreateConfig, Write, Disturb, TypeOK
<1>18. CASE UNCHANGED vars
  BY <1>18 DEF vars, TypeOK
<1>19. QED
  BY <1>1, <1>2, <1>3, <1>4, <1>5, <1>6, <1>7, <1>8, <1>9, <1>10, <1>11, <1>12, <1>13,
     <1>14, <1>15, <1>16, <1>17, <1>18 DEF Next

(* Initially every variable has its type. *)
LEMMA TypeInit == Init => TypeOK
<1> SUFFICES ASSUME Init PROVE TypeOK
  OBVIOUS
<1>1. 0 \in Ages /\ 0 \in 0..Interval
  BY IntervalAssumption DEF Ages
<1>2. QED
  BY <1>1, NewConfigType, BoundAssumption DEF Init, TypeOK

(* Every variable keeps its type, for every interval and set of nodes. *)
THEOREM TypeCorrect == Spec => []TypeOK
BY TypeInit, TypeStep, PTL DEF Spec

----------------------------------------------------------------------------
(* The timer.                                                              *)

(* No step lets the cache fall behind silently. *)
LEMMA SyncedStep ==
    ASSUME TypeOK, Synced, [Next]_vars
    PROVE  Synced'
<1> USE DEF databases, healthVars, Synced
<1>1. CASE ReconcileNothing \/ ReconcileNotNeeded \/ ReconcileNeeded
  BY <1>1 DEF ReconcileNothing, ReconcileNotNeeded, ReconcileNeeded
<1>2. CASE Check
  BY <1>2 DEF Check, podListNB, podListSB, checkNB, checkSB, PatchConditions
<1>3. CASE ReconcileConfiguration \/ PatchStatus
  BY <1>3 DEF ReconcileConfiguration, PatchStatus
<1>4. CASE Deliver \/ FailCheck \/ FailPass \/ Restart
  BY <1>4 DEF Deliver, FailCheck, FailPass, Restart
<1>5. ASSUME NEW resync \in BOOLEAN, Tick(resync)
      PROVE  Synced'
  BY <1>5 DEF Tick
<1>6. ASSUME NEW db \in DBs, NEW n \in 0..2, ChangeLeaders(db, n)
      PROVE  Synced'
  BY <1>6 DEF ChangeLeaders
<1>7. ASSUME NEW db \in DBs, ChangeHealth(db)
      PROVE  Synced'
  BY <1>7 DEF ChangeHealth
<1>8. ASSUME NEW M \in SUBSET (Nodes \ Addressless), RelabelNodes(M)
      PROVE  Synced'
  BY <1>8 DEF RelabelNodes
<1>9. CASE DeleteConfig \/ Released \/ CreateConfig
  BY <1>9 DEF DeleteConfig, Released, CreateConfig, Write
<1>10. CASE UNCHANGED vars
  BY <1>10 DEF vars
<1>11. QED
  BY <1>1, <1>2, <1>3, <1>4, <1>5, <1>6, <1>7, <1>8, <1>9, <1>10 DEF Next

(* Every call of the health check leaves a timer behind that ends in time. *)
LEMMA TimedStep ==
    ASSUME TypeOK, Synced, Timed, [Next]_vars
    PROVE  Timed'
<1> USE FramesDiffer, IntervalAssumption DEF databases, healthVars
<1>1. CASE ReconcileNothing
  BY <1>1 DEF ReconcileNothing, Dequeue, Timed
<1>2. CASE ReconcileNotNeeded
  <2>1. cache.age \in Nat /\ cache.age < Interval
    BY <1>2 DEF ReconcileNotNeeded, checkNeeded, TypeOK, Copy, Ages
  <2>2. timer' \in 1..Interval
    BY <1>2 DEF ReconcileNotNeeded, RequeueAfter, EarlierOf, TypeOK
  <2>3. cache' = cache
    BY <1>2 DEF ReconcileNotNeeded
  <2>4. timer' > 0 /\ cache'.age + timer' < 2 * Interval
    BY <2>1, <2>2, <2>3
  <2>5. QED
    BY <2>4 DEF Timed
<1>3. CASE ReconcileNeeded
  <2>1. call'.pc = "nbPods"
    BY <1>3 DEF ReconcileNeeded
  <2>2. QED
    BY <2>1 DEF Timed
<1>4. CASE Check
  <2>1. CASE podListNB
    BY <2>1, PodLists DEF Moved, Timed
  <2>2. CASE podListSB
    BY <2>2, PodLists DEF Moved, Timed
  <2>3. CASE checkNB
    BY <2>3, StatusChecks DEF checkNB, DBs, Steps, Moved, Timed
  <2>4. CASE checkSB
    BY <2>4, StatusChecks DEF checkSB, DBs, Steps, Moved, Timed
  <2>5. CASE PatchConditions
    BY <2>5 DEF PatchConditions, Timed
  <2>6. QED
    BY <1>4, <2>1, <2>2, <2>3, <2>4, <2>5 DEF Check
<1>5. CASE ReconcileConfiguration
  BY <1>5 DEF ReconcileConfiguration, Timed
<1>6. CASE PatchStatus
  BY <1>6 DEF PatchStatus, Timed
<1>7. CASE Deliver
  BY <1>7 DEF Deliver, Timed
<1>8. ASSUME NEW resync \in BOOLEAN, Tick(resync)
      PROVE  Timed'
  <2> SUFFICES ASSUME Deployed(cache'.c), ~hq'
               PROVE  timer' > 0 /\ cache'.age + timer' < 2 * Interval
    BY DEF Timed
  <2>1. cache = config /\ ~pending /\ ~hq /\ call = Idle
    BY <1>8 DEF Tick, Quiet, Synced
  <2>2. cache'.c = cache.c /\ cache'.age = Older(cache.age)
    BY <1>8, <2>1 DEF Tick, TypeOK, Copy
  <2>3. timer > 0 /\ cache.age + timer < 2 * Interval
    BY <2>1, <2>2 DEF Timed
  <2>4. cache.age \in Nat /\ timer \in Nat
    BY DEF TypeOK, Copy, Ages
  <2>5. timer # 1 /\ timer' = timer - 1
    <3>1. timer # 1
      BY <1>8, Zenon DEF Tick
    <3>2. timer' = timer - 1
      BY <1>8, <2>3, <2>4 DEF Tick
    <3>3. QED
      BY <3>1, <3>2
  <2>6. cache'.age = cache.age + 1
    BY <2>2, <2>3, <2>4 DEF Older
  <2>7. QED
    BY <2>3, <2>4, <2>5, <2>6
<1>9. CASE FailCheck
  BY <1>9 DEF FailCheck, Timed
<1>10. CASE FailPass
  BY <1>10 DEF FailPass, Timed
<1>11. CASE Restart
  BY <1>11 DEF Restart, Timed, Deployed, Live
<1>12. ASSUME NEW db \in DBs, NEW n \in 0..2, ChangeLeaders(db, n)
       PROVE  Timed'
  BY <1>12 DEF ChangeLeaders, Timed
<1>13. ASSUME NEW db \in DBs, ChangeHealth(db)
       PROVE  Timed'
  BY <1>13 DEF ChangeHealth, Timed
<1>14. ASSUME NEW M \in SUBSET (Nodes \ Addressless), RelabelNodes(M)
       PROVE  Timed'
  BY <1>14 DEF RelabelNodes, Timed
<1>15. CASE DeleteConfig \/ Released \/ CreateConfig
  BY <1>15 DEF DeleteConfig, Released, CreateConfig, Write, Timed
<1>16. CASE UNCHANGED vars
  BY <1>16 DEF vars, Timed
<1>17. QED
  BY <1>1, <1>2, <1>3, <1>4, <1>5, <1>6, <1>7, <1>8, <1>9, <1>10, <1>11, <1>12, <1>13,
     <1>14, <1>15, <1>16 DEF Next

(***************************************************************************)
(* healthcheck_controller.go:62, 77: whenever nothing is left to do for a  *)
(* deployed Configuration the requeue timer runs, and ends before the      *)
(* report is two intervals old.  No pass of the configuration controller,  *)
(* no failed request, no restart and no deletion breaks the chain.         *)
(***************************************************************************)
THEOREM TimerKeepsRunning == Spec => []TimerRunning
<1> DEFINE Inv == TypeOK /\ Synced /\ Timed
<1>1. Init => Inv
  <2> SUFFICES ASSUME Init PROVE Inv
    OBVIOUS
  <2>1. ~Deployed(cache.c)
    BY NewConfigType DEF Init
  <2>2. QED
    BY <2>1, TypeInit DEF Init, Synced, Timed
<1>2. Inv /\ [Next]_vars => Inv'
  BY TypeStep, SyncedStep, TimedStep
<1>3. Inv => TimerRunning
  BY DEF Synced, Timed, TimerRunning, Quiet
<1>4. QED
  BY <1>1, <1>2, <1>3, PTL DEF Spec

----------------------------------------------------------------------------
(* What the copies say.                                                    *)

(* The health check never changes the status in its copy. *)
LEMMA StatusKeptStep ==
    ASSUME TypeOK, StatusKept, [Next]_vars
    PROVE  StatusKept'
<1> USE FramesDiffer DEF databases, healthVars, StatusKept
<1>1. CASE ReconcileNothing \/ ReconcileNotNeeded \/ ReconcileNeeded
  BY <1>1 DEF ReconcileNothing, ReconcileNotNeeded, ReconcileNeeded
<1>2. CASE Check
  <2>1. CASE podListNB
    BY <2>1, PodLists DEF Moved
  <2>2. CASE podListSB
    BY <2>2, PodLists DEF Moved
  <2>3. CASE checkNB
    BY <2>3, StatusChecks DEF checkNB, DBs, Steps, Moved
  <2>4. CASE checkSB
    BY <2>4, StatusChecks DEF checkSB, DBs, Steps, Moved
  <2>5. CASE PatchConditions
    BY <2>5 DEF PatchConditions
  <2>6. QED
    BY <1>2, <2>1, <2>2, <2>3, <2>4, <2>5 DEF Check
<1>3. CASE ReconcileConfiguration \/ PatchStatus
  BY <1>3 DEF ReconcileConfiguration, PatchStatus
<1>4. CASE Deliver \/ FailCheck \/ FailPass \/ Restart
  BY <1>4 DEF Deliver, FailCheck, FailPass, Restart
<1>5. ASSUME NEW resync \in BOOLEAN, Tick(resync)
      PROVE  StatusKept'
  BY <1>5 DEF Tick
<1>6. ASSUME NEW db \in DBs, NEW n \in 0..2, ChangeLeaders(db, n)
      PROVE  StatusKept'
  BY <1>6 DEF ChangeLeaders
<1>7. ASSUME NEW db \in DBs, ChangeHealth(db)
      PROVE  StatusKept'
  BY <1>7 DEF ChangeHealth
<1>8. ASSUME NEW M \in SUBSET (Nodes \ Addressless), RelabelNodes(M)
      PROVE  StatusKept'
  BY <1>8 DEF RelabelNodes
<1>9. CASE DeleteConfig \/ Released \/ CreateConfig
  BY <1>9 DEF DeleteConfig, Released, CreateConfig, Write
<1>10. CASE UNCHANGED vars
  BY <1>10 DEF vars
<1>11. QED
  BY <1>1, <1>2, <1>3, <1>4, <1>5, <1>6, <1>7, <1>8, <1>9, <1>10 DEF Next

(* The steps that leave the stored object, its copy and the pass alone. *)
Elsewhere ==
    \/ ReconcileNothing /\ UNCHANGED <<cq, pass, masters, since, budget>>
    \/ ReconcileNotNeeded /\ UNCHANGED <<cq, pass, masters, since, budget>>
    \/ ReconcileNeeded /\ UNCHANGED <<cq, pass, masters, since, budget>>
    \/ Check /\ ~PatchConditions /\ UNCHANGED <<cq, pass, masters, since, budget>>
    \/ FailCheck
    \/ \E M \in SUBSET (Nodes \ Addressless) : RelabelNodes(M)
    \/ UNCHANGED vars

DatabaseChange ==
    \/ \E db \in DBs, n \in 0..2 : ChangeLeaders(db, n)
    \/ \E db \in DBs : ChangeHealth(db)

ObjectWritten == DeleteConfig \/ Released \/ CreateConfig

(* The cases that matter to the copies. *)
LEMMA Cases ==
    ASSUME [Next]_vars
    PROVE  \/ Elsewhere \/ DatabaseChange \/ ObjectWritten
           \/ PatchConditions /\ UNCHANGED <<cq, pass, masters, since, budget>>
           \/ ReconcileConfiguration \/ PatchStatus \/ Deliver
           \/ \E resync \in BOOLEAN : Tick(resync)
           \/ FailPass \/ Restart
BY DEF Next, Elsewhere, DatabaseChange, ObjectWritten

LEMMA ElsewhereFrame ==
    ASSUME Elsewhere
    PROVE  UNCHANGED <<config, pending, cache, leaders, ok, cq, pass, since>>
<1> USE DEF databases, healthVars
<1>1. CASE ReconcileNothing /\ UNCHANGED <<cq, pass, masters, since, budget>>
  BY <1>1 DEF ReconcileNothing
<1>2. CASE ReconcileNotNeeded /\ UNCHANGED <<cq, pass, masters, since, budget>>
  BY <1>2 DEF ReconcileNotNeeded
<1>3. CASE ReconcileNeeded /\ UNCHANGED <<cq, pass, masters, since, budget>>
  BY <1>3 DEF ReconcileNeeded
<1>4. CASE Check /\ ~PatchConditions /\ UNCHANGED <<cq, pass, masters, since, budget>>
  BY <1>4 DEF Check, podListNB, podListSB, checkNB, checkSB
<1>5. CASE FailCheck
  BY <1>5 DEF FailCheck
<1>6. CASE \E M \in SUBSET (Nodes \ Addressless) : RelabelNodes(M)
  BY <1>6 DEF RelabelNodes
<1>7. CASE UNCHANGED vars
  BY <1>7 DEF vars
<1>8. QED
  BY <1>1, <1>2, <1>3, <1>4, <1>5, <1>6, <1>7 DEF Elsewhere

LEMMA DatabaseChangeFrame ==
    ASSUME DatabaseChange
    PROVE  UNCHANGED <<config, pending, cache, call, cq, pass>> /\ since' = 0
BY DEF DatabaseChange, ChangeLeaders, ChangeHealth

(* An object that was deleted, released or created is not deployed. *)
LEMMA ObjectWrittenFrame ==
    ASSUME TypeOK, ObjectWritten
    PROVE  /\ UNCHANGED <<cache, call, leaders, ok, cq, pass, since>>
           /\ pending'
           /\ ~Deployed(config'.c)
<1> USE DEF databases, Write
<1>1. /\ UNCHANGED <<cache, call, leaders, ok, cq, pass, since>>
      /\ pending'
  BY DEF ObjectWritten, DeleteConfig, Released, CreateConfig
<1>2. CASE DeleteConfig
  <2>1. config'.c = RequestDeletion(config.c, FALSE)
    BY <1>2 DEF DeleteConfig, TypeOK, Copy
  <2>2. config.c \in ConfigurationObject
    BY DEF TypeOK, Copy
  <2>3. ~Live(RequestDeletion(config.c, FALSE))
    <3> DEFINE d == [config.c EXCEPT !.deleting = TRUE, !.held = @ \/ FALSE]
    <3>1. d.deleting = TRUE
      BY <2>2 DEF ConfigurationObject
    <3>2. Gone(d).exists = FALSE
      BY DEF Gone, Fresh
    <3>3. RequestDeletion(config.c, FALSE) \in {d, Gone(d)}
      BY DEF RequestDeletion, Settle
    <3> HIDE DEF d
    <3>4. QED
      BY <3>1, <3>2, <3>3 DEF Live
  <2>4. QED
    BY <1>1, <2>1, <2>3 DEF Deployed
<1>3. CASE Released
  <2>1. config'.c = Gone(config.c)
    BY <1>3 DEF Released, TypeOK, Copy
  <2>2. Gone(config.c).exists = FALSE
    BY DEF Gone, Fresh
  <2>3. QED
    BY <1>1, <2>1, <2>2 DEF Deployed, Live
<1>4. CASE CreateConfig
  BY <1>1, <1>4, NewConfigType DEF CreateConfig
<1>5. QED
  BY <1>2, <1>3, <1>4 DEF ObjectWritten

(* A pass that nobody asked to repeat works on the current copy. *)
LEMMA CurrentStep ==
    ASSUME TypeOK, Current, [Next]_vars
    PROVE  Current'
<1> USE DEF databases, healthVars, Current
<1>1. CASE Elsewhere
  BY <1>1, ElsewhereFrame
<1>2. CASE DatabaseChange
  BY <1>2, DatabaseChangeFrame
<1>3. CASE ObjectWritten
  BY <1>3, ObjectWrittenFrame
<1>4. CASE PatchConditions /\ UNCHANGED <<cq, pass, masters, since, budget>>
  <2>1. cache' = cache /\ (pending' = TRUE \/ pending' = pending)
    BY <1>4 DEF PatchConditions
  <2>2. QED
    BY <1>4, <2>1
<1>5. CASE ReconcileConfiguration
  <2>1. CASE Live(cache.c)
    <3>1. pass'.obj = cache
      BY <1>5, <2>1, PassType
    <3>2. QED
      BY <1>5, <3>1 DEF ReconcileConfiguration
  <2>2. CASE ~Live(cache.c)
    BY <1>5, <2>2 DEF ReconcileConfiguration
  <2>3. QED
    BY <2>1, <2>2
<1>6. CASE PatchStatus \/ FailPass \/ Restart
  BY <1>6 DEF PatchStatus, FailPass, Restart
<1>7. CASE Deliver
  BY <1>7 DEF Deliver
<1>8. ASSUME NEW resync \in BOOLEAN, Tick(resync)
      PROVE  Current'
  BY <1>8 DEF Tick, Quiet
<1>9. QED
  BY <1>1, <1>2, <1>3, <1>4, <1>5, <1>6, <1>7, <1>8, Cases

(* A pass finds its conditions complete or completes them. *)
LEMMA InitialisedStep ==
    ASSUME TypeOK, Synced, Current, Initialised, [Next]_vars
    PROVE  Initialised'
<1> USE DEF databases, healthVars
<1>1. CASE Elsewhere
  BY <1>1, ElsewhereFrame DEF Initialised
<1>2. CASE DatabaseChange
  BY <1>2, DatabaseChangeFrame DEF Initialised
<1>3. CASE ObjectWritten
  BY <1>3, ObjectWrittenFrame DEF Initialised
<1>4. CASE PatchConditions /\ UNCHANGED <<cq, pass, masters, since, budget>>
  <2>1. cache' = cache /\ (pending' = TRUE \/ pending' = pending)
    BY <1>4 DEF PatchConditions
  <2>2. QED
    BY <1>4, <2>1 DEF Initialised
<1>5. CASE ReconcileConfiguration
  <2>1. CASE Live(cache.c)
    <3>1. pass' \in Pass /\ pass'.obj = cache /\ (~pass'.touched => HasNB(cache.c))
      BY <1>5, <2>1, PassType
    <3>2. OVNNBLeaderFound \in ConditionTypes \ {WaitingForMatchignNodes}
      BY DEF ConditionTypes, OVNNBLeaderFound, WaitingForMatchignNodes
    <3>3. pass'.cfg.c.conds[OVNNBLeaderFound] # "Absent"
      BY <1>5, <2>1, <3>2, PassType
    <3>4. pass' # NoPass
      BY <3>1, FramesDiffer
    <3>5. QED
      BY <2>1, <3>1, <3>3, <3>4 DEF Initialised, HasNB
  <2>2. CASE ~Live(cache.c)
    BY <1>5, <2>2 DEF ReconcileConfiguration, Initialised
  <2>3. QED
    BY <2>1, <2>2
<1>6. CASE PatchStatus
  <2>1. pass # NoPass /\ pass' = NoPass /\ cache' = cache
    BY <1>6 DEF PatchStatus
  <2>2. ~pending' /\ ~cq' => ~pass.touched /\ ~pending /\ ~cq
    BY <1>6 DEF PatchStatus
  <2>3. QED
    BY <2>1, <2>2 DEF Initialised, Current
<1>7. CASE Deliver
  BY <1>7 DEF Deliver, Initialised
<1>8. ASSUME NEW resync \in BOOLEAN, Tick(resync)
      PROVE  Initialised'
  <2>1. /\ pass = NoPass /\ pass' = NoPass /\ ~pending /\ ~cq
        /\ cache = config
    BY <1>8 DEF Tick, Quiet, Synced
  <2>2. cache'.c = cache.c
    BY <1>8, <2>1 DEF Tick, TypeOK, Copy
  <2>3. QED
    BY <2>1, <2>2 DEF Initialised
<1>9. CASE FailPass
  BY <1>9 DEF FailPass, Initialised
<1>10. CASE Restart
  BY <1>10 DEF Restart, Initialised, Live
<1>11. QED
  BY <1>1, <1>2, <1>3, <1>4, <1>5, <1>6, <1>7, <1>8, <1>9, <1>10, Cases

(* What PatchStatus leaves: the status says Deployed anew only when the    *)
(* clock starts again.                                                     *)
LEMMA PatchStatusFrame ==
    ASSUME TypeOK, PatchStatus
    PROVE  /\ pass \in Pass /\ pass' = NoPass
           /\ UNCHANGED <<cache, call, leaders, ok>>
           /\ since' \in {0, since}
           /\ \/ UNCHANGED config
              \/ config' = Patched(pass.obj, pass.cfg, pass.touched)
           /\ Deployed(config'.c) /\ ~Deployed(config.c) => since' = 0
<1>1. /\ pass \in Pass /\ pass' = NoPass
      /\ UNCHANGED <<cache, call, leaders, ok>>
      /\ since' \in {0, since}
  BY DEF PatchStatus, TypeOK, databases
<1>2. \/ UNCHANGED config
      \/ config' = Patched(pass.obj, pass.cfg, pass.touched)
  BY DEF PatchStatus
<1>3. pass.obj \in Copy /\ pass.cfg \in Copy /\ pass.touched \in BOOLEAN
  BY <1>1 DEF Pass
<1>4. ASSUME Deployed(config'.c), ~Deployed(config.c)
      PROVE  since' = 0
  <2>1. config' = Patched(pass.obj, pass.cfg, pass.touched)
    BY <1>2, <1>4
  <2>2. /\ Live(config'.c) = Live(config.c)
        /\ config'.c.status = (IF pass.cfg.c.status # pass.obj.c.status
                                 THEN pass.cfg.c.status ELSE config.c.status)
    BY <1>3, <2>1, PatchedType DEF TypeOK
  <2>3. pass.cfg.c.status # pass.obj.c.status
    BY <1>4, <2>2 DEF Deployed
  <2>4. QED
    BY <1>4, <2>3 DEF PatchStatus
<1>5. QED
  BY <1>1, <1>2, <1>4

(* The health check's patch writes conditions only. *)
LEMMA PatchConditionsFrame ==
    ASSUME TypeOK, StatusKept, PatchConditions
    PROVE  /\ call \in Call /\ call.pc = "patch" /\ call' = Idle
           /\ UNCHANGED <<cache, leaders, ok>>
           /\ \/ UNCHANGED config
              \/ config'.c.conds = call.cfg.c.conds /\ config'.age = call.cfg.age
           /\ Deployed(config'.c) = Deployed(config.c)
<1>1. call \in Call /\ call.pc = "patch" /\ call.cfg \in Copy /\ call.obj \in Copy
  BY AtStep DEF PatchConditions, Steps
<1>2. call.cfg.c.status = call.obj.c.status
  BY <1>1, FramesDiffer DEF StatusKept
<1>3. /\ \/ UNCHANGED config
         \/ config' = Patched(call.obj, call.cfg, TRUE)
      /\ call' = Idle /\ UNCHANGED <<cache, leaders, ok>>
  BY DEF PatchConditions, databases
<1>4. CASE UNCHANGED config
  BY <1>1, <1>3, <1>4
<1>5. CASE config' = Patched(call.obj, call.cfg, TRUE)
  <2>1. /\ Live(config'.c) = Live(config.c)
        /\ config'.c.conds = call.cfg.c.conds
        /\ config'.age = call.cfg.age
        /\ config'.c.status = config.c.status
    BY <1>1, <1>2, <1>5, PatchedType DEF TypeOK
  <2>2. Deployed(config'.c) = Deployed(config.c)
    BY <2>1 DEF Deployed
  <2>3. QED
    BY <1>1, <1>3, <2>1, <2>2
<1>6. QED
  BY <1>3, <1>4, <1>5

(* A deployment that a copy does not show yet happened in this tick. *)
LEMMA NoNewsStep ==
    ASSUME TypeOK, Synced, StatusKept, NoNews, [Next]_vars
    PROVE  NoNews'
<1> USE DEF databases, healthVars
<1>1. CASE Elsewhere
  BY <1>1, ElsewhereFrame DEF NoNews
<1>2. CASE DatabaseChange
  BY <1>2, DatabaseChangeFrame DEF NoNews
<1>3. CASE ObjectWritten
  BY <1>3, ObjectWrittenFrame DEF NoNews
<1>4. CASE PatchConditions /\ UNCHANGED <<cq, pass, masters, since, budget>>
  BY <1>4, PatchConditionsFrame DEF NoNews
<1>5. CASE ReconcileConfiguration
  <2>1. UNCHANGED <<config, cache, since>>
    BY <1>5 DEF ReconcileConfiguration
  <2>2. CASE Live(cache.c)
    <3>1. pass'.obj = cache
      BY <1>5, <2>2, PassType
    <3>2. QED
      BY <2>1, <3>1 DEF NoNews
  <2>3. CASE ~Live(cache.c)
    BY <1>5, <2>1, <2>3 DEF ReconcileConfiguration, NoNews
  <2>4. QED
    BY <2>2, <2>3
<1>6. CASE PatchStatus
  BY <1>6, PatchStatusFrame DEF NoNews
<1>7. CASE Deliver
  BY <1>7 DEF Deliver, NoNews
<1>8. ASSUME NEW resync \in BOOLEAN, Tick(resync)
      PROVE  NoNews'
  BY <1>8 DEF Tick, Quiet, NoNews
<1>9. CASE FailPass
  BY <1>9 DEF FailPass, NoNews
<1>10. CASE Restart
  BY <1>10 DEF Restart, NoNews
<1>11. QED
  BY <1>1, <1>2, <1>3, <1>4, <1>5, <1>6, <1>7, <1>8, <1>9, <1>10, Cases

----------------------------------------------------------------------------
(* The running check.                                                      *)

(* Every step of the check adds a true condition and keeps the others. *)
LEMMA CheckAccurateStep ==
    ASSUME TypeOK, CheckAccurate, [Next]_vars
    PROVE  CheckAccurate'
<1> USE FramesDiffer DEF databases, healthVars
<1>1. CASE call' = Idle
  BY <1>1 DEF CheckAccurate, After
<1>2. CASE UNCHANGED <<call, leaders, ok, since>>
  BY <1>2 DEF CheckAccurate, After, FoundSoFar, HealthSoFar, HealthReported, NoScriptRuns, HasNB
<1>3. CASE DatabaseChange
  <2>1. call' = call /\ since' = 0 /\ ~(since' > 0)
    BY <1>3, DatabaseChangeFrame
  <2>2. QED
    BY <2>1 DEF CheckAccurate, After, HasNB
<1>4. CASE ReconcileNeeded
  <2>1. call'.pc = "nbPods"
    BY <1>4 DEF ReconcileNeeded
  <2>2. QED
    BY <2>1 DEF CheckAccurate, After
<1>5. CASE Check /\ UNCHANGED <<cq, pass, masters, since, budget>>
  <2> USE ConditionsDiffer, ToStatusType DEF DBs
  <2>0. /\ leaders["nb"] \in 0..2 /\ leaders["sb"] \in 0..2
        /\ since' = since
    BY <1>5 DEF TypeOK
  <2>1. CASE podListNB
    <3>1. Moved("nbPods", "sbPods") /\ Wrote(LeaderFound["nb"], leaders["nb"] > 0)
          /\ call'.cfg.age = 0 /\ leaders' = leaders
      BY <2>1, PodLists DEF podListNB
    <3>2. HasNB(call'.cfg.c) /\ FoundSoFar("nb")'
      <4>1. call'.cfg.c.conds[LeaderFound["nb"]] = ToStatus(leaders["nb"] > 0)
        BY <3>1 DEF Wrote
      <4>2. ToStatus(leaders["nb"] > 0) # "Absent"
        BY DEF ToStatus
      <4>3. QED
        BY <3>1, <4>1, <4>2 DEF HasNB, FoundSoFar
    <3>3. QED
      BY <3>1, <3>2 DEF CheckAccurate, After, Moved
  <2>2. CASE podListSB
    <3>1. Moved("sbPods", "nbCheck") /\ Wrote(LeaderFound["sb"], leaders["sb"] > 0)
          /\ call'.cfg.age = call.cfg.age /\ leaders' = leaders
      BY <2>2, PodLists DEF podListSB
    <3>2. call.cfg.age = 0 /\ HasNB(call.cfg.c) /\ (since > 0 => FoundSoFar("nb"))
      BY <3>1 DEF CheckAccurate, After, Moved
    <3>3. call'.cfg.c.conds[LeaderFound["nb"]] = call.cfg.c.conds[LeaderFound["nb"]]
      BY <3>1 DEF Wrote
    <3>4. HasNB(call'.cfg.c) /\ (since > 0 => FoundSoFar("nb")')
      BY <3>1, <3>2, <3>3 DEF HasNB, FoundSoFar
    <3>5. FoundSoFar("sb")'
      BY <3>1 DEF Wrote, FoundSoFar
    <3>6. QED
      BY <2>0, <3>1, <3>2, <3>4, <3>5 DEF CheckAccurate, After, Moved
  <2>3. CASE checkNB
    <3>1. /\ Moved("nbCheck", "sbCheck")
          /\ call'.cfg.age = call.cfg.age
          /\ IF call.cfg.c.conds[LeaderFound["nb"]] = "True"
               THEN Wrote(DBHealth["nb"], leaders["sb"] = 1 /\ "nb" \in ok)
               ELSE call'.cfg.c.conds = call.cfg.c.conds
          /\ leaders' = leaders /\ ok' = ok
      BY <2>3, StatusChecks DEF checkNB, Steps
    <3>2. /\ call.cfg.age = 0 /\ HasNB(call.cfg.c)
          /\ since > 0 => FoundSoFar("nb") /\ FoundSoFar("sb")
      BY <3>1 DEF CheckAccurate, After, Moved
    <3>3. \A db \in DBs :
            call'.cfg.c.conds[LeaderFound[db]] = call.cfg.c.conds[LeaderFound[db]]
      BY <3>1 DEF Wrote
    <3>4. /\ HasNB(call'.cfg.c)
          /\ since > 0 => FoundSoFar("nb")' /\ FoundSoFar("sb")'
      BY <3>1, <3>2, <3>3 DEF HasNB, FoundSoFar
    <3>5. since > 0 => HealthSoFar("nb")'
      <4> SUFFICES ASSUME since > 0, leaders["nb"] > 0
                   PROVE  call'.cfg.c.conds[DBHealth["nb"]]
                            = ToStatus(leaders["sb"] = 1 /\ "nb" \in ok)
        BY <3>1 DEF HealthSoFar, HealthReported, NoScriptRuns, ToStatus
      <4>1. call.cfg.c.conds[LeaderFound["nb"]] = "True"
        BY <3>2 DEF FoundSoFar, ToStatus
      <4>2. QED
        BY <3>1, <4>1 DEF Wrote
    <3>6. QED
      BY <2>0, <3>1, <3>2, <3>4, <3>5 DEF CheckAccurate, After, Moved
  <2>4. CASE checkSB
    <3>1. /\ Moved("sbCheck", "patch")
          /\ call'.cfg.age = call.cfg.age
          /\ IF call.cfg.c.conds[LeaderFound["sb"]] = "True"
               THEN Wrote(DBHealth["sb"], leaders["sb"] = 1 /\ "sb" \in ok)
               ELSE call'.cfg.c.conds = call.cfg.c.conds
          /\ leaders' = leaders /\ ok' = ok
      BY <2>4, StatusChecks DEF checkSB, Steps
    <3>2. /\ call.cfg.age = 0 /\ HasNB(call.cfg.c)
          /\ since > 0 => FoundSoFar("nb") /\ FoundSoFar("sb") /\ HealthSoFar("nb")
      BY <3>1 DEF CheckAccurate, After, Moved
    <3>3. /\ \A db \in DBs :
               call'.cfg.c.conds[LeaderFound[db]] = call.cfg.c.conds[LeaderFound[db]]
          /\ call'.cfg.c.conds[DBHealth["nb"]] = call.cfg.c.conds[DBHealth["nb"]]
      BY <3>1 DEF Wrote
    <3>4. /\ HasNB(call'.cfg.c)
          /\ since > 0 => FoundSoFar("nb")' /\ FoundSoFar("sb")' /\ HealthSoFar("nb")'
      BY <3>1, <3>2, <3>3 DEF HasNB, FoundSoFar, HealthSoFar, HealthReported, NoScriptRuns
    <3>5. since > 0 => HealthSoFar("sb")'
      <4> SUFFICES ASSUME since > 0, leaders["sb"] > 0
                   PROVE  call'.cfg.c.conds[DBHealth["sb"]]
                            = ToStatus(leaders["sb"] = 1 /\ "sb" \in ok)
        BY <3>1 DEF HealthSoFar, HealthReported, NoScriptRuns, ToStatus
      <4>1. call.cfg.c.conds[LeaderFound["sb"]] = "True"
        BY <3>2 DEF FoundSoFar, ToStatus
      <4>2. QED
        BY <3>1, <4>1 DEF Wrote
    <3>6. QED
      BY <2>0, <3>1, <3>2, <3>4, <3>5 DEF CheckAccurate, After, Moved
  <2>5. CASE PatchConditions
    BY <1>1, <2>5 DEF PatchConditions
  <2>6. QED
    BY <1>5, <2>1, <2>2, <2>3, <2>4, <2>5 DEF Check
<1>6. CASE PatchStatus
  <2>1. UNCHANGED <<call, leaders, ok>> /\ since' \in {0, since}
    BY <1>6, PatchStatusFrame
  <2>2. CASE since' = since
    BY <1>2, <2>1, <2>2
  <2>3. CASE since' = 0
    <3>1. ~(since' > 0)
      BY <2>3
    <3>2. QED
      BY <2>1, <3>1 DEF CheckAccurate, After, HasNB
  <2>4. QED
    BY <2>1, <2>2, <2>3
<1>7. ASSUME NEW resync \in BOOLEAN, Tick(resync)
      PROVE  CheckAccurate'
  BY <1>1, <1>7 DEF Tick, Quiet
<1>8. CASE ReconcileNothing /\ UNCHANGED <<cq, pass, masters, since, budget>>
  BY <1>2, <1>8 DEF ReconcileNothing
<1>9. CASE ReconcileNotNeeded /\ UNCHANGED <<cq, pass, masters, since, budget>>
  BY <1>2, <1>9 DEF ReconcileNotNeeded
<1>10. CASE ReconcileConfiguration \/ Deliver \/ FailPass
  BY <1>2, <1>10 DEF ReconcileConfiguration, Deliver, FailPass
<1>11. CASE FailCheck \/ Restart
  BY <1>1, <1>11 DEF FailCheck, Restart
<1>12. ASSUME NEW M \in SUBSET (Nodes \ Addressless), RelabelNodes(M)
       PROVE  CheckAccurate'
  BY <1>2, <1>12 DEF RelabelNodes
<1>13. CASE ObjectWritten
  BY <1>2, <1>13, ObjectWrittenFrame
<1>14. CASE UNCHANGED vars
  BY <1>2, <1>14 DEF vars
<1>15. QED
  BY <1>3, <1>4, <1>5, <1>6, <1>7, <1>8, <1>9, <1>10, <1>11, <1>12, <1>13, <1>14
     DEF Next, DatabaseChange, ObjectWritten

----------------------------------------------------------------------------
(* The reports.                                                            *)

(* A copy keeps its promise while nothing it speaks of changes. *)
Promise(copy) == Accurate(copy) /\ Missing(copy)

LEMMA PromiseFrame ==
    ASSUME UNCHANGED <<config, leaders, ok, since>>, Promise(config)
    PROVE  Promise(config)'
BY DEF Promise, Accurate, Missing, Truthful, HealthReported, NoScriptRuns, HasNB

(* Two ages that grow together keep their order. *)
LEMMA OlderOrder ==
    ASSUME NEW a \in Ages, NEW b \in Ages, Older(a) > Older(b)
    PROVE  a > b
BY IntervalAssumption DEF Ages, Older

(* The stored object. *)
LEMMA ConfigStep ==
    ASSUME IInv, [Next]_vars
    PROVE  Promise(config)'
<1> USE DEF databases, healthVars
<1>0. TypeOK /\ Promise(config) /\ StatusKept
  BY DEF IInv, Reports, Promise
<1>a. CASE UNCHANGED <<config, leaders, ok, since>>
  BY <1>0, <1>a, PromiseFrame
<1>1. CASE Elsewhere
  BY <1>1, <1>a, ElsewhereFrame
<1>2. CASE DatabaseChange
  <2>1. config' = config /\ since' = 0 /\ config.age \in Nat
    BY <1>0, <1>2, DatabaseChangeFrame DEF TypeOK, Copy, Ages
  <2>2. ~(since' > config'.age)
    BY <2>1
  <2>3. QED
    BY <2>1, <2>2 DEF Promise, Accurate, Missing
<1>3. CASE ObjectWritten
  BY <1>0, <1>3, ObjectWrittenFrame DEF Promise, Accurate, Missing
<1>4. CASE PatchConditions /\ UNCHANGED <<cq, pass, masters, since, budget>>
  <2>1. /\ call \in Call /\ call.pc = "patch" /\ UNCHANGED <<leaders, ok, since>>
        /\ \/ UNCHANGED config
           \/ config'.c.conds = call.cfg.c.conds /\ config'.age = call.cfg.age
    BY <1>0, <1>4, PatchConditionsFrame
  <2>2. CASE config'.c.conds = call.cfg.c.conds /\ config'.age = call.cfg.age
    <3>1. /\ call.cfg.age = 0 /\ HasNB(call.cfg.c)
          /\ since > 0 => /\ FoundSoFar("nb") /\ FoundSoFar("sb")
                          /\ HealthSoFar("nb") /\ HealthSoFar("sb")
      BY <2>1, FramesDiffer DEF IInv, Reports, CheckAccurate, After
    <3>2. HasNB(config'.c) /\ (since > 0 => Truthful(config.c)')
      BY <2>1, <2>2, <3>1 DEF HasNB, Truthful, HealthReported, NoScriptRuns, FoundSoFar,
         HealthSoFar, DBs
    <3>3. QED
      BY <2>1, <2>2, <3>1, <3>2 DEF Promise, Accurate, Missing
  <2>3. QED
    BY <1>a, <2>1, <2>2
<1>5. CASE ReconcileConfiguration
  BY <1>5, <1>a DEF ReconcileConfiguration
<1>6. CASE PatchStatus
  <2>1. /\ pass \in Pass /\ UNCHANGED <<leaders, ok>> /\ since' \in {0, since}
        /\ \/ UNCHANGED config
           \/ config' = Patched(pass.obj, pass.cfg, pass.touched)
        /\ Deployed(config'.c) /\ ~Deployed(config.c) => since' = 0
    BY <1>0, <1>6, PatchStatusFrame
  <2>2. TypeOK'
    BY <1>0, TypeStep
  <2>3. CASE since' = 0
    <3>1. config'.age \in Nat
      BY <2>2 DEF TypeOK, Copy, Ages
    <3>2. ~(since' > config'.age)
      BY <2>3, <3>1
    <3>3. QED
      BY <2>3, <3>2 DEF Promise, Accurate, Missing
  <2>4. CASE since' # 0 /\ config' = Patched(pass.obj, pass.cfg, pass.touched)
    <3>1. pass.obj \in Copy /\ pass.cfg \in Copy /\ pass.touched \in BOOLEAN /\ pass # NoPass
      BY <2>1, FramesDiffer DEF Pass
    <3>2. /\ config'.c.conds = (IF pass.touched THEN pass.cfg.c.conds ELSE config.c.conds)
          /\ config'.age = (IF pass.touched THEN pass.cfg.age ELSE config.age)
      BY <1>0, <2>4, <3>1, PatchedType DEF TypeOK
    <3>3. CASE pass.touched
      <4>1. HasNB(config'.c)
        BY <3>1, <3>2, <3>3 DEF IInv, Initialised, HasNB
      <4>2. ASSUME Deployed(config'.c), since' > config'.age
            PROVE  Truthful(config.c)'
        <5>1. Deployed(config.c) /\ since' = since
          BY <2>1, <2>4, <4>2
        <5>2. Deployed(pass.obj.c)
          BY <2>4, <3>1, <5>1 DEF IInv, NoNews
        <5>3. Truthful(pass.cfg.c)
          BY <3>1, <3>2, <3>3, <4>2, <5>1, <5>2 DEF IInv, Reports, PassAccurate
        <5>4. QED
          BY <2>1, <3>2, <3>3, <5>3 DEF Truthful, HealthReported, NoScriptRuns
      <4>3. QED
        BY <4>1, <4>2 DEF Promise, Accurate, Missing
    <3>4. CASE ~pass.touched
      <4>1. config'.c.conds = config.c.conds /\ config'.age = config.age /\ since' = since
        BY <2>1, <2>4, <3>2, <3>4
      <4>2. Deployed(config'.c) => Deployed(config.c)
        BY <2>1, <2>4
      <4>3. QED
        BY <1>0, <2>1, <4>1, <4>2
        DEF Promise, Accurate, Missing, Truthful, HealthReported, NoScriptRuns, HasNB
    <3>5. QED
      BY <3>1, <3>3, <3>4
  <2>5. QED
    BY <1>a, <2>1, <2>3, <2>4
<1>7. CASE Deliver
  BY <1>7, <1>a DEF Deliver
<1>8. ASSUME NEW resync \in BOOLEAN, Tick(resync)
      PROVE  Promise(config)'
  <2>1. /\ config'.c = config.c /\ config'.age = Older(config.age)
        /\ since' = Older(since) /\ UNCHANGED <<leaders, ok>>
    BY <1>0, <1>8 DEF Tick, TypeOK, Copy
  <2>2. config.age \in Ages /\ since \in Ages
    BY <1>0 DEF TypeOK, Copy
  <2>3. since' > config'.age => since > config.age
    BY <2>1, <2>2, OlderOrder
  <2>4. Accurate(config)'
    BY <1>0, <2>1, <2>3 DEF Promise, Accurate, Truthful, HealthReported, NoScriptRuns, HasNB
  <2>5. Deployed(config.c) => HasNB(config.c)
    BY <1>8 DEF Tick, Quiet, IInv, Synced, Initialised, Deployed
  <2>6. QED
    BY <2>1, <2>4, <2>5 DEF Promise, Missing, HasNB
<1>9. CASE FailPass \/ Restart
  BY <1>9, <1>a DEF FailPass, Restart
<1>10. QED
  BY <1>1, <1>2, <1>3, <1>4, <1>5, <1>6, <1>7, <1>8, <1>9, Cases

(* The informer's copy. *)
LEMMA CacheStep ==
    ASSUME IInv, [Next]_vars
    PROVE  Promise(cache)'
<1> USE DEF databases, healthVars
<1>0. TypeOK /\ Promise(cache) /\ StatusKept
  BY DEF IInv, Reports, Promise
<1>a. CASE cache' = config'
  BY <1>a, ConfigStep
  DEF Promise, Accurate, Missing, Truthful, HealthReported, NoScriptRuns, HasNB
<1>b. CASE UNCHANGED <<cache, leaders, ok, since>>
  BY <1>0, <1>b
  DEF Promise, Accurate, Missing, Truthful, HealthReported, NoScriptRuns, HasNB
<1>c. CASE cache' = cache /\ since' = 0
  <2>1. cache'.age \in Nat
    BY <1>0, <1>c DEF TypeOK, Copy, Ages
  <2>2. ~(since' > cache'.age)
    BY <1>c, <2>1
  <2>3. QED
    BY <1>c, <2>2 DEF Promise, Accurate, Missing
<1>1. CASE Elsewhere
  BY <1>1, <1>b, ElsewhereFrame
<1>2. CASE DatabaseChange
  BY <1>2, <1>c, DatabaseChangeFrame
<1>3. CASE ObjectWritten
  BY <1>0, <1>3, <1>b, ObjectWrittenFrame
<1>4. CASE PatchConditions /\ UNCHANGED <<cq, pass, masters, since, budget>>
  BY <1>0, <1>4, <1>b, PatchConditionsFrame
<1>5. CASE ReconcileConfiguration \/ FailPass
  BY <1>5, <1>b DEF ReconcileConfiguration, FailPass
<1>6. CASE PatchStatus
  BY <1>0, <1>6, <1>b, <1>c, PatchStatusFrame
<1>7. CASE Deliver \/ Restart
  BY <1>7, <1>a DEF Deliver, Restart
<1>8. ASSUME NEW resync \in BOOLEAN, Tick(resync)
      PROVE  Promise(cache)'
  BY <1>8, <1>a DEF Tick
<1>9. QED
  BY <1>1, <1>2, <1>3, <1>4, <1>5, <1>6, <1>7, <1>8, Cases

(* The copy of the configuration controller's pass. *)
LEMMA PassStep ==
    ASSUME IInv, [Next]_vars
    PROVE  PassAccurate'
<1> USE DEF databases, healthVars
<1>0. TypeOK /\ PassAccurate /\ StatusKept
  BY DEF IInv, Reports
<1>a. CASE UNCHANGED <<pass, leaders, ok, since>>
  BY <1>0, <1>a
  DEF PassAccurate, Accurate, Missing, Truthful, HealthReported, NoScriptRuns, HasNB
<1>b. CASE pass' = NoPass
  BY <1>b DEF PassAccurate
<1>1. CASE Elsewhere
  BY <1>1, <1>a, ElsewhereFrame
<1>2. CASE DatabaseChange
  <2>1. pass' = pass /\ since' = 0
    BY <1>2, DatabaseChangeFrame
  <2>2. pass # NoPass => pass.obj.age \in Nat /\ pass.cfg.age \in Nat
    BY <1>0 DEF TypeOK, Pass, Copy, Ages
  <2>3. pass # NoPass => ~(since' > pass'.obj.age) /\ ~(since' > pass'.cfg.age)
    BY <2>1, <2>2
  <2>4. QED
    BY <2>1, <2>3 DEF PassAccurate, Accurate, Missing
<1>3. CASE ObjectWritten
  BY <1>0, <1>3, <1>a, ObjectWrittenFrame
<1>4. CASE PatchConditions /\ UNCHANGED <<cq, pass, masters, since, budget>>
  BY <1>0, <1>4, <1>a, PatchConditionsFrame
<1>5. CASE ReconcileConfiguration
  <2>1. UNCHANGED <<leaders, ok, since>>
    BY <1>5 DEF ReconcileConfiguration
  <2>2. CASE ~Live(cache.c)
    BY <1>5, <1>a, <2>1, <2>2 DEF ReconcileConfiguration
  <2>3. CASE Live(cache.c)
    <3>1. /\ pass'.obj = cache
          /\ pass'.cfg.age = (IF HasNB(cache.c) THEN cache.age ELSE 0)
          /\ \A t \in ConditionTypes \ {WaitingForMatchignNodes} :
               pass'.cfg.c.conds[t] = IF cache.c.conds[t] = "Absent" THEN "Unknown"
                                      ELSE cache.c.conds[t]
      BY <1>0, <1>5, <2>3, PassType
    <3>2. Accurate(cache) /\ Missing(cache)
      BY DEF IInv, Reports
    <3>3. ASSUME Deployed(cache.c), since > pass'.cfg.age
          PROVE  Truthful(pass'.cfg.c)
      <4>1. HasNB(cache.c)
        BY <3>1, <3>2, <3>3 DEF Missing
      <4>2. Truthful(cache.c)
        BY <3>1, <3>2, <3>3, <4>1 DEF Accurate
      <4>3. \A db \in DBs :
              /\ pass'.cfg.c.conds[LeaderFound[db]] = cache.c.conds[LeaderFound[db]]
              /\ leaders[db] > 0 =>
                   pass'.cfg.c.conds[DBHealth[db]] = cache.c.conds[DBHealth[db]]
        BY <3>1, <4>2, ConditionsDiffer DEF Truthful, HealthReported, NoScriptRuns, ToStatus
      <4>4. QED
        BY <4>2, <4>3 DEF Truthful, HealthReported, NoScriptRuns
    <3>4. QED
      BY <2>1, <3>1, <3>2, <3>3
      DEF PassAccurate, Accurate, Missing, Truthful, HealthReported, NoScriptRuns, HasNB
  <2>4. QED
    BY <2>2, <2>3
<1>6. CASE PatchStatus \/ FailPass \/ Restart
  BY <1>6, <1>b DEF PatchStatus, FailPass, Restart
<1>7. CASE Deliver
  BY <1>7, <1>a DEF Deliver
<1>8. ASSUME NEW resync \in BOOLEAN, Tick(resync)
      PROVE  PassAccurate'
  BY <1>8, <1>b DEF Tick, Quiet
<1>9. QED
  BY <1>1, <1>2, <1>3, <1>4, <1>5, <1>6, <1>7, <1>8, Cases

(***************************************************************************)
(* reconcileOVNDBHealth and the patch at healthcheck_controller.go:74:     *)
(* when the databases of a deployed Configuration have not changed for two *)
(* intervals, the conditions are true of them.  Neither an older copy that *)
(* the configuration controller writes back, nor a failed request, nor a   *)
(* restart delays that.                                                    *)
(***************************************************************************)
THEOREM ReportsAreTimely == Spec => []ReportedInTime
<1>1. Init => IInv
  <2> SUFFICES ASSUME Init PROVE IInv
    OBVIOUS
  <2>1. TypeOK /\ ~Deployed(config.c) /\ ~Deployed(cache.c)
    BY TypeInit, NewConfigType DEF Init
  <2>2. call = Idle /\ pass = NoPass /\ hq /\ cq /\ cache = config
    BY DEF Init
  <2>3. QED
    BY <2>1, <2>2 DEF IInv, Synced, Timed, StatusKept, Current, Initialised, NoNews,
                      Reports, Accurate, Missing, PassAccurate, CheckAccurate, After
<1>2. IInv /\ [Next]_vars => IInv'
  <2> SUFFICES ASSUME IInv, [Next]_vars PROVE IInv'
    OBVIOUS
  <2>1. TypeOK' /\ Synced' /\ Timed' /\ StatusKept' /\ Current'
    BY TypeStep, SyncedStep, TimedStep, StatusKeptStep, CurrentStep DEF IInv
  <2>2. Initialised' /\ NoNews'
    BY InitialisedStep, NoNewsStep DEF IInv
  <2>3. CheckAccurate'
    BY CheckAccurateStep DEF IInv, Reports
  <2>4. Promise(config)' /\ Promise(cache)' /\ PassAccurate'
    BY ConfigStep, CacheStep, PassStep
  <2>5. QED
    BY <2>1, <2>2, <2>3, <2>4 DEF IInv, Reports, Promise
<1>3. IInv => ReportedInTime
  <2> SUFFICES ASSUME IInv, Quiet, Deployed(config.c), since = 2 * Interval
               PROVE  Truthful(config.c)
    BY DEF ReportedInTime
  <2>1. timer > 0 /\ config.age + timer < 2 * Interval
    BY DEF IInv, Synced, Timed, Quiet
  <2>2. timer \in Nat /\ config.age \in Nat
    BY DEF IInv, TypeOK, Copy, Ages
  <2>3. since > config.age
    BY <2>1, <2>2, IntervalAssumption
  <2>4. QED
    BY <2>3 DEF IInv, Reports, Accurate
<1>4. QED
  BY <1>1, <1>2, <1>3, PTL DEF Spec

=============================================================================
