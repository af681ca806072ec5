------------------------------ MODULE Bootstrap ------------------------------
(***************************************************************************)
(* The bootstrapper (internal/bootstrap/configuration.go) in the processes *)
(* of the operator (cmd/main.go), next to users who create, edit and       *)
(* delete the Configuration, and the defaulting webhook that every create  *)
(* and update passes through (failurePolicy=fail).                         *)
(*                                                                         *)
(* A process runs two managers: one with the webhook server, which starts  *)
(* serving on its own, and one with the controllers and the bootstrapper,  *)
(* which waits for the leader election.  A tick is a second.               *)
(***************************************************************************)
EXTENDS Defaulting, FiniteSets

CONSTANTS
    Processes,       \* the operator's processes
    WebhookDelay,    \* a webhook server serves this soon after its start
    BootstrapSpec,   \* the resources in the bootstrap ConfigMap
    UserSpecs,       \* the resources that users write
    MaxDisturbances  \* bound: faults and requests of users

None == "none"

ASSUME ProcessesAssumption == None \notin Processes
ASSUME BoundsAssumption == WebhookDelay \in Nat /\ MaxDisturbances \in Nat

(* What authors write. *)
ASSUME SpecsAssumption == {BootstrapSpec} \cup UserSpecs \subseteq WrittenSpec

VARIABLES
    proc,       \* the processes
    leader,     \* the process that holds the lease
    config,     \* the Configuration kubeovn
    configMap,  \* what a process finds under the bootstrap ConfigMap's name
    existed,    \* history: there has been a Configuration
    missed,     \* history: a bootstrapper gave up because a request failed
    budget      \* disturbances left

vars == <<proc, leader, config, configMap, existed, missed, budget>>

Steps == 6            \* wait.Backoff of createConfigurationWithRetry
FewerSteps == 5
BackoffSteps == Steps
SteeperDelays == [a \in 1..Steps |-> 10^(a - 1)]
Delays == [a \in 1..Steps |-> 2^(a - 1)]

(***************************************************************************)
(* A process: where its bootstrapper is, whether its webhook serves and    *)
(* its age until then, the informer's copy of the Configuration (there or  *)
(* not), the attempts made and the seconds until the next one.             *)
(***************************************************************************)
Process ==
    [ pc      : {"down", "waiting", "lookup", "map", "create", "done"},
      age     : 0..WebhookDelay,
      serves  : BOOLEAN,
      cached  : BOOLEAN,
      attempt : 0..Steps,
      wait    : 0..(2^Steps) ]

Down ==
    [ pc |-> "down", age |-> 0, serves |-> FALSE, cached |-> FALSE,
      attempt |-> 0, wait |-> 0 ]

Author == {"user", "bootstrap"}

Authored == [author : Author, given : {BootstrapSpec} \cup UserSpecs,
             spec : [ResourceFields -> ResourceSpec]]
NoConfig == [author |-> None]

Exists == config # NoConfig

(* Every variable has its type. *)
TypeOK ==
    /\ proc \in [Processes -> Process]
    /\ leader \in Processes \cup {None}
    /\ config = NoConfig \/ config \in Authored
    /\ configMap \in {"absent", "noKey", "malformed", "valid"}
    /\ existed \in BOOLEAN
    /\ missed \in BOOLEAN
    /\ budget \in Nat

(* Nothing runs; the ConfigMap is the chart's. *)
Init ==
    /\ proc = [p \in Processes |-> Down]
    /\ leader = None
    /\ config = NoConfig
    /\ configMap \in {"absent", "noKey", "malformed", "valid"}
    /\ existed = FALSE
    /\ missed = FALSE
    /\ budget = MaxDisturbances

----------------------------------------------------------------------------
(* The API server.                                                         *)

Serving == \E p \in Processes : proc[p].serves

(* The specs that a create or an update of spec may store. *)
Admission(spec) ==
    IF Serving THEN {ApplyConfigurationDefaults(spec)} ELSE {}

AsWritten(given) == [f \in ResourceFields |-> Structural(f, given[f])]
AsMarshalled(given) == [f \in ResourceFields |-> Marshalled(given[f])]

Store(author, given, spec) ==
    /\ config' = [author |-> author, given |-> given, spec |-> spec]
    /\ existed' = TRUE

----------------------------------------------------------------------------
(* The bootstrapper of process p.                                          *)

Set(p, r) == proc' = [proc EXCEPT ![p] = r]

At(p, pc) == proc[p].pc = pc

(* The manager calls Start once p leads and its informers have listed. *)
Start(p) ==
    /\ At(p, "waiting")
    /\ leader = p
    /\ Set(p, [proc[p] EXCEPT !.pc = "lookup", !.cached = Exists])
    /\ UNCHANGED <<leader, config, configMap, existed, missed, budget>>

lookupConfiguration(p) ==
    /\ At(p, "lookup")
    /\ Set(p, [proc[p] EXCEPT !.pc = IF proc[p].cached THEN "done" ELSE "map"])
    /\ UNCHANGED <<leader, config, configMap, existed, missed, budget>>

(* Without a ConfigMap that parses there is nothing to create. *)
loadConfigMap(p) ==
    /\ At(p, "map")
    /\ Set(p, [proc[p] EXCEPT !.pc = IF configMap = "valid" THEN "create" ELSE "done"])
    /\ UNCHANGED <<leader, config, configMap, existed, missed, budget>>

GiveUpOnError(p) == Set(p, [proc[p] EXCEPT !.pc = "done"])

(* The attempt failed: wait with up to a tenth of jitter, or give up. *)
Retry(p) ==
    LET a == proc[p].attempt + 1
    IN  \/ /\ a = BackoffSteps
           /\ Set(p, [proc[p] EXCEPT !.pc = "done", !.attempt = a])
        \/ /\ a < BackoffSteps
           /\ \E w \in Delays[a]..(Delays[a] + Delays[a] \div 10) :
                Set(p, [proc[p] EXCEPT !.attempt = a, !.wait = w])

CreateOrReplace(p) ==
    /\ At(p, "create")
    /\ proc[p].wait = 0
    /\ \/ /\ Set(p, [proc[p] EXCEPT !.pc = "done"])
          /\ \E s \in Admission(AsMarshalled(BootstrapSpec)) : Store("bootstrap", BootstrapSpec, s)
       \/ /\ Admission(AsMarshalled(BootstrapSpec)) = {}
          /\ Retry(p)
          /\ UNCHANGED <<config, existed>>
    /\ UNCHANGED <<leader, configMap, missed, budget>>

(* AlreadyExists is as good as created; the webhook is asked first. *)
createConfigurationWithRetry(p) ==
    /\ At(p, "create")
    /\ proc[p].wait = 0
    /\ LET admitted == Admission(AsMarshalled(BootstrapSpec))
       IN  \/ /\ admitted = {}
              /\ Retry(p)
              /\ UNCHANGED <<config, existed>>
           \/ /\ admitted # {}
              /\ Exists
              /\ Set(p, [proc[p] EXCEPT !.pc = "done"])
              /\ UNCHANGED <<config, existed>>
           \/ /\ ~Exists
              /\ \E s \in admitted : Store("bootstrap", BootstrapSpec, s)
              /\ Set(p, [proc[p] EXCEPT !.pc = "done"])
    /\ UNCHANGED <<leader, configMap, missed, budget>>

----------------------------------------------------------------------------
(* The processes, time, faults and users.                                  *)

Launch(p) ==
    /\ At(p, "down")
    /\ Set(p, [Down EXCEPT !.pc = "waiting"])
    /\ UNCHANGED <<leader, config, configMap, existed, missed, budget>>

(* The webhook manager needs no lease. *)
Serve(p) ==
    /\ ~At(p, "down")
    /\ ~proc[p].serves
    /\ Set(p, [proc[p] EXCEPT !.serves = TRUE, !.age = 0])
    /\ UNCHANGED <<leader, config, configMap, existed, missed, budget>>

Acquire(p) ==
    /\ At(p, "waiting")
    /\ leader = None
    /\ leader' = p
    /\ UNCHANGED <<proc, config, configMap, existed, missed, budget>>

(* The watch tells a process what is there. *)
Deliver(p) ==
    /\ proc[p].pc \in {"lookup", "map", "create"}
    /\ proc[p].cached # Exists
    /\ Set(p, [proc[p] EXCEPT !.cached = Exists])
    /\ UNCHANGED <<leader, config, configMap, existed, missed, budget>>

Busy(p) ==
    \/ proc[p].pc \in {"lookup", "map"}
    \/ At(p, "create") /\ proc[p].wait = 0
    \/ ~At(p, "down") /\ ~proc[p].serves /\ proc[p].age = WebhookDelay

Tick ==
    /\ \A p \in Processes : ~Busy(p)
    /\ \E p \in Processes :
         ~At(p, "down") /\ (proc[p].wait > 0 \/ ~proc[p].serves)
    /\ proc' = [p \in Processes |->
         IF At(p, "down") THEN proc[p]
           ELSE [proc[p] EXCEPT
                   !.age  = IF proc[p].serves THEN 0 ELSE @ + 1,
                   !.wait = IF @ > 0 THEN @ - 1 ELSE 0]]
    /\ UNCHANGED <<leader, config, configMap, existed, missed, budget>>

Disturb == budget > 0 /\ budget' = budget - 1

(* An error that is not NotFound ends the bootstrap: Start only logs it. *)
LookupFails(p) ==
    /\ Disturb
    /\ proc[p].pc \in {"lookup", "map"}
    /\ Set(p, [proc[p] EXCEPT !.pc = "done"])
    /\ missed' = TRUE
    /\ UNCHANGED <<leader, config, configMap, existed>>

(* The Service hands the webhook call to any pod that runs: readyz is a    *)
(* ping, and one pod's webhook may still be starting while another serves. *)
Misrouted == Serving /\ \E q \in Processes : ~At(q, "down") /\ ~proc[q].serves

(***************************************************************************)
(* Any error but AlreadyExists is retried.  Only the last attempt counts:  *)
(* an error there ends the bootstrap.                                      *)
(***************************************************************************)
CreateFails(p) ==
    /\ Disturb \/ (Misrouted /\ UNCHANGED budget)
    /\ At(p, "create")
    /\ proc[p].wait = 0
    /\ Retry(p)
    /\ missed' = (missed \/ proc[p].attempt + 1 = BackoffSteps)
    /\ UNCHANGED <<leader, config, configMap, existed>>

(* A process dies; its lease runs out. *)
Crash(p) ==
    /\ Disturb
    /\ ~At(p, "down")
    /\ Set(p, Down)
    /\ leader' = IF leader = p THEN None ELSE leader
    /\ UNCHANGED <<config, configMap, existed, missed>>

UserCreates(given) ==
    /\ Disturb
    /\ ~Exists
    /\ \E s \in Admission(AsWritten(given)) : Store("user", given, s)
    /\ UNCHANGED <<proc, leader, configMap, missed>>

UserEdits(given) ==
    /\ Disturb
    /\ Exists
    /\ \E s \in Admission(AsWritten(given)) : Store("user", given, s)
    /\ UNCHANGED <<proc, leader, configMap, missed>>

(* A deletion does not pass through the webhook. *)
UserDeletes ==
    /\ Disturb
    /\ Exists
    /\ config' = NoConfig
    /\ UNCHANGED <<proc, leader, configMap, existed, missed>>

Advance(p) ==
    \/ Start(p) \/ lookupConfiguration(p) \/ loadConfigMap(p)
    \/ createConfigurationWithRetry(p)

Next ==
    \/ \E p \in Processes :
         \/ Advance(p) \/ Launch(p) \/ Serve(p) \/ Acquire(p) \/ Deliver(p)
         \/ LookupFails(p) \/ CreateFails(p) \/ Crash(p)
    \/ Tick
    \/ \E given \in UserSpecs : UserCreates(given) \/ UserEdits(given)
    \/ UserDeletes

Spec == Init /\ [][Next]_vars

(* Processes are started, the lease is taken, time passes, calls return. *)
Fairness ==
    /\ \A p \in Processes :
         /\ WF_vars(Advance(p)) /\ WF_vars(Launch(p)) /\ WF_vars(Acquire(p))
         /\ WF_vars(proc[p].age = WebhookDelay /\ Serve(p))
    /\ WF_vars(Tick)

FairSpec == Spec /\ Fairness

----------------------------------------------------------------------------
(***************************************************************************)
(* createConfigurationWithRetry "handles the case where the webhook server *)
(* is not ready immediately" (configuration.go:136): six attempts outlast  *)
(* a webhook that serves within WebhookDelay, so a valid ConfigMap becomes *)
(* a Configuration unless a lookup or the last create failed (for another  *)
(* reason, or in a pod that has just started), whoever crashes on the way. *)
(***************************************************************************)
Bootstrapped == configMap = "valid" => <>(existed \/ missed)

(***************************************************************************)
(* The safety part of it: no bootstrapper runs out of attempts because no  *)
(* webhook serves (configuration.go:139-144).  The backoffs add up to      *)
(* 31 seconds and more, counted from a moment when the webhook of the same *)
(* process has been starting already.                                      *)
(***************************************************************************)
RetriesSuffice == (\E p \in Processes : proc[p].attempt = BackoffSteps) => missed

(***************************************************************************)
(* The bootstrapper never replaces a Configuration: not one a user created *)
(* after its lookup, nor one that another leader has created               *)
(* (configuration.go:64, 151).                                             *)
(***************************************************************************)
NeverReplaced ==
    [][Exists /\ Exists' /\ config'.author = "bootstrap" => UNCHANGED config]_vars

Fits(r) ==
    /\ \A p \in Parts : \A q \in {"cpu", "memory"} : r[p][q] > 0
    /\ \A q \in {"cpu", "memory"} : r.requests[q] <= r.limits[q]

(* The quantity q of part p, where the author named one. *)
Named(given, p, q) == { v[q] : v \in UNION { r[p] : r \in given } } \ {0}

(***************************************************************************)
(* Whatever way a Configuration came in - written by a user, or by a Go    *)
(* client that sends zeroes and so gets round the schema's defaults - its  *)
(* resources are filled in (configuration_webhook.go:139-174): what the    *)
(* author named is kept, and a workload without any is given requests      *)
(* within its limits.                                                      *)
(***************************************************************************)
StoredIsDefaulted ==
    Exists => \A f \in ResourceFields :
      LET given == config.given[f]
      IN  /\ \A p \in Parts, q \in Quantities :
               Named(given, p, q) \subseteq {config.spec[f][p][q]}
          /\ (\A p \in Parts, q \in Quantities : Named(given, p, q) = {}) => Fits(config.spec[f])

=============================================================================
