# A verification of kubeovn-operator

kubeovn-operator installs kube-ovn into a Kubernetes cluster and removes it
again. A user (or the operator's bootstrapper) creates one `Configuration`
object; the operator renders some hundred manifests from it, applies them, keeps
them in step with the nodes of the cluster, watches the health of the two OVN
databases, and takes everything down when the `Configuration` is deleted. All of
its state lives in the Kubernetes API; between two requests anything may happen,
and what a controller reads comes from an informer's copy that may be old.

This directory holds TLA+ modules that model the operator, TLC configurations
that check them on small instances, and TLAPS proofs for every size.

## Inventory

| Part | State it keeps | Operations | Interacts through |
|---|---|---|---|
| Configuration type (`api/v1/configuration_types.go`) | finalizers, deletion timestamp, conditions, `MatchingNodeAddresses`, `Status` | `SetCondition`, `LookupCondition`, ... | the API server |
| Configuration controller (`internal/controller/configuration_controller.go`) | none of its own; the fake Namespace `kubeovn-owner-namespace`, the managed objects | `Reconcile`: finalizer, conditions, Namespace, addresses, apply, status; `deleteClusterScopedReference` | informers, work queue, server-side apply, owner references |
| Node controller (`node_controller.go`) | finalizer on every node; members of the OVN databases | `Reconcile`, `reconcileNodeDeletion` | Configuration status, scripts in the leader pods |
| Health check (`healthcheck_controller.go`) | four conditions and the time of one of them | `Reconcile` every 300 s | Configuration status, commands in the leader pods |
| Executor, clean-up scripts (`internal/executor`, `templates/cleanup.go`) | - | run a shell script in a pod | node controller, health check |
| Bootstrapper (`internal/bootstrap`) | - | create the default Configuration, six attempts | API server, webhook, leader election |
| Defaulting webhook (`internal/webhook/v1`) | - | `applyDefaults` | every create and update of a Configuration |
| Rendering (`internal/render`) | - | `GenerateObjects`, `generateMasterNodeAffinity` | configuration controller |
| Templates (`internal/templates`) | - | twelve lists of templates by object type | rendering; each other, through names |
| Manager (`cmd/main.go`) | caches, queues, the lease | two managers: controllers and bootstrapper, webhook server | all controllers |

Hard behaviours: stale reads (of the Configuration and of the Namespace); a name
that is deleted and created again while the old incarnation is still going;
crashes, failed requests and lost replies between any two requests of a pass; a
merge patch that replaces a whole list over what another controller wrote;
deletion that must wait for kube-ovn's own finalizers; garbage collection along
owner references; nodes that come, go and change labels while objects are applied;
two controllers that wake each other by patching one status; timers that only a
call renews; objects that are applied in any order and wait for each other; an
admission webhook that is part of the stack it judges; values that are missing
without an error.

What makes the parts correct:

* configuration controller: the fake Namespace never stays without a
  Configuration that will delete it, except where a stale NotFound made a deletion
  overlook it; it is never taken from one that is in use, and goes only after the
  custom resources; `Deployed` is true when it is said; a Configuration left alone
  converges; a deletion ends and leaves nothing, but for the cases the properties name;
* node controller: a node is let go only after its members were removed from
  both databases, as far as the scripts can tell, and is let go in the end; nobody
  else's member goes, as far as an address can tell;
* health check: the chain of timers does not break, conditions tell the truth two
  intervals after a change, and it comes to rest with the configuration controller;
* bootstrapper: a default Configuration is created in the end if the webhook comes
  up in time, and never over one that is there; webhook: what is named is kept and
  the rest filled in, whichever way an object comes;
* rendering and templates: every spec that the schema admits can be rendered, but for
  an empty `masterNodesLabel`; the objects refer to objects that exist; definitions,
  roles and rules agree; the nodes counted and the nodes scheduled on fit; the stack
  comes up in any order.

PROJECT.json lists the hazards line by line.

## Modules

| Module | What it is |
|---|---|
| `Configuration` | the stored object, the condition helpers, `initializeConditions`, and what a delete request, a finalizer patch and a merge patch do to it. No state of its own. |
| `ConfigurationController` | the configuration controller, its client machinery and its state |
| `ConfigurationSystem` | the cluster around it: users, API server, garbage collector, kube-ovn-controller, the operator's other two controllers; the properties; the refinement mapping |
| `StackLifecycle` | abstract specification: the life of a stack and of the anchor its cluster-scoped objects hang on |
| `MCConfigurationSystem` | symmetry for the model checker |
| `ConfigurationSystemProofs` | the TLAPS proofs |
| `NodeController` | the node controller and what its scripts do to the OVN databases |
| `NodeSystem` | nodes, databases, leaders and the configuration controller's writes to the addresses around it; its properties |
| `NodeMembership` | abstract specification: the life of the nodes, their servers and the cleanup between the two |
| `MCNodeSystem` | two nodes for the model checker |
| `NodeSystemProofs` | the TLAPS proofs for `NodeSystem` |
| `ConfigurationProofs` | lemmas about the operators of `Configuration`, for all proofs |
| `HealthCheck` | the health check controller, its timer and the databases it looks at |
| `HealthSystem` | the health check next to the configuration controller's writes to the same status; time; its properties |
| `MCHealthSystem`, `HealthSystemProofs` | one node for the model checker; the TLAPS proofs |
| `Defaulting` | the resources of the spec, the defaults of the schema and the webhook's `applyDefaults` |
| `Bootstrap`, `MCBootstrap` | the operator's processes, the bootstrapper, the webhook on every create and update, users |
| `BootstrapProofs` | the TLAPS proofs for `Bootstrap` and about the defaults |
| `ConfigurationSpec` | the fields of the spec: defaults, what `omitempty` drops, which keys rendering gets |
| `CustomResourceDefinitions` | the 24 definitions |
| `Manifests` | every other template as an operator, and `OrderedObjectList` |
| `Rendering`, `MCRendering` | what a pass renders of any spec an author writes, and what the objects owe each other |
| `RenderingProofs` | the TLAPS proofs for `Rendering`, template by template |
| `Rollout`, `MCRollout` | passes that apply the objects, the pods that wait for each other |
| `RolloutProofs` | the TLAPS proofs for `Rollout` |

`ConfigurationSystem`, `NodeSystem` and `HealthSystem` share `Configuration` and are
checked apart. Each has one controller in full and the others reduced to what they
write: in `ConfigurationSystem` the node controller (`ProtectNode`, `ForgetAddress`,
`ForgetNode`) and the health check (`ReportHealth`), in the other two the
configuration controller (`findMasterNodes`, `PatchStatus`; `ReconcileConfiguration`,
`PatchStatus`). `Rendering` and `Rollout` share `Manifests`; `Rollout` is the loop of
`applyObject` in detail, of which `ConfigurationSystem` has one object of each type.

### How the model corresponds to the code

`call` is the frame of the running `Reconcile` (one worker, as controller-runtime
starts it by default), `call.pc` the place it has reached. Each request to the
API server that can fail or be overtaken is one action:

| `call.pc` | Action | Code |
|---|---|---|
| `idle` | `ReconcileNotFound`, `ReconcileDeletion`, `AddFinalizer`, `ReconcileSteps` (with `initializeConditions`) | `Reconcile` |
| `nsRef` | `reconcileClusterScopedReference` | same name |
| `findNodes` | `findMasterNodes` | same name, `addressArrayEqual`, `nodeInternalIP` |
| `apply`, `object` | `applyObject`, `reconcileObject(t)` | checks before the loop; one step per object, in any order, because a Go map is ranged over |
| `status` | `PatchStatus` | the comparison and the merge patch at the end of `Reconcile` |
| `crds` | `cleanupCR(r)`, `ensureCRDObjectCleanup` | `ensureCRDObjectCleanup` |
| `ns`, `finalizer`, `nodes` | `DeleteNamespace`, `RemoveFinalizer`, `releaseNode(n)`, `NodesReleased` | `deleteClusterScopedReference` |

`cache` and `nsCache` are the informers' copies; `Deliver` brings them up to date
and enqueues the key. `Resync` may enqueue the key at any time, so it also covers
the events that the controller's own writes cause. `Fail` ends a call at any
place with an error, before or after its last request took effect; `Restart`
forgets the call and reads everything anew. `filterObject(t)` says which events
of managed objects reach the queue.

Abstractions, and why they are harmless to the properties:

* a node stands for its address, so the sorted address lists are sets;
* one object stands for all objects of its type: ownership, garbage collection
  and the owner filter depend on the scope only. A CRD and a Deployment are kept
  apart because custom resources depend on the one and the other runs the
  controller that finalizes them;
* rendering is reduced to what it takes from the status, the addresses (`Rendering`
  and `Rollout` have the rest);
* `conds` drops reason, message and time; that `SetCondition` always renews the
  time is kept (`touched`), because it decides whether the status is patched;
* the copies in `cache` and `nsCache` lag for as long as they like and then jump to
  the present version. A copy that has moved on but is still behind is not modelled
  (see the plan);
* nobody but the controller deletes the fake Namespace.

### The node controller

Again `call` is the frame of the one running `Reconcile`; every request and every
script is a step:

| `call.pc` | Action | Code |
|---|---|---|
| `idle` | `NothingToDo(n)`, `AddFinalizer(n)`, `reconcileNodeDeletion(n)` | `Reconcile`, the beginning of `reconcileNodeDeletion` |
| `nb`, `sb` | `reconcileOVNCentralState` (`cleanup(db, next)`) | same name, `executeOVNCentralCommand`, `CleanupNBDB`, `CleanupSBDB` |
| `address` | `PatchAddresses` | the status patch |
| `chassis` | `reconcileOVSOVNState` | same name, `CleanupChassis` |
| `release` | `RemoveFinalizer` | the patch of the finalizers |

`members[db]` are the servers of a database, `chassis` the nodes with a chassis,
`leaders[db]` the number of pods with the leader's label (0 or 2 between two
leaders). A script selects servers by `grep` (`Selected`): with `Lookalikes` the text of one
address occurs in another. cluster/kick takes one server id, so a selection of several
removes none; and it may fail for reasons of its own at any time, for instance because
the leader runs on the deleted node, when `grep` also finds the status line with its
address and the id becomes two words. The script succeeds all the same
(cleanup.go:11-14), so the call never learns of it. `call.spoilt` is a history variable:
the databases in which that happened, or which the node joined again while the call went
on. `FailedCall` is a failed request or script. `uid` tells the machines apart that bear
one name in turn (`MaxMachines` bounds them); the code reads it nowhere.

Assumptions: the labels of the nodes do not change here (they do in
`ConfigurationSystem`); ovn-central starts on a node, in use or under deletion, whose
address is recorded. A machine registers again at any moment after its node has gone: a
call under way then meets the new node, because the scripts and the finalizer patch name
no uid. The deletion of the Configuration is two steps without its own finalizer, which
`ConfigurationSystem` has.

### The health check

| `call.pc` | Action | Code |
|---|---|---|
| `idle` | `ReconcileNothing`, `ReconcileNotNeeded`, `ReconcileNeeded` | the early returns of `Reconcile`, `checkNeeded` |
| `nbPods`, `sbPods` | `podListNB`, `podListSB` | the two lists of leader pods |
| `nbCheck`, `sbCheck` | `checkNB`, `checkSB` (`executeOVNCentralCommand`) | the two scripts, both in the southbound leader's pod |
| `patch` | `PatchConditions` | the merge patch, `RequeueAfter` |

Time is counted in ticks, `Interval` of them to a health check interval, and passes
when nothing is left to do (`Quiet`): calls take seconds, the interval is 300.
A copy of the Configuration carries the age of `ovnNorthDBLeaderFound`, the only time
that the code reads. `timer` is the delayed addition to the work queue, which keeps
the earlier of two. The configuration controller is two steps, so that the health
check can come between its read and its patch. `since` is a history variable: how long
the databases have been as they are. Ages and `since` stop at two intervals, which is
as far as the code and the properties tell them apart.

### Bootstrapper and webhook

A process is where its bootstrapper has got to (`lookupConfiguration`,
`loadConfigMap`, `createConfigurationWithRetry`), whether its webhook serves, its copy
of the Configuration, and the attempt and wait of the backoff in seconds, with its
jitter. Only the leader bootstraps; every process serves the webhook, and the API
server refuses creates and updates while none does (`failurePolicy=fail`). The Service
hands a call to any ready pod, and readiness is a ping that knows nothing of the webhook
(main.go:333): beside a pod that serves, a create may reach one whose webhook is still
starting (`Misrouted`). manager.yaml asks for one replica, so that this is a matter of a
rollout or of an election after a crash. What a
user writes passes the defaults of the schema first (`Structural`); what a Go client
sends has a zero for every quantity that is not set (`Marshalled`), which the schema's
defaults do not touch. A create that is answered by any error but AlreadyExists is
retried (`CreateFails`, `Retry`). `missed` records that a bootstrapper gave up because a
request failed: its lookup, which is not retried, or the last of its creates, be it that
this one reached a webhook that was starting.

### Spec, templates, rendering

A value is its key: a struct and a field of it. `ConfigurationSpec` has every field
with its markers (has it a default, is its zero dropped by `omitempty`), and from how
each struct is written computes which keys the templates find (`generateMap`,
`Values`). `Manifests` has one operator per template, named as in the source, of the
values that its conditions test; `reads` are the keys whose value it prints or compares
(a key that is only asked whether it is set is not among them). Without three values a
pass fails instead of printing a gap (`Demanded`): a pointer that the code follows, the
argument of a `ternary`, and the affinity of the masters, which is not set for an empty
`masterNodesLabel`.
`label`, the variable, is that selector: a set of labels. `Rendering` lets an author change the spec and a pass render it, and compares what it
gives.

### Rollout

A pass takes the types in any order, renders one (`GenerateObjects`, where the Secret's
template looks up the certificates), applies its objects in their order (`Apply`) and
ends at the first error. A pod becomes ready when its account and role are there, it is
admitted, and the pods it waits for are ready; what kube-ovn's pods wait for (the
databases, the pod network, the custom resources) is taken from their manifests and is
external. The authority of the certificates is a number; pods and databases agree on
TLS or not. `NamesOf` is the names of each list for each spec; a pass that fails within a
list stops where the difference can matter (`CutPoints`). The addresses, the fake Namespace and the operator's certificates are there.

### History variables

`applied`, `untimely` and `overlooked` in `ConfigurationSystem` and `call.spoilt` in
`NodeSystem` are for the properties only. `untimely` holds the custom resources that
were created while no deployed Configuration was there to serve them; nobody promises to
clean those up. `overlooked` is set when a deletion passes the fake Namespace because the
informer does not know it yet, and cleared when a later Configuration takes it over or it
goes. They name the cases in which the code does less than its comments say; outside of
them the properties are checked and proved without conditions.

## Runs

The first runs use `MCConfigurationSystem`. Two object types (a CRD and a Deployment)
are the least that has both scopes; `MaxUID` bounds the incarnations of the
Configuration, `MaxDisturbances` the faults and outside changes (crash, failed
request, node or certificate change, drift, custom resource, patch of another
controller). One or two are enough: each property is about what a single fault
does to a state the controller is trying to reach, and the second allows a fault
during the repair. Two incarnations are what a stale copy can confuse.
Deadlock is not checked: users may stop, and a cluster without a Configuration
is at rest.

| Run | Instance | Shows |
|---|---|---|
| `lifecycle` | 1 node, a cluster-scoped and a namespaced custom resource, both deletion policies, 2 incarnations, 1 disturbance | `TypeOK`, `NamespaceGuarded`, `DeployedIsEarned`, `CleanupBeforeNamespace`, `LiveStackKept`, `ImplementsStackLifecycle` |
| `convergence` | 2 nodes, 2 disturbances | `Convergence` |
| `recreation` | a node with and one without address, 2 incarnations | `Convergence` |
| `deletion` | a cluster-scoped and a namespaced custom resource, both deletion policies, 2 disturbances | `DeletionCompletes`, `NothingLeftBehind` |
| `node_cleanup` | 2 masters, one address a part of the other, one departs and comes back, 2 disturbances | `TypeOK`, `MembersLeave`, `OnlyTheDeparted`, `ImplementsNodeMembership` |
| `node_release` | a master that departs and comes back, 1 disturbance | `NodeLeaves`, `NodesProtected` |
| `health` | 1 node, interval of 2 ticks, leaders 0 to 2, 2 disturbances | `TypeOK`, `TimerRunning`, `ReportedInTime`, `Settles`, `PauseIsReported` |
| `bootstrap` | 2 processes, webhook within 30 s, 3 specs, 2 disturbances | `TypeOK`, `StoredIsDefaulted`, `RetriesSuffice`, `Bootstrapped`, `NeverReplaced` |
| `rendering` | all features and stacks, 4 selectors (none, a key, a pair, two pairs), 4 nodes, one struct written in any way | `RenderingSucceeds`, `OnlyKnownGaps`, `ReferencesResolve`, `NoFlipFlop`, `ResourcesAgree`, `ReplicasFit` |
| `rollout` | 5 types in every order, 5 workloads, TLS switched, 2 disturbances | `OneAuthority`, `StackComesUp` |

`health`: with an interval of two ticks a change can fall before, in and after the
tick of a check, and one node is enough for addresses that are there or not. Two
disturbances are a change and a fault while it is reported. `bootstrap`: 30 seconds are
the longest delay that six attempts surely outlast; the last one is made 31 seconds
after the first, later with jitter, and with one attempt less or a delay of 31
`RetriesSuffice` fails. `rendering`: one struct at a time is written other than left
out, the proofs are for any number. `rollout`:
the types left out (custom resources, roles, bindings, services) do not wait for
others, the five that are kept do; the deletable objects are the Secret and the name
that an account and a DaemonSet share.

In all of them the reads of the Configuration and of the fake Namespace lag. `deletion`
has one incarnation, because the property is about the last one; it also passes with two
and one disturbance.

The node runs use `MCNodeSystem`. Two nodes are what one deletion can confuse, and
two disturbances are something that goes wrong during a deletion and during its repair
(a leader change, a failed call, a failed pass, a restart, a deletion of the
Configuration). Deletions and returns
of machines are not counted among them: `Departing` says whose nodes are deleted and
`MaxMachines` how often they return. `node_release` has one node, for liveness is costly;
it also passes with a second node without address, with two machines and no disturbance
and with one machine and one.

Runs that are expected to fail, each a disagreement between the code and what a
comment of it says (PROJECT.json quotes them):

| Run | Property | What the trace shows |
|---|---|---|
| `node_finalizers` | `NodesReleasedInTheEnd` | the return at the finalizer patch skips the loop over the nodes |
| `waiting_stuck` | `WaitingEnds` | no node matches, the condition is set; the label is back before the addresses were taken out, they do not differ, and nothing takes the condition back |

More disagreements were met while modelling. They have no run of their own:

* a custom resource of a namespaced CRD is never deleted: the delete request names no
  namespace (configuration_controller.go:440-460), and the deletion of the Configuration is
  retried for as long as it is there (`Stuck` in `DeletionCompletes`);
* after a deletion in the foreground the garbage collector may take the
  kube-ovn-controller Deployment before the custom resources that only it finalizes are
  gone, and the deletion never ends, though configuration_controller.go:350 wants the
  resources gone first (the other half of `Stuck`);
* a stale NotFound skips the delete of the fake Namespace (369), though the comment at
  326-328 says that "this is deleted when the Configuration is deleted": the Namespace and
  the cluster-scoped objects it owns stay until the next Configuration (`overlooked`,
  `Lost`, the anchor "stray" of `StackLifecycle`);
* `grep` (cleanup.go:7, 20) selects an address that contains the one of the deleted node.
  When the node's own server is there too, two are selected and none is removed; when it
  has gone already, the other node loses its server (`Lookalikes` in `OnlyTheDeparted`);
* a call that has read a node as under deletion (node_controller.go:83) goes on after the
  node has gone and come back, and removes the new one's server (`Current` in
  `OnlyTheDeparted`). Its patch takes the new node's finalizer too (`Mistake` in
  `NodeMembership`); `NodesProtected` shows that it is put back;
* the last command of a clean-up script succeeds whatever cluster/kick said
  (cleanup.go:11-14), the node goes and its server stays (`spoilt` in `MembersLeave`). It
  is not rare: when the leader is on the deleted node, the id found is two words;
* the chassis script is given the node's address where it looks for a host name
  (node_controller.go:118), finds nothing and succeeds: the chassis stays;
* the configuration controller lists a node under deletion as well and puts back the
  address that node_controller.go:112 has taken out; when the node goes, nothing is
  queued to take it out again before the next resync;
* the error of the chassis cleanup is dropped (node_controller.go:118-120): without
  a southbound leader the key is not requeued, though the error text says "requeuing until condition is met" (204). The
  resync heals it, and `NodeLeaves` holds;
* events of cluster-scoped objects enqueue nothing, because their owner is the fake
  Namespace (`filterObject`), and a pass that has just begun to wait for nodes
  still applies the addresses it had (`findMasterNodes` returns nil). In both cases
  `Convergence` holds;
* keys that a template reads and no spec has (`NeverThere` in `Rendering`): with
  `netStack: dual_stack`, which configuration_types.go:122 admits, kube-ovn-cni is told
  the service range `<no value>` (daemonsets.go:274 reads `dual_stack`, the field is
  `dualStack`); `NET_STACK`, which the services ovn-nb, ovn-northd, ovn-sb, kube-ovn-cni and
  kube-ovn-pinger compare (services.go:52, 72, 93, 110, 126), so that they are never of two
  families; `cniConfig.mountLocalBinDir` (454), `ovnRemoteOpenFlowInterval` (591) and
  `.Chart` (470, 490) are the others. `<no value>` also stands for `dpdkTunnelInterface`
  when it is not given, for a struct under `global` that is left out, for any string
  that is written empty, and for `gcInterval` and `ovsVSCtlConcurrency` written 0;
* `ipv4` written in part is completed with IPv6 defaults (configuration_types.go:253-266);
* an empty `masterNodesLabel`, which the schema admits and render_test.go:59-64 treats as
  a case of its own, cannot be rendered: render.go:67 leaves the affinity unset, `include`
  (155-161) gives nil, and `nindent` in deployments.go:43, 463 and 596 takes a string, so
  that every pass fails (`RenderingSucceeds`);
* a `masterNodesLabel` with two labels finds nodes, but its affinity admits none
  (render.go:234-270 cuts at the first `=`; `ReplicasFit` says that this is the only such
  case), and a key without `=` is an error of
  `findMasterNodes`, though the affinity has a case for it;
* objects of a feature that is switched off are not removed (`Rollout`: `Apply` only
  adds), and templates with a fixed `kube-system` (ovn-ic-controller, the webhook)
  refer to accounts of another namespace when the operator runs elsewhere;
* the pods of kube-ovn-webhook lack the label that the webhook's objectSelector leaves
  out, so it is asked about its own pods; that failures are ignored is what lets the
  stack come up, as the mutant of `StackComesUp` shows;
* deleting the Secret kube-ovn-tls makes a new authority that running pods do not know
  (`OneAuthority` speaks of a Secret nobody deleted);
* the health check of the northbound database runs in the southbound leader's pod
  (healthcheck_controller.go:118): without exactly one of those the northbound report
  says nothing about its own database (`NoScriptRuns` in `Truthful`);
* a request above the default limit is completed with that limit (`applyDefaults` fills
  in one without looking at the other);
* system:ovn grants `vips/status`, and vips have no status subresource;
* bootstrap/configuration.go:36 speaks of "the bootstrap logic with retry"; a failed
  lookup is not retried (`missed`).

`MembersLeave` speaks of the addresses that the call has read. A node that has
become a server, and is deleted before the informer's copy of the Configuration
shows its address, is let go without any cleanup of the databases.

### Fairness

`FairSpec` assumes that the worker takes steps (`WF(Step)`: controller-runtime
retries a failed key with backoff forever), that informers deliver and resync,
that the garbage collector, the namespace controller and the API server finish
what they have begun, that kube-ovn-controller finalizes a custom resource while
its Deployment is there, and that a missing certificate is issued. Users, faults
and the other two controllers are not fair. Liveness is stated for what stays
true from some time on (`<>[]`), so that users who never rest do not count.

In `NodeSystem` the start of a call is strongly fair for each key: the work queue
is first in, first out, so a key that is put back again and again while the worker
is busy with others gets its turn. The pods of a database settle on one leader.
The configuration controller's pass, deletions and faults are not fair. The chassis
error that is not requeued is healed by the resync, which is why
`NodeLeaves` still holds.

In `HealthSystem` both workers take what is in their queues, the watch delivers and
time passes. The resync is strongly fair (`SF(Tick(TRUE))`): ticks with and without it
are alternatives, and it comes round every ten hours. In `Bootstrap` processes are
started again, the lease is taken, the calls return and a webhook serves at the latest
after `WebhookDelay`; users, crashes and the informer are not fair. In `Rollout` the
worker, the cluster and the resync go on; the resync is needed because the event of a
deleted cluster-scoped object leads nowhere.

## Proofs

`ConfigurationSystemProofs` proves for all values of the constants:

| Theorem | Says | Needs |
|---|---|---|
| `TypeCorrect` | `TypeOK` | - |
| `CallsAreGuarded` | `Guarding`, the inductive core | `TypeCorrect` |
| `NamespaceIsGuarded` | `NamespaceGuarded` | `CallsAreGuarded` |
| `LiveStackIsKept` | `LiveStackKept` | `CallsAreGuarded` |
| `DeployedIsAlwaysEarned` | `DeployedIsEarned` | - |
| `CleanupComesFirst` | `CleanupBeforeNamespace` | - |
| `Implementation` | `ImplementsStackLifecycle` | - |

The argument turns on the finalizer. None of the properties is inductive: a call
works from a copy made long ago, so what it may assume about the present must be
an invariant. `Guarding` says it: a copy with the finalizer and not under
deletion is of today's object (`CopyIsCurrent`), because only a call that has
seen the deletion takes the finalizer off; a copy under deletion never meets an
object in use that has the finalizer (`CopyIsEnding`); and the same for the frame
of the running call (`LiveCallIsGuarded`, `DeletionCallIsEnding`). On top of it
stand `Closing` (when the finalizer's turn comes the Namespace is not active, or the
deletion has overlooked it),
`Earning` (what copies, calls and the loop say about `Deployed`) and `Cleaned`
(what the loop over the custom resources has passed is gone, counted or
untimely). The refinement proof maps every action to one step of
`StackLifecycle` or to none.

No theorem assumes anything of the informers: reads of the Configuration and of the
Namespace are as old as they may be. What a stale read of the Namespace costs is in the
statements, as `overlooked` and as the anchor "stray", which only a deletion that read
NotFound brings about (`Lose`) and only a later Configuration or a later deletion ends.

`NodeSystemProofs` proves, for any number of nodes, masters and disturbances:

| Theorem | Says | Needs |
|---|---|---|
| `TypeCorrect` | `TypeOK` | - |
| `OnlyTheDepartedAreRemoved` | `OnlyTheDeparted` | - |
| `MembersLeaveFirst` | `MembersLeave` | - |
| `MembershipIsImplemented` | `ImplementsNodeMembership` | - |

Here the argument turns on deletion being final. A call cleans up after a machine that
it read as under deletion from a copy of unknown age. `DeletionIsFinal` says what is left
of that later: machines under one name are numbered upwards (`UidsGrow`), and a copy or a
call whose machine still has the name is of one that is not in use (`CopyIsDeparting`,
`CallIsDeparting`). The number is the model's, the code does not compare it, so the
statements keep the case that another machine has come (`Current`, `same`). `Kicked`
carries from the first script to the finalizer's turn that every database the call has
passed has lost the node's server or is `spoilt`.

`NodeMembership` says more than the two properties: that a node in use loses the
operator's finalizer only to a cleanup of a predecessor of its name, once, and that the
patch at the end, which writes back the list of finalizers as read, takes none of others
from the node that was read. For the last `CopyIsHeld` and `CallIsHeld` are needed: nobody
adds a finalizer to a node under deletion (`HeldIsDeparting`), so a copy of one has all
that the node still has. Each action of `NodeSystem` is then one step of `NodeMembership`
or none.

`HealthSystemProofs` proves, for every interval, set of nodes and number of
disturbances:

| Theorem | Says | Needs |
|---|---|---|
| `TypeCorrect` | `TypeOK` | - |
| `TimerKeepsRunning` | `TimerRunning` | `TypeCorrect` |
| `ReportsAreTimely` | `ReportedInTime` | the inductive invariant `IInv` |

The two properties only speak of quiet states, so the invariant must say what is owed
in the others. `Synced`: a copy that is not under way is the present object, so a
stale copy always has an event pending, which brings a call. `Timed`: for a deployed
Configuration there is a key in the queue, a running call, an event, or a timer that
ends before the report is two intervals old; the last bound is what a restart, which
forgets the timer, and a call that checks nothing must keep. For the reports,
`StatusKept`, `Initialised` and `Current` say what the copies in the frames of the two
calls have in common with the object, and `NoNews` and `Reports` that a list of
conditions younger than the last change of the databases is true: a patch from an old
copy also puts back an old age, so what it overwrites is checked again in time. That is
why the age goes with the list, and why two intervals are needed and not one.

`BootstrapProofs` proves, for any number of processes and disturbances and for every
spec that an author may write:

| Theorem | Says | Needs |
|---|---|---|
| `TypeCorrect` | `TypeOK` | - |
| `ConfigurationsAreDefaulted` | `StoredIsDefaulted` | - |
| `RetriesOutlastTheWebhook` | `RetriesSuffice` | `WebhookDelay < 31` |
| `ConfigurationsAreKept` | `NeverReplaced` | - |

The lemmas about the defaults come first: the schema's defaults and `applyDefaults`,
on what a user writes and on what a Go client sends, give every quantity a value that
is the author's or the default's (`StoredOK`). The count of attempts says nothing about
time, so `RetriesSuffice` needs `Attempts`: while the webhook of a creating process is
late, the age of the process and the wait that is left add up to at least
2^attempt - 1 seconds. At the sixth attempt that is 31, the webhook serves by then, and
the create is answered. The bound is tight, TLC finds a violation with a delay of 31.
Nothing in the code bounds how long the webhook takes to start; the assumption names
what six attempts rely on.

`RolloutProofs` proves, for every set of object types, followed workloads,
editable features and deletable objects and any number of disturbances:

| Theorem | Says | Needs |
|---|---|---|
| `OneAuthorityIsTrusted` | `OneAuthority` | the inductive invariant `IInv` |

A pass looks up the certificates when it renders the Secret and stores them when it
applies it. `Certified` bridges the two: what a pass has rendered is what is stored, if
anything is, because passes do not overlap. With it `Trust` (pods that speak TLS know
the authority that is stored) is inductive.

`RenderingProofs` proves, for every spec, however many structs are written and however
often:

| Theorem | Says | Needs |
|---|---|---|
| `FailsForNoOtherSpec` | `RenderingSucceeds` | - |
| `GapsAreKnown` | `OnlyKnownGaps` | - |
| `ReferencesAreResolved` | `ReferencesResolve` | `Namespace = "kube-system"` |
| `OneTemplatePerObject` | `NoFlipFlop` | - |
| `RolesMatchResources` | `ResourcesAgree` | - |
| `ReplicasHaveNodes` | `ReplicasFit` | finitely many nodes |

TLC enumerates the conditions of the templates, and one struct at a time. The proofs
go by the templates instead. The invariant is that the output is what the present
values render, so the theorems are about `GenerateObjects`: a key that a template reads
is there for every way to write its struct (`Sure`), or is one of the known gaps; the
objects of a kind come from one list; within a list no name has two forms. `Namespace` is a real
assumption: templates that name `kube-system` outright are among the disagreements above.
Selectors are of any number of labels: the empty one is where a pass fails, several are
where the replicas have no node, and the two theorems say that there is no other case.

Only model-checked are the liveness properties (`Convergence`, `DeletionCompletes`,
`NothingLeftBehind`, `NodeLeaves`, `NodesProtected`, `Settles`, `PauseIsReported`,
`Bootstrapped`, `StackComesUp`), because fairness and ENABLED are outside the prover's
reach. Every invariant and every action property of the passing runs is proved.

## Not modelled

The generated deep copies (`api/v1/zz_generated.deepcopy.go`), the helm chart and
kustomize files, flags, metrics and probes, test infrastructure. Of the manifests the
volumes, ports, commands, probes and the rules about other API groups: nothing in the
repository refers to them. The exec stream of `internal/executor` is I/O, a call of it
succeeds or fails. Leader election appears in `Bootstrap`; the controllers' systems have
one operator running. Two Configurations side by side: the other controllers know only
the name `kubeovn`.

## Plan

1. A copy of the Configuration that is behind but moving (a queue of versions in
   place of the jump), in the model and in `Guarding`.
2. `Operator`: configuration, node and health-check controllers on one
   Configuration, with the real actions in place of the reduced ones.
