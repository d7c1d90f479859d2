# A verification project for ziti-k8s-agent

TLA+ models of the Ziti agent for Kubernetes, checked with TLC, and theorems about them proved with
TLAPS. Paths below are relative to the repository; `pods.go` is `ziti-agent/cmd/webhook/pods.go`, the
reconcilers are in `ziti-agent/operator/internal/controller/`.

## The system

The repository holds two programs.

**The agent** (`ziti-agent webhook`) is an HTTPS server that the Kubernetes API server calls when pods are
created, updated and deleted. It has two endpoints.

| Part | Code | State | Operations |
|---|---|---|---|
| Tunnel webhook `/ziti-tunnel` | `webhook.go:223`, `pods.go:244-409, 523-594, 623-748` | the package variable `jsonPatch`; identities and their roles on the Ziti edge controller | CREATE makes an identity and injects a sidecar with its name and token; UPDATE sends role attributes; DELETE removes the identity |
| Router webhook `/ziti-router` | `webhook.go:271`, `pods.go:464-543, 750-804` | the package variables `jsonPatch` and `pvc`; edge routers | CREATE makes a router and patches name and token into the pod; DELETE removes the router and the pod's volume claim |
| Names | `utilities.go:56-122` | none | builds a name of prefix, label, namespace and eight characters of the review's UID |
| Edge client | `pkg/ziti-edge`, `webhook.go:133-221` | none | REST calls with 30 s timeouts (`PatchIdentity` has none), failover over endpoints at the beginning of every review |
| Configuration | `config.go`, `root.go` | `runtimeConfig` | read and validated at start-up; management endpoints are inferred from the identity |
| DNS of pods | `pods.go:411-462` | none | one lookup per review, with a guess when it fails |

**The operator** (`ziti-agent/operator`) runs three reconcilers in one process.

| Part | Code | State | Operations |
|---|---|---|---|
| ZitiController reconciler | `ziticontroller_controller.go` | `channelChecked`; the admin Secret | enrolls the admin identity with a one-time token, renews it, sends the object to the other two |
| ZitiWebhook reconciler | `zitiwebhook_controller.go` | `CachedZitiController`; a finalizer; eight children, three of them cluster-scoped | fills in defaults, creates and patches the children, reports status; the finalizer deletes what has no owner |
| ZitiRouter reconciler | `zitirouter_controller.go` | `CachedZitiController`; ConfigMap, Service, StatefulSet | the same without a finalizer |
| Channels | `cmd/main.go:66-67` | two buffered Go channels of ten | carry the ZitiController to the other reconcilers |
| MergeSpecs, defaults | `internal/utils/common.go:61-201`, `GetDefaults` of the types, defaults of the CRDs | none | fills in fields that are missing, before and after the API server does |

A Helm chart (`charts/ziti-webhook`) installs the agent without the operator; both let cert-manager make the
agent's certificate.

They interact in three ways: the operator deploys the agent (the Deployment and the
MutatingWebhookConfiguration of a ZitiWebhook) and the StatefulSet whose pods the router webhook admits; the
API server calls the agent; and both talk to the Ziti controller. Inside the agent the reviews share package
variables; inside the operator the reconcilers share the two channels.

What is hard: reviews are goroutines over shared variables (`pods.go:27-28`); a handler runs under
`context.Background()` and goes on after the API server has given up; a call that timed out may have taken
effect; the API server may refuse a pod after the webhook has admitted it; a graceful deletion is reviewed
twice; every call of a reconciler may fail half-way through a pass, the operator may restart, and users, the
garbage collector, cert-manager and the kubelet change the objects between two of its calls.

## The modules

| Module | Models | Promise |
|---|---|---|
| `IdentityLifecycle` | the abstract specification of an identity: issued, bound to one pod, retired, released | |
| `TunnelWebhook` | the tunnel webhook, its processes, the API server and the edge controller | implements `IdentityLifecycle`; `OwnIdentity`, `KeptWhileRunning`, `RetiredWithPod` |
| `TunnelWebhook_proofs` | proofs about it | |
| `RouterWebhook` | the router webhook with the StatefulSet's claims | implements `IdentityLifecycle`; `OwnRouter`, `RetiredWithPod`, `ClaimGoesWithPod`, `DeletionBegins`, `DeletionEnds` |
| `RouterWebhook_proofs` | proofs about it | |
| `WebhookReconciler` | the ZitiWebhook reconciler and what surrounds it | `NoOrphan`, `Corrects`, `Converges` |
| `RouterReconciler` | the ZitiRouter reconciler | `Corrects`, `Converges` |
| `Reconcilers_proofs` | proofs about both | |
| `ControllerHandoff` | the ZitiController reconciler, the channels, the caches and updates of the other two | `HandoffKept`, `OneController`, `TokenSpentForNeed`, `NameKept`, `LaterObjectsNamed` |
| `ControllerHandoff_proofs` | proofs about it | |
| `SpecDefaults` | how a spec is completed by the CRD, `MergeSpecs` and the operator's writes | `GivenKept`, `Filled`, `Converges` |
| `SpecDefaults_proofs` | proofs about it | |
| `EdgeFailover` | the start-up of the agent and the choice of a controller in every review | `EndpointsComplete`, `NoGiveUp`, `Admitted` |
| `EdgeFailover_proofs` | proofs about it | |
| `IdentityName` | the names of identities, and how DELETE finds them again | `OwnName`, `FoundAgain`, `PlainAccepted` |
| `IdentityName_proofs` | proofs about it | |
| `AgentBootstrap` | installing, running and removing the agent, by Helm or by the operator | `PodsServed`, `RemovalUnblocks`, `AskedLast` |
| `AgentBootstrap_proofs` | proofs about it | |
| `MC...` | instances for TLC: symmetry, the routing of reviews to processes, fields, URLs, labels | |

### TunnelWebhook

A request is an admission review and the goroutine that serves it; `pc[r]` is the call it is about to make.
`Dispatch` is `handleAdmissionRequest`; `CreateIdentity`, `GetToken`, `WritePatch`, `Annotate` and
`MarshalPatch` are `handleTunnelCreate` (the patch is written to `jsonPatch` twice and read once, so it takes
three steps); `Lookup`, `DeleteIdentity` and `PatchIdentity` are the delete and update handlers. An edge call
succeeds, fails without effect, or takes effect and loses its reply. `Submit...` are the clients, `Accept`,
`Refuse` and `CallFails` what the API server does with the answer, or without one. `Crash` takes a process
with its goroutines and its variable.

Nothing in the code keeps two goroutines apart while they build a patch. `Spec` lets them overlap, and run
`TunnelRace` shows what comes of it; `SerialSpec` leaves out only the schedules where two *patch windows* of
one process overlap (`Exclusive`), and everything else about the handlers is shown there, so that the race
does not hide it.

Abstractions: a review stands for the name, id and token of the identity made for it (the first eight
characters of UIDs are unique); the role `"app"` stands for the value of the label `app`; building the name
and connecting to the controller are part of the call that follows; the DNS lookup is part of `GetToken`. On
DELETE the review carries no object, so the namespace is empty and never counts as opted out. Users put
identity annotations only on pods that have a sidecar. The label of a namespace changes its value but is not
removed: without it the webhook is not called. A pod object is persisted only if it is the one that was
reviewed.

### RouterWebhook

The same shape, with the claim of each pod. `GetPvc`, `CheckPvc` and `DeletePvc` each read or write the
variable `pvc`. A pod is deleted twice, the second time by the kubelet. `SerialSpec` leaves out the schedules
in which a shared variable changes while a review still is to read it. The
policy is Fail; `Env[0]` and `Env[7]` are where `GetDefaultContainer` puts them; UPDATE reviews have no
effect; find-and-create and find-and-delete of a router are one step each, with failure as the alternative.
`ImplementsLifecycle` maps a router to an identity of `IdentityLifecycle` and a pod to the router that its `Env[0]` names
(`Stage`, `Named`): it is the same life, although here a policy of Fail and a kubelet that repeats the deletion see to it.
`GetPvc` looks for the claim under the label `app` and the name of the pod (`pods.go:532`). That is the claim's name only
where `Spec.Name` is the object's name, which names the label (`zitirouter_types.go:685`) as the other names the template
(`zitirouter_controller.go:434`); for the pods in `Misnamed` they differ, and no DELETE ever gets past that call. The
passing runs have none, the cfg `RouterMisnamed` one. The re-enrollment of a router without a token (`pods.go:758-766`) is
left out: one that its review has just made has a token.
The two endpoints also share `jsonPatch` with each other; they are not composed, since two reviews of one
endpoint already show the race.

### WebhookReconciler and RouterReconciler

One object of one name, its children by kind and name, and the reconciler's only worker: `at` is its next API
call, `obj` and `seen` what it has read. `Begin` may happen whenever the worker is idle (events, and
`RequeueAfter` 30 s), `Abort` at any call: an error or a death. `Get` and `Write` are separate steps, so
users, the garbage collector, cert-manager, the CA injector and the kubelet come between them. `Patched`
writes the fields that differ from what was *read*, as `client.MergeFrom` does; updates of the object are
refused when it has changed. `version` stands for all of the spec that children are made of; in the router's,
`SpecParts` distinguishes what the code treats differently. Children are kept by the `Spec.Name` they were
made for, so an edit of the name is in both models; in the router's, a pod gets ready when the claim and the
ConfigMap it mounts, named after `metadata.name`, are there (`Mountable`). `cascaded` is a history variable:
it lets `NoOrphan` speak of objects that nobody deletes in the foreground. Left out: volumes that a user gives
the router, lag of the informer cache beyond the time of the read, the immutable roleRef of a
ClusterRoleBinding, two objects that share cluster-scoped names, and differences between defaults of the API
server and of `GetDefaults`.

### ControllerHandoff

`Begin`, `Check`, `Enroll`, `Persist` and `Send` are the ZitiController reconciler; `Merge` and `Store` the
part of the other two that takes a message from the channel, caches it and updates the object, which may be
refused. A token stands for the whole spec but the name. `SpecChanged` compares a value with its copy, as the
code does, so the blocking sends are in the model and never taken; one writer offers one object once, so a
channel is never full when it does. `CheckFails` is a read of the Secret that fails with another error than that it is not
there: the code takes the empty object for one that is in order, and sends. Left out: a `zitiControllerName` or management
API that users write into a ZitiWebhook or ZitiRouter themselves (`zitiwebhook_types.go:42`, `zitirouter_types.go:43`), the
lag of the informers' caches behind the API server, the router's `Config.Ctrl.Endpoint`, deletion of the Secret by users,
two operators at once during a leader change.

### SpecDefaults

A spec is a function from its leaves to values that say no more than the code tells apart: absent, empty,
negative, or given. `Decoded` and `Encoded` are the JSON of the Go types with `omitempty`, `Defaulted` the
defaults of the CRD, which the API server fills in where the object around a field is there, and `Merged` is
`MergeSpecs`, which takes a struct that is zero as a whole and otherwise the leaves that `IsZeroValue` finds
missing. `Begin`, `AddFinalizer`, `Merge` and `Use` are the first part of both reconcilers, each `Update` of
the whole object; `Give`, `TakeBack` and `TakeOut` are users, between any two of them. `given` and `asked` are
history variables: what users said last, and when the object was read. Lists are leaves: `MergeSpecs` does not
look into them. The merge of a controller's name is in `ControllerHandoff`.

### EdgeFailover

`Start` is the start-up: `validateConfig` and `inferMgmtAPIEndpoints`, for every configuration there is (`Init`
chooses it). A review goes through `verify`, `authenticate` and `handle`, endpoint by endpoint, as
`createZitiClientWithFailover` does; a controller that is down refuses at once, one that hangs costs one of the
calls that `Patience` allows before the API server gives up. A URL stands for the controller it leads to, its
public or private host name and its path. `steady` is a history variable. Reviews share nothing here, so
there is one at a time.

### IdentityName

A name is a sequence of characters, of which only the classes that the regular expression and the rules of
Kubernetes tell apart are kept; `BuiltName` cuts it as `buildZitiIdentityName` does, and the lengths are
constants. This is the one model that looks into text, because its properties are about what the cut and the
prefix leave of it. `Create` and `Delete` are whole reviews: their inner steps are in `TunnelWebhook`.

### AgentBootstrap

The objects of the chart, or of the operator, in the order in which they are made (`turn`); the Secret and the CA
bundle by the number of the certificate in them; the agents by what they have read when they started; and the
pods of users, who are refused whenever the configuration is there and no agent answers for it. `Init` chooses
the deployer. The operator works in passes (`Begin`, `Apply`), which go on to the children whenever the ZitiWebhook is not
being deleted or its deletion has left the operator's finalizer behind (`zitiwebhook_controller.go:102-167`), and which
`Interrupt` cuts short. In a deletion in the foreground (`foreground`) the garbage collector takes what is owned without waiting
for that finalizer, and the ZitiWebhook stays without it until the collector is done (`"finalized"`): a pass in
between makes the configuration again. So `RemovalUnblocks` and `AskedLast` are about deletions in the background, and the cfg
`RemovalForeground` shows the other. Left out here: an edited `Spec.Name` (`WebhookRenamed` shows what comes of it), a
ZitiWebhook that is deleted before it has its finalizer, Helm's uninstall. `Given` and
`Required` are the arguments and variables that the Deployment passes and the agent insists on. The values of
the chart are its defaults; the Secret of the identity is installed with it; the ZitiController's admin
Secret, which only the operator's agent mounts, is there.

## The runs

Most instances stop when their bounds are used up (reviews are submitted a finite number of times, users make
finitely many changes), and deadlock is not checked there; those of `SpecDefaults` and `EdgeFailover` go on
for ever and are checked for it.

| Run | Instance | Shows |
|---|---|---|
| `TunnelSerial` | 4 reviews (at most 2 CREATEs, 1 UPDATE, 2 served at a time), 2 pods, 1 process, policy Fail, namespace labels that flip | own identity, kept, retired; the inductive invariant; `IdentityLifecycle` is implemented |
| `TunnelIgnore` | 3 reviews, 2 pods, 2 processes, policy Ignore, dry runs, a shadowing container | types; kept |
| `RouterSerial` | 2 CREATEs, 2 DELETEs at a time, 2 pods | types; own router, router and claim go with the pod; `IdentityLifecycle` is implemented |
| `RouterLive` | 2 CREATEs, 1 DELETE at a time, 1 pod | a deletion gets through its reviews, and ends |
| `WebhookConverges` | 4 kinds of children, 2 versions of the spec, 2 lives of the object, 1 change, both kinds of deletion | types; no orphan; a pass corrects what differs, in one call, and nothing else; convergence |
| `StatefulConverges` | all 3 children, 2 versions, 2 lives, 1 change, both kinds of deletion | the same of its calls; convergence |
| `HandoffKept` | 1 ZitiController, 2 tokens, 2 consumers with 1 object each, capacity 1, 4 changes, 1 crash | nothing lost, one controller, no token wasted, names kept, later objects are named |
| `WebhookDefaults` | a ZitiWebhook of 5 fields (a string, a list with two defaults, an integer that may be negative, a bool two structs deep, a pointer without a default), with a finalizer, 2 edits | what was given is kept; children are made of complete specs; convergence |
| `Failover` | 2 controllers, 4 URLs and an unreadable one, up to 3 listed, 2 hanging calls, 2 changes or crashes | types; endpoints complete; no early end; admitted again |
| `Names` | 2 pods, 3 UIDs (two begin alike), 13 sets of labels, 2 namespaces, 3 lists of containers | types; own names; identities are found again; plain labels accepted |
| `Bootstrap` | the chart or the operator, both kinds of deletion, 1 agent, 1 pod, 2 certificates, 2 deaths or interruptions | types; pods get through until a renewal, and after a removal in the background; the configuration goes first there |

`TypeOK` of `SpecDefaults`, `ControllerHandoff` and `RouterReconciler` is proved for every instance and not among the
properties of the runs; the cfgs `RouterDefaults` and `StatefulRenamed` check it on theirs.

The bounds are small and chosen for what has to meet. Two pods are the least for one to get what belongs to
the other; four reviews are two creations, an edit of one pod's annotation to name the other's identity, and a
deletion, or a creation with three attempts to delete; an object with two lives meets what its predecessor
left behind, and one name whose controller is made twice is enough for two different references; capacity 1
makes "full" and "empty" reachable at once (ten in the code). Five fields hold one of every sort that
`IsZeroValue`, the JSON and the CRD distinguish, and two edits are one before and one after the read of the
same pass. Three listed URLs of two controllers are a duplicate and a second one; two changes are a failure
and a recovery, or one between `verify` and `handle`. Names are cut to five characters instead of fifty, which
lets the cut fall on a letter, a dash and a dot. One agent may have the old certificate or, after its death, the
new one, and two deaths or interruptions cut a pass and the finalizer short, or one of them twice; the pods of users do not
know of each other. The kinds in `WebhookConverges` are one of each sort the code distinguishes: owned, owned with labels
that are not compared, cluster-scoped with a part that others fill in, and the one whose status is reported.
Every cfg gives its values.

### Where the code and its texts disagree

`TunnelRace` expects the violation of `OwnIdentity` under `Spec`, that is, without `Serial`: A builds its patch; B
overwrites `jsonPatch`; A marshals B's name and token into A's pod (`pods.go:296-400`).

More expectations that the code does not meet are written down as properties, each with a cfg that lets TLC show the
trace in seconds (`tlc -config <name>.cfg <module>`). They are not among the runs, the others of which are about
what holds:

| Cfg | Module | Property | Trace |
|---|---|---|---|
| `TunnelDryRun` | `MCTunnelWebhook` | `DryRunsLeaveNoTrace` | the dry run of a deletion is handled like any other, and takes the identity of a running pod (`pods.go:138`; the webhooks declare `sideEffects: None`) |
| `TunnelRolesStale` | `MCTunnelWebhook` | `RolesFollowAnnotation` | an UPDATE that was refused reaches the edge controller after the one that was persisted (`pods.go:733`) |
| `TunnelRoles` | `MCTunnelWebhook` | `RolesNeverEmpty` | an UPDATE that leaves the role annotation alone sends an empty list of roles (`pods.go:729`) |
| `WebhookForeground` | `WebhookReconciler` | `OrphanFree` | in a foreground deletion the finalizer goes first and the next pass creates the cluster-scoped children anew (`zitiwebhook_controller.go:102`) |
| `RemovalForeground` | `AgentBootstrap` | `RemovalAlwaysUnblocks` | a deletion in the foreground leaves the configuration behind, made anew, and pods wait for ever for an agent that is gone (`zitiwebhook_controller.go:102`) |
| `RouterMisnamed` | `MCRouterWebhook` | `DeletionBegins` | the claim of a router with a `Spec.Name` of its own is never found, and its pods cannot be deleted (`pods.go:532`) |
| `WebhookRenamed` | `WebhookReconciler` | `OrphanFree` | the finalizer deletes by the present name what was made under an earlier one (`zitiwebhook_controller.go:703`) |
| `RouterRenamed` | `RouterReconciler` | `RoutersGetReady` | pods of a router with a `Spec.Name` of its own mount what nobody makes (`zitirouter_types.go:508`) |
| `ExplicitZero` | `MCSpecDefaults` | `ZeroKept` | a log level of 0 is dropped by `omitempty` and comes back as 2 (`zitirouter_types.go:102`) |
| `PartialDeployment` | `MCSpecDefaults` | `DefaultMerged` | the CRD's `{}` makes a pointer non-nil, and the default selector is not merged in (`zitirouter_types.go:60`) |
| `ShortName` | `MCSpecDefaults` | `Served` | a short `metadata.name` becomes a `Spec.Name` that every write is refused for (`zitirouter_types.go:487`) |
| `EndpointTwice` | `MCEdgeFailover` | `NoEndpointTwice` | a URL twice in `ztAPIs`, or two forms of one, are two endpoints (`config.go:203`) |
| `DottedLabel` | `MCIdentityName` | `ValidatedFits` | a label with a dot passes the validation and names no container: the identity is made, the pod refused (`utilities.go:112`) |
| `LookalikeContainer` | `MCIdentityName` | `NothingLeft` | a user's container `zt-...` is found before the sidecar, and the identity stays (`utilities.go:27`) |
| `OperatorAgent` | `AgentBootstrap` | `AgentServes` | the operator's agent is started without `--config` and `ZITI_IDENTITY_JSON` and exits (`zitiwebhook_controller.go:917`, `root.go:32`) |
| `CertificateRenewed` | `AgentBootstrap` | `StillServed` | the agent goes on with the certificate it has read, the API server trusts the renewed one only (`webhook.go:330`) |
| `HandoffStale` | `ControllerHandoff` | `EditsReachObjects` | an edited ZitiController is never sent again (`ziticontroller_controller.go:101`) |
| `HandoffRenew` | `ControllerHandoff` | `ExpiredSecretRenewed` | an expired certificate is renewed only with an expired token: `verifyOtt` is true of a valid one (`ziticontroller_controller.go:91`) |

Three cfgs beside them hold, and show the same as a run on other inputs: `RouterDefaults` (`MCSpecDefaults`:
the five sorts of fields of a ZitiRouter), `StatefulRenamed` (`RouterReconciler`: types, `Corrects` and `Converges` with a
second name) and `PlainNames` (`MCIdentityName`: `NothingLeft`, an identity for each pod and for no other, where no
label has a dot and no container of a user the prefix).

The models contain more behaviour of this sort for which no cfg is kept: two DELETEs that share `pvc` delete
each other's claims (`pods.go:532`; `ClaimGoesWithPod` under `Spec` instead of `SerialSpec`); a CREATE that is
refused after `createIdentity` leaves an identity behind (`pods.go:251-261`); the patch replaces all
annotations of a pod by the one with the identity's name (`pods.go:377-397`, so `RolesFollowAnnotation` speaks
of annotations that an UPDATE has put back); the finalizer deletes the Secret while its Certificate is there
to have it issued again (`zitiwebhook_controller.go:703-720`); labels removed from the ServiceAccount are not
restored (`zitiwebhook_controller.go:366`, `Unlabelled = {"ServiceAccount"}`), custom labels of a StatefulSet
are replaced by the default ones and pod annotations never updated (`zitirouter_controller.go:275-302`,
`Labels` with a second value, `Parts = {"annotations"}`); an object that was complete before the
ZitiController was first reconciled never names it (`zitiwebhook_controller.go:122`). In `AgentBootstrap`,
`AgentSelected = TRUE` puts the agent's own namespace among the selected ones: once no agent serves, none can
be created (the selectors exclude only `kube-system`, and whoever labels the namespace selects it). The
passing runs leave out exactly these inputs: label removal from ServiceAccounts, custom labels, edits of
annotations and of names, routers with a `Spec.Name` of their own (`Misnamed`), objects merged before the hand-over, explicit zeros and short names
(`WebhookChoices`, `WebhookLong`), pods of the chart's agent after a renewal, an agent that reviews itself. A
StatefulSet that would have to change in an immutable part is exempt from `Converges` (`Immutable`): the code
tries and is refused for ever.

### Fairness

- `TunnelWebhook` and the router's safety runs assume none.
- `RouterWebhook` (`RouterLive`): strong fairness of the kubelet's repeated deletion and of each call made again
  and again *in time*, since a single retry may always fail; nothing makes a call succeed at the first attempt.
- The reconcilers: weak fairness of the steps of a pass (it is requeued every 30 s or minute, and after every
  error) and of the garbage collector, kubelet and CA injector, who act on what persists; and calls fail for no
  reason in the cluster, and the operator dies, only finitely often (`<>[][WorkerStep => Proceed]_vars`).
  Errors that the state itself causes, conflicts and refused patches, are not limited by this: they are
  steps of `Proceed`. Users are not fair, and their changes are bounded, so the objects settle.
- `SpecDefaults`: weak fairness of the steps of a pass, and calls fail only finitely often.
- `EdgeFailover`: weak fairness of start, restart and of a review's steps. Controllers are not fair; `Admitted` is
  about those that stay reachable.
- `AgentBootstrap`: weak fairness of the deployer, cert-manager, garbage collector, Deployment controller and
  kubelet, and of users who try again. Nobody has to deploy, to want a pod, to delete or to renew.
- `ControllerHandoff`: the same as the reconcilers, with strong fairness of `Begin` for each ZitiController,
  which takes turns with the others in the work queue.
- `Converges` excuses an object that waits for its foreground deletion: there the reconciler and the garbage
  collector can undo each other's work for ever, which fairness does not exclude.

## The proofs

`TunnelWebhook_proofs` proves, for any finite or infinite sets of requests, pods and processes, any routing
and either failure policy:

- `TypeCorrect`: `Spec => []TypeOK`.
- `Invariance`: `SerialSpec => []Inductive`. `OwnIdentity` is not inductive: that the marshalled patch is the
  goroutine's own needs `PatchIsOwn`, which needs `Exclusive` and the shape of reviews; that a sidecar stems
  from its pod's CREATE needs `SidecarIsBound` for the pods *and* for the old objects that reviews in flight
  carry; that a deletion takes only the pod's identity needs `FoundIsSidecar` and that only pods with sidecars
  have an annotation (`PodShape`); `IssuedIsLive` says who can have taken an identity that is not there.
- `OwnIdentityHolds`, `KeptWhileRunningHolds`: follow from `Inductive`.
- `RetiredWithPodHolds`: for failurePolicy Fail and no container that shadows the sidecar, with the further
  invariant `Retired`: an allowed DELETE has seen its identity go, and only an answer makes a pod persist.
- `ImplementsLifecycleHolds`: under the same two conditions `SerialSpec` implements `IdentityLifecycle`. What the
  abstract specification sees of a state is `Abstract`, the stage of every identity and the sidecar of every pod.
  A step of a handler issues an identity (`Issuance`), retires one (`Retirement`) or leaves `Abstract` alone
  (`StagesKept`); a step of the API server binds (`Binding`) or releases (`Releasing`). That an identity is never
  issued twice, and never bound after it was retired, is what `Inductive` and `Retired` say of the reviews in
  flight (`EarlyIsFresh`, `LifecycleStep`).

Each part has a lemma of its own with one step per action. The assumption is `ConstantsAssumption`, which
every run evaluates; `SerialSpec`'s exclusion of overlapping patch windows is part of what is proved, not of the
code. `TunnelSerial` checks `Inductive` on its instance.

`ControllerHandoff_proofs` proves, for any ZitiControllers, tokens, consumers and objects, any capacity of at
least one, and any number of changes and restarts:

- `TypeCorrect`: `Spec => []TypeOK`, with the bound on the channels: `Send` drops rather than exceeds it, and
  its blocking branch is dead (`SpecNeverChanges`, `SendIsOffer`).
- `HandoffKeptHolds`: inductive together with `TypeOK`. The offer that is dropped meets a channel that is full,
  hence not empty, which is where the capacity counts; a consumer that takes the last message caches it in the
  same step, and only a restart clears the cache.
- `TokenSpentForNeedHolds`: a step property. Between the check of the Secret and the enrollment the Secret may
  expire, be collected or lose its owner; the strengthening `Needed` says that it still lacks a valid
  certificate, since only this worker writes Secrets and it is in one place at a time.
- `OneControllerHolds`: the property is about the objects, and they take what the consumers hold, so the
  invariant `FirstOnly` follows a reference through channel, cache and pending update (`Only`): before anything
  was sent there is none anywhere, and afterwards none but the first, since only the first `Send` offers
  anything (`channelChecked`). It says so of the time before the first death of the operator, which starts the channels anew.
- `NamedForGood`: `NameKept`, and the safety part of `LaterObjectsNamed`. Once a ZitiController has been handed over, the first update
  of an object that lacks a default names it, from the channel or from the cache (`NamesAtOnce`, which is where
  `HandoffKept` is needed); and an object that names one keeps it (`NameKept`), since a pending update remembers what it
  was made from (`Remembers`), however many updates are refused.

The assumptions are `ConstantsAssumption` and `NoneAssumption` (that `None` is no value of another kind), both
evaluated by every run of the module.

`SpecDefaults_proofs` proves, for any fields, structs, kinds and defaults and any number of edits,
`TypesCorrect`, `NothingGivenIsLost` (`GivenKept`) and `CompleteWhenUsed` (`Filled`). The invariant follows a
value round: from the store (`StoreInv`: nobody gives a field of a struct that is not there, and the API
server has filled in those that are) into the Go object (`ObjectInv`: what was given is there, what was left
out is vacant, and an integer that is 0 without being given belongs to a struct that is zero as a whole) and
back; `FreshInv` says that a write which is not refused finds users where the read has left them.
`IntegersAssumption` is what the code relies on: the CRD has a default for each integer that `GetDefaults` has
one for. `OnePass` is the safety part of its `Converges`: once users leave the object alone and no call fails, every
pass comes to the children, with the spec that users ask for. No write is refused then, as it is based on the latest
read (`Undisturbed`) and what is written is of what was admitted before and of defaults (`WrittenAdmitted`); the
hypothesis is that the API server admits the defaults and that no field has to be given (`DefaultsAdmitted`; `ShortName`
shows what comes of a default that is refused).

`RouterWebhook_proofs` proves, for any reviews and pods:

- `TypeCorrect`: `Spec => []TypeOK`, under every interleaving.
- `OwnRouterHolds`, `RetiredWithPodHolds`, `ClaimGoesWithPodHolds`, of `SerialSpec`. They follow from `Inductive`:
  what a review is still to read of `jsonPatch` and `pvc` is its own (`SharedIsOwn`, where the exclusion comes in); a
  router is there from its CREATE until a pod that names it is deleted (`CreateKept`); the pods, and the old objects
  that DELETE reviews carry, are of the review they were created with (`PodsGenuine`); and a DELETE that has got past
  a call has had its effect, although the call may have failed at an earlier attempt (`DeleteKept`).
- `ImplementsLifecycleHolds`: `SerialSpec` implements `IdentityLifecycle`. Every step is the creation of one router, the
  binding of one pod, a deletion or a release, or a stutter; that a router which was deleted is not created or named
  again is `CreateKept`: there is none before its CREATE has made it, and a patch is there to be applied only together
  with its router.

`Reconcilers_proofs` proves, for any kinds of children, names, versions and labels, and any number of edits, lives
and interferences:

- `TypeCorrect` of the ZitiWebhook reconciler, with what the worker has read at each call (`Reading`).
- `NoOrphanHolds`: `Renames = FALSE => (Spec => []NoOrphan)`. A cluster-scoped child is there only with an object of
  its name that has the finalizer (`Covered`); a worker beyond `AddFinalizer` works for an object that is there with
  its finalizer (`Held`), since nobody but this worker removes it; and the finalizer has deleted what it is past
  (`Finalized`). A foreground deletion voids all three, which is what `cascaded` in `NoOrphan` excepts. The
  hypothesis is needed: with edits of the name the code leaves orphans (`WebhookRenamed`).
- `CorrectsHolds`: `Spec => Corrects`. The worker compares with a child that it read some time ago, and patches what
  differed then. `Fresh` says that in between others can only have taken from it, or overwritten with what is theirs: only
  this worker ever writes what makes a child `Settled`, so that it changes no settled child (`LeavesAloneStep`). That one
  call is enough for any other child (`PutsRightStep`) needs besides that a cluster-scoped one never has an owner
  (`Unowned`), and that a write meets no error then (`WriteRights`).
- `OnePass`: the safety part of `Converges`. From any point on at which the worker is idle and after which nobody interferes
  and no call fails for no reason (`[][Proceed]_vars`), every pass comes to its last call, and there all children
  are as the object says, whatever was edited, deleted or interrupted before. `Undisturbed` says how far a pass
  has got: what it read is as it is, and the children that it is past are right (`UndisturbedStep`).
- `RouterTypeCorrect`, `RouterCorrectsHolds` and `RouterOnePass`: the same of the ZitiRouter reconciler, whose module is
  the instance `R` with variables of its own. `RouterCorrectsHolds` rests on `RouterFixed` too, that only a StatefulSet has
  immutable parts; a pass that meets one which it would have to change ends there (`R!Immutable`). `RouterConstants` is what
  `RouterReconciler` assumes of the constants beyond what `WebhookReconciler` does (`ConstantsAssumption` and
  `NoneAssumption` there, evaluated by run `StatefulConverges`); run `StatefulConverges` checks `Corrects`, the cfg
  `StatefulRenamed` also `TypeOK`.

`EdgeFailover_proofs` proves, for any lists of URLs, controllers and patience:

- `TypeCorrect`: a review never runs past the last endpoint, nor past the patience of the API server.
- `EndpointsCompleteHolds`: of `ztAPIs` of any length. `Listed` is a recursive function over the turns of the loop;
  what it holds after `n` of them is shown by induction over `n` (`ListedTurn`), by a principle for *sets* of numbers,
  `SetInduction`, which follows from the well-foundedness of `<` and has no operator as a parameter.
- `TriedThemAll` (`NoGiveUp`): `Passed` says of each endpoint before the present one that it was not up throughout,
  `GaveUp` keeps that after the review has ended, `Witnessed` that the history variable is what it stands for.
- `OneReview`: the safety part of `Admitted`. From any point on at which no review is under way, an endpoint is `Reachable`,
  and after which no controller changes and the agent lives, every review is admitted, however many endpoints before that
  one are down or hang. `OnItsWay` counts what those that hang have cost (`Cost`), so that the review comes to the
  endpoint with patience left (`GoesOn`).

`IdentityName_proofs` proves, for any alphabet, prefix and lengths:

- `TypeCorrect`, without further hypotheses, and `NamesOfReviewsDiffer`: reviews whose UIDs differ in what is taken of
  them make different names, whatever is cut, because a built name ends in the hash (`EndsWithHash`). This is what
  `TunnelWebhook` takes for granted when a review stands for the name made in it.
- `NamesAreOwn` (`OwnName`), `NamesAreFound` (`FoundAgain`) and `PlainIsAccepted`, if no container of a user has a name
  that could be built for a sidecar (`NoNamesake`): the pod of such a container would lose another one's identity.
  Containers that merely start with the prefix are allowed. A cut keeps the prefix (`PrefixOfCut`), so DELETE finds
  something (`FindsOne`), and this is the sidecar or a name that no identity was made under (`FindsNoOther`).
- `NothingIsLeft`, where no container of a user has the prefix (`NoLookalike`; `LookalikeContainer` shows why) and
  all labels are plain.

`AgentBootstrap_proofs` proves, for either deployer and any bounds, `TypeCorrect`, `AskedLastHolds` and
`WaitsForAgentOnlyHolds`. `Finalized` says of a deletion in the background that the finalizer is past its last deletion only
without a configuration, and that nobody creates it again, however often it starts over; in the foreground neither holds. `WaitsForAgentOnly` is the safety part of `PodsServed` and
`RemovalUnblocks`: with the chart a review waits only for an agent that is not up, or for the CA bundle, until the first
renewal; no agent exits at its start; and no review waits for an operator's ZitiWebhook that is gone after a deletion in the background. `Prepared` says
that the chart makes the configuration after the role, the binding and the service which it needs.

Every invariant and every action property of the passing runs is stated by a theorem. Only model-checked is what must
happen in the end: `DeletionBegins`, `DeletionEnds`, the `Converges` of three modules, `LaterObjectsNamed`, `Admitted`, `PodsServed` and
`RemovalUnblocks`. Proofs about fairness need `ENABLED`, which is beyond the prover. What can be said of these without
fairness, that a pass which is made does its work and that nothing else is waited for, is proved for all but
those two: `OnePass` (of ZitiWebhooks and of specs), `RouterOnePass`, `NamedForGood`, `OneReview` and
`WaitsForAgentOnlyHolds`. That the passes, updates, reviews and starts are made is what the runs add.

Inductions over data with the library's theorems, which have operator parameters, are beyond the provers too; where one
was needed, `SetInduction` and `LeastElement` stand in for them. `TunnelRace`, and the cfgs of what the code does not
meet, are traces and need no proof.

## What is not modelled

- The text of patches, manifests and configuration files: a value stands for what is told apart. Of names,
  `IdentityName` models the characters.
- DNS of pods (`pods.go:411-462`): one lookup per review that cannot fail and keeps nothing; the cache of
  `pkg/kubernetes/dns.go` is not called by anyone.
- Wiring of commands, flags, schemes and clients (`main.go`, `cmd.go`, `scheme.go`): sequential, and no state that
  changes later. What the start-up requires is in `EdgeFailover` and `AgentBootstrap`.
- TLS, certificate pools and the bodies of the REST calls of `pkg/ziti-edge`: a call is a step with its possible
  outcomes.
- Custom containers of a ZitiRouter, whose variables the router webhook would patch at fixed places (`pods.go:505`).
- Two ZitiWebhooks with the same cluster-scoped names; two operators during a change of leader.
- Uninstalling the chart, and values other than its defaults.
- Generated deep copies, CRDs apart from their defaults, images, CI and the demo: no behaviour of their own.

## Plan

What is left: a second ZitiWebhook that shares cluster-scoped children with the first, for which `WebhookReconciler`
would have to be a module of two objects.
