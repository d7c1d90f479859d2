---------------------------- MODULE AgentBootstrap ----------------------------
(***************************************************************************)
(* From the manifests to a pod that is admitted: the objects that the Helm *)
(* chart or the operator brings into the cluster, the certificate that     *)
(* cert-manager issues and injects, the agent's own pods and start-up, and *)
(* the API server that asks the agent about every pod of the namespaces    *)
(* that are selected (failurePolicy Fail, as both deployers have it).      *)
(*                                                                         *)
(* A review that reaches an agent is answered: its handlers are the        *)
(* subject of TunnelWebhook.  The operator creates what is missing in its  *)
(* order, in passes that any of its deaths or errors may cut short; what   *)
(* else they do is the subject of WebhookReconciler.  A ZitiWebhook is     *)
(* deleted in the background or in the foreground.                         *)
(*                                                                         *)
(* Left out: an edited Spec.Name, by which the finalizer deletes           *)
(* (WebhookReconciler, WebhookRenamed.cfg); a ZitiWebhook deleted before   *)
(* it has its finalizer; Helm's uninstall.  The ZitiController's Secret is *)
(* there.                                                                  *)
(***************************************************************************)
EXTENDS Naturals, Sequences

CONSTANTS
    Deployers,      \* who may bring the agent: "helm", "operator"
    Agents,         \* the agent's pods
    Pods,           \* users' pods in namespaces that are selected
    AgentSelected,  \* is the agent's own namespace selected, too?
    MaxCerts,       \* bound: certificates issued
    MaxFaults       \* bound: agents and operators that die

ASSUME ConstantsAssumption ==
    /\ Deployers \subseteq {"helm", "operator"} /\ AgentSelected \in BOOLEAN
    /\ Agents # {} /\ MaxCerts \in Nat \ {0} /\ MaxFaults \in Nat

\* The order in which Helm installs the kinds of the chart's templates.
HelmOrder == <<"IdentitySecret", "ConfigMap", "ClusterRole", "ClusterRoleBinding", "Service",
               "Deployment", "MutatingWebhookConfiguration", "Certificate", "Issuer">>

\* The order in which Reconcile creates what is missing.
OperatorOrder == <<"Issuer", "Certificate", "Service", "ServiceAccount", "ClusterRole",
                   "ClusterRoleBinding", "MutatingWebhookConfiguration", "Deployment">>

Kinds == {HelmOrder[i] : i \in 1..Len(HelmOrder)} \union
         {OperatorOrder[i] : i \in 1..Len(OperatorOrder)}

VARIABLES
    deployer,   \* who brings the agent into this cluster
    deployed,   \* the Helm release or the ZitiWebhook: not yet there, there, being deleted,
                \* held by the garbage collector's finalizer only, or gone
    foreground, \* does the garbage collector hold it, too: no, its work is pending, or done?
    objects,    \* the kinds of objects there are
    turn,       \* which object of Order the pass under way comes to, 0 if there is no pass
    next,       \* what finalizeZitiWebhook deletes next
    issued,     \* how many certificates were issued
    secret,     \* the certificate in the server's Secret, 0 if there is none
    bundle,     \* the certificate the API server trusts, 0 if none was injected
    agent,      \* agent[a]: is the pod absent, waiting, serving, or did its process exit?
    cert,       \* cert[a]: the certificate its process has read
    pod,        \* pod[p]: absent, wanted, present or leaving
    faults      \* deaths so far

Order == IF deployer = "helm" THEN HelmOrder ELSE OperatorOrder

manifests == <<deployer, deployed, foreground, objects, turn, next>>
keys      == <<issued, secret, bundle>>
vars      == <<manifests, keys, agent, cert, pod, faults>>

TypeOK ==
    /\ deployer \in Deployers
    /\ deployed \in {"no", "yes", "deleting", "finalized", "gone"}
    /\ foreground \in {"no", "pending", "done"}
    /\ objects \subseteq Kinds
    /\ turn \in 0..Len(Order) /\ next \in 1..5
    /\ issued \in 0..MaxCerts /\ secret \in 0..issued /\ bundle \in 0..issued
    /\ agent \in [Agents -> {"absent", "waiting", "serving", "exited"}]
    /\ cert \in [Agents -> 0..issued]
    /\ \A a \in Agents : (agent[a] = "serving") <=> cert[a] # 0
    /\ pod \in [Pods -> {"absent", "wanted", "present", "leaving"}]
    /\ faults \in 0..MaxFaults

Init ==
    /\ deployer \in Deployers
    /\ deployed = "no" /\ foreground = "no" /\ objects = {} /\ turn = 0 /\ next = 1
    /\ issued = 0 /\ secret = 0 /\ bundle = 0
    /\ agent = [a \in Agents |-> "absent"] /\ cert = [a \in Agents |-> 0]
    /\ pod = [p \in Pods |-> "absent"]
    /\ faults = 0

-----------------------------------------------------------------------------
(* The deployer.                                                           *)

\* Helm installs, once and in order; or the ZitiWebhook is there, with its finalizer.
Deploy ==
    /\ deployed = "no" /\ deployed' = "yes"
    /\ turn' = IF deployer = "helm" THEN 1 ELSE 0
    /\ UNCHANGED <<deployer, foreground, objects, next, keys, agent, cert, pod, faults>>

\* Reconcile goes on to the children of a ZitiWebhook that is not being deleted, and of
\* one whose deletion has left its own finalizer behind.
Begin ==
    /\ deployer = "operator" /\ deployed \in {"yes", "finalized"} /\ turn = 0
    /\ turn' = 1
    /\ UNCHANGED <<deployer, deployed, foreground, objects, next, keys, agent, cert, pod, faults>>

\* The next object is created if it is missing; a pass goes on whatever becomes of the
\* ZitiWebhook that it has read.
Apply ==
    /\ turn # 0
    /\ objects' = objects \union {Order[turn]}
    /\ turn' = IF turn = Len(Order) THEN 0 ELSE turn + 1
    /\ UNCHANGED <<deployer, deployed, foreground, next, keys, agent, cert, pod, faults>>

\* Somebody deletes the ZitiWebhook, in the background or in the foreground.
Delete ==
    /\ deployer = "operator" /\ deployed = "yes"
    /\ deployed' = "deleting" /\ foreground' \in {"no", "pending"}
    /\ UNCHANGED <<deployer, objects, turn, next, keys, agent, cert, pod, faults>>

\* Mutant of FinalizeOrder: the configuration is left to the garbage collector.
FinalizeOrderOwned == <<"ClusterRole", "ClusterRoleBinding", "Secret">>

\* Mutant of FinalizeOrder: the Service goes with the cluster-scoped objects, before them.
FinalizeOrderService == <<"Service", "ClusterRole", "ClusterRoleBinding", "MutatingWebhookConfiguration">>

FinalizeOrder == <<"ClusterRole", "ClusterRoleBinding", "Secret", "MutatingWebhookConfiguration">>

\* One deletion of finalizeZitiWebhook; what is not found is skipped.
Finalize ==
    LET k == FinalizeOrder[next] IN
    /\ deployed = "deleting" /\ turn = 0 /\ next <= Len(FinalizeOrder)
    /\ objects' = objects \ {k}
    /\ secret' = IF k = "Secret" THEN 0 ELSE secret
    /\ bundle' = IF k = "MutatingWebhookConfiguration" THEN 0 ELSE bundle
    /\ next' = next + 1
    /\ UNCHANGED <<deployer, deployed, foreground, turn, issued, agent, cert, pod, faults>>

\* The finalizer is removed, and with it the object, unless the garbage collector has
\* one of its own on it.
RemoveFinalizer ==
    /\ deployed = "deleting" /\ next > Len(FinalizeOrder)
    /\ deployed' = IF foreground = "pending" THEN "finalized" ELSE "gone"
    /\ next' = 1
    /\ UNCHANGED <<deployer, foreground, objects, turn, keys, agent, cert, pod, faults>>

\* An error or the death of the operator: pass and finalizer start over.
Interrupt ==
    /\ deployer = "operator" /\ (turn # 0 \/ next > 1) /\ faults < MaxFaults
    /\ turn' = 0 /\ next' = 1 /\ faults' = faults + 1
    /\ UNCHANGED <<deployer, deployed, foreground, objects, keys, agent, cert, pod>>

\* What belongs to the ZitiWebhook: cluster-scoped objects cannot.
Owned == Kinds \ {"ClusterRole", "ClusterRoleBinding", "MutatingWebhookConfiguration"}

\* The garbage collector deletes what the ZitiWebhook owned; in the foreground before
\* the ZitiWebhook goes, and without waiting for the operator's finalizer.
Collect(k) ==
    /\ deployed = "gone" \/ foreground = "pending"
    /\ k \in objects \intersect Owned
    /\ objects' = objects \ {k}
    /\ UNCHANGED <<deployer, deployed, foreground, turn, next, keys, agent, cert, pod, faults>>

\* It finds nothing more to delete and removes its own finalizer.
CollectDone ==
    /\ foreground = "pending" /\ objects \intersect Owned = {}
    /\ foreground' = "done"
    /\ deployed' = IF deployed = "finalized" THEN "gone" ELSE deployed
    /\ UNCHANGED <<deployer, objects, turn, next, keys, agent, cert, pod, faults>>

-----------------------------------------------------------------------------
(* cert-manager: the issuer is self-signed, so that every certificate is an *)
(* authority of its own.                                                    *)

Issued ==
    /\ {"Issuer", "Certificate"} \subseteq objects /\ issued < MaxCerts
    /\ issued' = issued + 1 /\ secret' = issued + 1
    /\ UNCHANGED <<manifests, bundle, agent, cert, pod, faults>>

Issue == secret = 0 /\ Issued
Renew == secret # 0 /\ Issued

InjectBundle ==
    /\ {"Certificate", "MutatingWebhookConfiguration"} \subseteq objects
    /\ secret # 0 /\ bundle # secret
    /\ bundle' = secret
    /\ UNCHANGED <<manifests, issued, secret, agent, cert, pod, faults>>

-----------------------------------------------------------------------------
(* The API server.                                                         *)

\* An agent answers: one that the Service leads to, with the certificate that is
\* trusted, and the right to list the namespaces.
Answered ==
    /\ {"Service", "ClusterRole", "ClusterRoleBinding"} \subseteq objects
    /\ \E a \in Agents : agent[a] = "serving" /\ cert[a] = bundle

\* The creation or deletion of a pod of a selected namespace gets through.
Passes == "MutatingWebhookConfiguration" \notin objects \/ Answered

Want(p) ==
    /\ pod[p] = "absent" /\ pod' = [pod EXCEPT ![p] = "wanted"]
    /\ UNCHANGED <<manifests, keys, agent, cert, faults>>

Leave(p) ==
    /\ pod[p] = "present" /\ pod' = [pod EXCEPT ![p] = "leaving"]
    /\ UNCHANGED <<manifests, keys, agent, cert, faults>>

\* The pod is created or deleted; who is refused tries again.
Admit(p) ==
    /\ pod[p] \in {"wanted", "leaving"} /\ Passes
    /\ pod' = [pod EXCEPT ![p] = IF @ = "wanted" THEN "present" ELSE "absent"]
    /\ UNCHANGED <<manifests, keys, agent, cert, faults>>

-----------------------------------------------------------------------------
(* The agent.                                                              *)

\* What its container is given: arguments and variables, those aside that it can do
\* without.
Given ==
    IF deployer = "helm"
    THEN {"--config", "TLS_CERT", "TLS_PRIVATE_KEY", "ZITI_IDENTITY_JSON"}
    ELSE {"TLS_CERT", "TLS_PRIVATE_KEY", "ZITI_ADMIN_CERT", "ZITI_ADMIN_KEY",
          "ZITI_CTRL_CA_BUNDLE", "ZITI_MGMT_API"}

\* Mutant of Required: the chart's variables have other names.
RequiredAdmin == {"--config", "TLS_CERT", "TLS_PRIVATE_KEY", "ZITI_ADMIN_CERT"}

\* Without one of these it exits.
Required == {"--config", "TLS_CERT", "TLS_PRIVATE_KEY", "ZITI_IDENTITY_JSON"}

\* What the kubelet needs to start its container.
Mounted == IF deployer = "helm" THEN {"ConfigMap", "IdentitySecret"} ELSE {"ServiceAccount"}

CreatePod(a) ==
    /\ agent[a] = "absent" /\ "Deployment" \in objects
    /\ AgentSelected => Passes
    /\ agent' = [agent EXCEPT ![a] = "waiting"]
    /\ UNCHANGED <<manifests, keys, cert, pod, faults>>

\* Mutant of Start: the variables of the Secret are optional, and the process does not
\* insist on what they hold.
StartBare(a) ==
    LET starts == Required \subseteq Given IN
    /\ agent[a] \in {"waiting", "exited"}
    /\ Mounted \subseteq objects
    /\ agent' = [agent EXCEPT ![a] = IF starts THEN "serving" ELSE "exited"]
    /\ cert' = [cert EXCEPT ![a] = IF starts THEN secret ELSE 0]
    /\ UNCHANGED <<manifests, keys, pod, faults>>

\* The process reads the certificate, once and for all.
Start(a) ==
    LET starts == Required \subseteq Given IN
    /\ agent[a] \in {"waiting", "exited"}
    /\ secret # 0 /\ Mounted \subseteq objects
    /\ agent' = [agent EXCEPT ![a] = IF starts THEN "serving" ELSE "exited"]
    /\ cert' = [cert EXCEPT ![a] = IF starts THEN secret ELSE 0]
    /\ UNCHANGED <<manifests, keys, pod, faults>>

\* The process dies, or its pod with it.
Die(a) ==
    /\ agent[a] = "serving" /\ faults < MaxFaults
    /\ faults' = faults + 1
    /\ \E s \in {"exited", "absent"} : agent' = [agent EXCEPT ![a] = s]
    /\ cert' = [cert EXCEPT ![a] = 0]
    /\ UNCHANGED <<manifests, keys, pod>>

\* The pods of a Deployment that is gone are deleted.
CollectPod(a) ==
    /\ agent[a] # "absent" /\ "Deployment" \notin objects
    /\ AgentSelected => Passes
    /\ agent' = [agent EXCEPT ![a] = "absent"] /\ cert' = [cert EXCEPT ![a] = 0]
    /\ UNCHANGED <<manifests, keys, pod, faults>>

-----------------------------------------------------------------------------
Next ==
    \/ Deploy \/ Begin \/ Apply \/ Delete \/ Finalize \/ RemoveFinalizer \/ Interrupt
    \/ CollectDone \/ \E k \in Kinds : Collect(k)
    \/ Issue \/ Renew \/ InjectBundle
    \/ \E p \in Pods : Want(p) \/ Leave(p) \/ Admit(p)
    \/ \E a \in Agents : CreatePod(a) \/ Start(a) \/ Die(a) \/ CollectPod(a)

Spec == Init /\ [][Next]_vars

\* The operator and Helm, cert-manager, the garbage collector, the Deployment controller
\* and the kubelet do their work, and who wants to create or delete a pod tries again.
\* Nobody has to deploy anything, to want a pod, or to renew a certificate.
Fairness ==
    /\ WF_vars(Begin) /\ WF_vars(Apply) /\ WF_vars(Finalize) /\ WF_vars(RemoveFinalizer)
    /\ WF_vars(CollectDone) /\ \A k \in Kinds : WF_vars(Collect(k))
    /\ WF_vars(Issue) /\ WF_vars(InjectBundle)
    /\ \A p \in Pods : WF_vars(Admit(p))
    /\ \A a \in Agents : WF_vars(CreatePod(a)) /\ WF_vars(Start(a)) /\ WF_vars(CollectPod(a))

FairSpec == Spec /\ Fairness

-----------------------------------------------------------------------------
(* Properties.                                                             *)

\* Every pod that is wanted in a selected namespace is created in the end, and every
\* one that is to go goes, whenever the chart is installed and whatever dies: the
\* configuration that makes the API server ask (webhook.yaml:11-60) never asks for ever
\* an agent that cannot come up, cannot be reached or is not trusted.  It may after a
\* renewal of the certificate, which the agent does not read again.
PodsServed ==
    \A p \in Pods :
        /\ deployer = "helm" /\ pod[p] = "wanted"  ~> pod[p] = "present" \/ issued > 1
        /\ deployer = "helm" /\ pod[p] = "leaving" ~> pod[p] = "absent" \/ issued > 1

\* Refuted: after a renewal, too ("Renew before expiry", charts/ziti-webhook/README.md:131).
StillServed ==
    \A p \in Pods : /\ pod[p] = "wanted" ~> pod[p] = "present"
                    /\ pod[p] = "leaving" ~> pod[p] = "absent"

\* Deleting a ZitiWebhook whose Spec.Name was never edited gives the API server back,
\* unless it is deleted in the foreground: pods that wait for an agent that is not there
\* get through, whatever pass was under way and whatever interrupts the finalizer
\* (zitiwebhook_controller.go:102-120, :703-738).
RemovalUnblocks ==
    \A p \in Pods :
        /\ deployed = "deleting" /\ foreground = "no" /\ pod[p] = "wanted"  ~> pod[p] = "present"
        /\ deployed = "deleting" /\ foreground = "no" /\ pod[p] = "leaving" ~> pod[p] = "absent"

\* Refuted: in the foreground, too.  Reconcile runs once more when its finalizer is gone,
\* falls through to the children (zitiwebhook_controller.go:102-167) and creates the
\* configuration anew, which nobody deletes.
RemovalAlwaysUnblocks ==
    \A p \in Pods : /\ deployed = "deleting" /\ pod[p] = "wanted"  ~> pod[p] = "present"
                    /\ deployed = "deleting" /\ pod[p] = "leaving" ~> pod[p] = "absent"

\* As long as the API server asks, nothing that an agent needs to be reached and to come
\* up again is taken away from a ZitiWebhook that is deleted in the background, whatever
\* pass was under way and whatever interrupts the finalizer.  In the foreground the garbage
\* collector does not wait for the configuration.
AskedLast ==
    [][foreground = "no" =>
          \A k \in {"Service", "Deployment", "ServiceAccount", "Issuer", "Certificate"} :
              k \in objects \ objects' => "MutatingWebhookConfiguration" \notin objects]_vars

\* Refuted for the operator: once deployed, an agent gets to serve.
AgentServes ==
    deployed = "yes" ~> (deployed # "yes" \/ \E a \in Agents : agent[a] = "serving")
=============================================================================
