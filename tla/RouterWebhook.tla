---------------------------- MODULE RouterWebhook ----------------------------
(***************************************************************************)
(* The admission webhook /ziti-router (cmd/webhook/pods.go): an edge router *)
(* is created on the Ziti controller when a pod of the router's StatefulSet *)
(* is created, its name and enrollment token are patched into the pod, and *)
(* the router and the pod's PersistentVolumeClaim are deleted when the pod *)
(* is.                                                                     *)
(*                                                                         *)
(* The reviews are served concurrently by one process and share two        *)
(* variables of the package, jsonPatch and pvc.  A pod that terminates is   *)
(* deleted twice: by who wants it gone, and by the kubelet once its         *)
(* containers have stopped.  The failure policy is Fail.                    *)
(*                                                                         *)
(* The name of a router ends in the UID of the CREATE review it was made   *)
(* for: the review stands for the name and for the token.                  *)
(***************************************************************************)
EXTENDS Naturals, FiniteSets

CONSTANTS
    Creates,    \* CREATE reviews; bound: how many there are
    Deletes,    \* bound: how many DELETE reviews are served at a time
    Pods,       \* the pods of the StatefulSet
    Misnamed,   \* those whose label app is not the name of the claim template
    NoName,     \* the empty string
    None

ASSUME ConstantsAssumption ==
    /\ Creates \intersect Deletes = {}
    /\ NoName \notin Creates \union Pods /\ None \notin Creates \union Pods \union {NoName}

ASSUME MisnamedAssumption == Misnamed \subseteq Pods

Reviews == Creates \union Deletes

VARIABLES
    pod,        \* pod[p]: the pod of that name, or None
    claim,      \* claim[p]: its PersistentVolumeClaim
    router,     \* the edge routers, by name
    optedOut,   \* does the namespace carry the label router.openziti.io/enabled=false?
    pc,         \* pc[r]: how far the review r is
    about,      \* about[r]: the pod it is about
    old,        \* old[r]: of a DELETE review, the pod to be deleted
    waiting,    \* reviews that the API server still waits for
    allowed,    \* allowed[r]: the answer
    patch,      \* patch[r]: the answer's patch, or None
    jsonPatch,  \* the variable of the package, None before it is first written
    pvc         \* the variable of the package: the name of the claim found last

cluster == <<pod, claim, router, optedOut>>
calls   == <<about, old, waiting>>
answers == <<allowed, patch>>
shared  == <<jsonPatch, pvc>>
vars    == <<cluster, pc, calls, answers, shared>>

\* Env[7] and Env[0] of the first container.  uid: the review the pod was created with.
Patches == [router : Creates, token : Creates \union {NoName}]
RunningPods == [uid : Creates, router : Creates \union {NoName},
                token : Creates \union {NoName}, terminating : BOOLEAN]

ASSUME NoneAssumption == None \notin RunningPods \union Patches

Serving == {"updateRouter", "getToken", "marshal", "deleteRouter", "getPvc", "checkPvc", "deletePvc"}

TypeOK ==
    /\ pod \in [Pods -> RunningPods \union {None}]
    /\ claim \in [Pods -> {"none", "bound", "terminating"}]
    /\ router \subseteq Creates
    /\ optedOut \in BOOLEAN
    /\ pc \in [Reviews -> Serving \union {"idle", "answered", "refused", "applied"}]
    /\ about \in [Reviews -> Pods \union {None}]
    /\ old \in [Reviews -> RunningPods \union {None}]
    /\ waiting \subseteq Reviews
    /\ allowed \in [Reviews -> BOOLEAN]
    /\ patch \in [Reviews -> Patches \union {None}]
    /\ jsonPatch \in Patches \union {None}
    /\ pvc \in Pods \union {NoName}
    /\ \A p \in Pods : pod[p] # None => claim[p] # "none"

Init ==
    /\ pod = [p \in Pods |-> None] /\ claim = [p \in Pods |-> "none"]
    /\ router = {} /\ optedOut = FALSE
    /\ pc = [r \in Reviews |-> "idle"]
    /\ about = [r \in Reviews |-> None] /\ old = [r \in Reviews |-> None]
    /\ waiting = {}
    /\ allowed = [r \in Reviews |-> FALSE] /\ patch = [r \in Reviews |-> None]
    /\ jsonPatch = None /\ pvc = NoName

Goto(r, label) == pc' = [pc EXCEPT ![r] = label]

-----------------------------------------------------------------------------
(* Kubernetes.                                                             *)

\* The StatefulSet controller creates the claim before the pod.
CreateClaim(p) ==
    /\ claim[p] = "none" /\ pod[p] = None
    /\ claim' = [claim EXCEPT ![p] = "bound"]
    /\ UNCHANGED <<pod, router, optedOut, pc, calls, answers, shared>>

\* A claim that is being deleted goes when no pod uses it any more.
ReleaseClaim(p) ==
    /\ claim[p] = "terminating" /\ pod[p] = None
    /\ claim' = [claim EXCEPT ![p] = "none"]
    /\ UNCHANGED <<pod, router, optedOut, pc, calls, answers, shared>>

LabelNamespace ==
    /\ optedOut' = ~optedOut
    /\ UNCHANGED <<pod, claim, router, pc, calls, answers, shared>>

\* The answer has not come in time, and the request is refused.
Timeout(r) ==
    /\ pc[r] \in Serving /\ r \in waiting
    /\ waiting' = waiting \ {r}
    /\ UNCHANGED <<cluster, pc, about, old, answers, shared>>

\* A pod is created if nobody has created it meanwhile and nothing else refuses it.
SettleCreate(r) ==
    LET p == about[r] IN
    /\ r \in Creates /\ pc[r] = "answered"
    /\ waiting' = waiting \ {r}
    /\ \/ /\ r \in waiting /\ allowed[r] /\ pod[p] = None /\ claim[p] = "bound"
          /\ pod' = [pod EXCEPT ![p] =
                       [uid    |-> r,
                        router |-> IF patch[r] = None THEN NoName ELSE patch[r].router,
                        token  |-> IF patch[r] = None THEN NoName ELSE patch[r].token,
                        terminating |-> FALSE]]
          /\ Goto(r, "applied")
       \/ Goto(r, "refused") /\ UNCHANGED pod
    /\ UNCHANGED <<claim, router, optedOut, about, old, answers, shared>>

\* A first deletion lets the pod terminate, the next one removes it.  What is deleted
\* is what was reviewed.
SettleDelete(r) ==
    LET p == about[r] IN
    /\ r \in Deletes /\ pc[r] = "answered"
    /\ waiting' = waiting \ {r}
    /\ pod' = IF r \in waiting /\ allowed[r] /\ pod[p] = old[r]
              THEN [pod EXCEPT ![p] = IF @.terminating THEN None ELSE [@ EXCEPT !.terminating = TRUE]]
              ELSE pod
    /\ Goto(r, "idle")
    /\ about' = [about EXCEPT ![r] = None] /\ old' = [old EXCEPT ![r] = None]
    /\ allowed' = [allowed EXCEPT ![r] = FALSE]
    /\ UNCHANGED <<claim, router, optedOut, patch, shared>>

\* The process dies, and with it every review it serves.
Crash ==
    /\ \E r \in Reviews : pc[r] \in Serving
    /\ pc' = [r \in Reviews |-> IF pc[r] \in Serving THEN "answered" ELSE pc[r]]
    /\ allowed' = [r \in Reviews |-> pc[r] \notin Serving /\ allowed[r]]
    /\ jsonPatch' = None /\ pvc' = NoName
    /\ UNCHANGED <<cluster, calls, patch>>

-----------------------------------------------------------------------------
(* handleAdmissionRequest and handleRouterCreate.                          *)

Answer(r, ok) == Goto(r, "answered") /\ allowed' = [allowed EXCEPT ![r] = ok]

\* Mutant of CallFails: a DELETE review is allowed all the same.
CallFailsAllowed(r) ==
    /\ pc[r] \in {"updateRouter", "getToken", "deleteRouter"}
    /\ Answer(r, r \in Deletes)
    /\ UNCHANGED <<cluster, calls, patch, shared>>

\* A call of the Ziti controller fails, without an effect.
CallFails(r) ==
    /\ pc[r] \in {"updateRouter", "getToken", "deleteRouter"}
    /\ Answer(r, FALSE)
    /\ UNCHANGED <<cluster, calls, patch, shared>>

\* A namespace with the label "false" has its pods admitted as they are.
ReviewCreate(r, p) ==
    /\ r \in Creates /\ pc[r] = "idle"
    /\ pod[p] = None /\ claim[p] = "bound"
    /\ about' = [about EXCEPT ![r] = p]
    /\ waiting' = waiting \union {r}
    /\ IF optedOut THEN Answer(r, TRUE) ELSE Goto(r, "updateRouter") /\ UNCHANGED allowed
    /\ UNCHANGED <<cluster, old, patch, shared>>

\* updateZitiRouter: the router is created, unless there is one of that name.
UpdateRouter(r) ==
    /\ pc[r] = "updateRouter"
    /\ router' = router \union {r}
    /\ Goto(r, "getToken")
    /\ UNCHANGED <<pod, claim, optedOut, calls, answers, shared>>

\* Mutant of GetToken: the token that is there already is kept.
GetTokenOnce(r) ==
    /\ pc[r] = "getToken"
    /\ jsonPatch' = [router |-> r, token |-> IF jsonPatch = None THEN r ELSE jsonPatch.token]
    /\ Goto(r, "marshal")
    /\ UNCHANGED <<cluster, calls, answers, pvc>>

\* getZitiRouterToken, and the write of jsonPatch: of a router that is not found the
\* token is empty.  One that was just created has a token, so that none is enrolled again
\* (pods.go:760).
GetToken(r) ==
    /\ pc[r] = "getToken"
    /\ jsonPatch' = [router |-> r, token |-> IF r \in router THEN r ELSE NoName]
    /\ Goto(r, "marshal")
    /\ UNCHANGED <<cluster, calls, answers, pvc>>

Marshal(r) ==
    /\ pc[r] = "marshal"
    /\ patch' = [patch EXCEPT ![r] = jsonPatch]
    /\ Answer(r, TRUE)
    /\ UNCHANGED <<cluster, calls, shared>>

-----------------------------------------------------------------------------
(* handleDelete.                                                           *)

ReviewDelete(r, p) ==
    /\ r \in Deletes /\ pc[r] = "idle"
    /\ pod[p] # None
    /\ about' = [about EXCEPT ![r] = p] /\ old' = [old EXCEPT ![r] = pod[p]]
    /\ waiting' = waiting \union {r}
    /\ Goto(r, "deleteRouter")
    /\ UNCHANGED <<cluster, answers, shared>>

\* Mutant of DeleteRouter: it goes on when it fails.
DeleteRouterUnchecked(r) ==
    /\ pc[r] = "deleteRouter"
    /\ router' \in {router, router \ {old[r].router}}
    /\ Goto(r, "getPvc")
    /\ UNCHANGED <<pod, claim, optedOut, calls, answers, shared>>

\* Mutant of DeleteRouter: a router that is not there is an error.
DeleteRouterStrict(r) ==
    /\ pc[r] = "deleteRouter"
    /\ router' = router \ {old[r].router}
    /\ IF old[r].router \in router THEN Goto(r, "getPvc") /\ UNCHANGED allowed ELSE Answer(r, FALSE)
    /\ UNCHANGED <<pod, claim, optedOut, calls, patch, shared>>

\* deleteZitiRouter: there may be none of that name.
DeleteRouter(r) ==
    /\ pc[r] = "deleteRouter"
    /\ router' = router \ {old[r].router}
    /\ Goto(r, "getPvc")
    /\ UNCHANGED <<pod, claim, optedOut, calls, answers, shared>>

\* Mutant of GetPvc: what is not found is not deleted, whatever the error.
GetPvcTolerant(r) ==
    /\ pc[r] = "getPvc"
    /\ \/ claim[about[r]] # "none" /\ pvc' = about[r] /\ Goto(r, "checkPvc") /\ UNCHANGED allowed
       \/ pvc' = NoName /\ Answer(r, TRUE)
    /\ UNCHANGED <<cluster, calls, patch, jsonPatch>>

\* Mutant of GetPvc: the claim is looked for under the name of the pod.
GetPvcUnprefixed(r) ==
    /\ pc[r] = "getPvc"
    /\ pvc' = NoName /\ Answer(r, FALSE)
    /\ UNCHANGED <<cluster, calls, patch, jsonPatch>>

\* The claim's name is made of the pod's label app and name.  The label is metadata.name
\* (zitirouter_types.go:685), the claims' template is named by Spec.Name
\* (zitirouter_controller.go:434).  When the call fails, or finds no claim of that name, an
\* object without a name is assigned.
GetPvc(r) ==
    /\ pc[r] = "getPvc"
    /\ \/ /\ claim[about[r]] # "none" /\ about[r] \notin Misnamed
          /\ pvc' = about[r] /\ Goto(r, "checkPvc") /\ UNCHANGED allowed
       \/ pvc' = NoName /\ Answer(r, FALSE)
    /\ UNCHANGED <<cluster, calls, patch, jsonPatch>>

CheckPvc(r) ==
    /\ pc[r] = "checkPvc"
    /\ IF pvc = NoName THEN Answer(r, TRUE) ELSE Goto(r, "deletePvc") /\ UNCHANGED allowed
    /\ UNCHANGED <<cluster, calls, patch, shared>>

\* Mutant of DeletePvc: the claim goes at once, the pod that uses it or not.
DeletePvcAtOnce(r) ==
    /\ pc[r] = "deletePvc"
    /\ \/ /\ pvc # NoName /\ claim[pvc] # "none"
          /\ claim' = [claim EXCEPT ![pvc] = "none"]
          /\ Answer(r, TRUE)
       \/ Answer(r, FALSE) /\ UNCHANGED claim
    /\ UNCHANGED <<pod, router, optedOut, calls, patch, shared>>

\* The name is read again.  A claim that a pod uses waits for that pod.
DeletePvc(r) ==
    /\ pc[r] = "deletePvc"
    /\ \/ /\ pvc # NoName /\ claim[pvc] # "none"
          /\ claim' = [claim EXCEPT ![pvc] = IF pod[pvc] = None THEN "none" ELSE "terminating"]
          /\ Answer(r, TRUE)
       \/ Answer(r, FALSE) /\ UNCHANGED claim
    /\ UNCHANGED <<pod, router, optedOut, calls, patch, shared>>

-----------------------------------------------------------------------------
Handler(r) ==
    \/ CallFails(r)
    \/ UpdateRouter(r) \/ GetToken(r) \/ Marshal(r)
    \/ DeleteRouter(r) \/ GetPvc(r) \/ CheckPvc(r) \/ DeletePvc(r)

ApiServer(r) ==
    \/ \E p \in Pods : ReviewCreate(r, p) \/ ReviewDelete(r, p)
    \/ Timeout(r) \/ SettleCreate(r) \/ SettleDelete(r)

Next ==
    \/ \E p \in Pods : CreateClaim(p) \/ ReleaseClaim(p)
    \/ LabelNamespace
    \/ Crash
    \/ \E r \in Reviews : ApiServer(r) \/ Handler(r)

Spec == Init /\ [][Next]_vars

\* Nobody changes a shared variable that a review still is to read.
Serial ==
    /\ (\E r \in Reviews : pc[r] = "marshal" /\ pc'[r] = "marshal") => UNCHANGED jsonPatch
    /\ (\E r \in Reviews : pc[r] \in {"checkPvc", "deletePvc"} /\ pc'[r] \in {"checkPvc", "deletePvc"})
          => UNCHANGED pvc

SerialSpec == Init /\ [][Next /\ Serial]_vars

\* The kubelet repeats its deletion until it succeeds; a call that is tried again and
\* again at last succeeds, in time; the API server takes every answer.
Fairness ==
    /\ \A r \in Deletes, p \in Pods :
          /\ SF_vars(pod[p] # None /\ pod[p].terminating /\ ReviewDelete(r, p) /\ Serial)
          /\ SF_vars(about[r] = p /\ r \in waiting /\ DeleteRouter(r) /\ Serial)
          /\ SF_vars(about[r] = p /\ r \in waiting /\ GetPvc(r) /\ pc'[r] = "checkPvc" /\ Serial)
          /\ SF_vars(about[r] = p /\ r \in waiting /\ CheckPvc(r) /\ Serial)
          /\ SF_vars(about[r] = p /\ r \in waiting /\ DeletePvc(r) /\ allowed'[r] /\ Serial)
          /\ SF_vars(about[r] = p /\ allowed[r] /\ r \in waiting /\ SettleDelete(r) /\ Serial)
    /\ \A r \in Deletes :
          /\ SF_vars((CallFails(r) \/ GetPvc(r) \/ CheckPvc(r) \/ DeletePvc(r)) /\ Serial)
          /\ SF_vars(SettleDelete(r) /\ Serial)

FairSpec == SerialSpec /\ Fairness

-----------------------------------------------------------------------------
(* Properties.                                                             *)

\* A pod enrolls with the token of the router that it names, and no other pod names
\* that router, however CREATE reviews, failures and deletions mix.
OwnRouter ==
    \A p \in Pods : pod[p] # None =>
        /\ pod[p].token = pod[p].router
        /\ \A q \in Pods \ {p} :
              pod[q] # None /\ pod[p].router # NoName => pod[q].router # pod[p].router

\* A router that a pod was created with is gone when the pod is.
RetiredWithPod ==
    \A c \in Creates :
        pc[c] = "applied" /\ c \in router => \E p \in Pods : pod[p] # None /\ pod[p].router = c

\* The claim of a pod that was allowed to be deleted is deleted too, and with it the
\* identity of the router: the next pod of that name does not find it.
ClaimGoesWithPod ==
    \A p \in Pods : pod[p] # None /\ pod[p].terminating => claim[p] = "terminating"

\* A pod that terminates is removed in the end: to delete its router and its claim a
\* second time, or after a review that failed half-way, is not an error for ever.
DeletionEnds ==
    \A p \in Pods : (pod[p] # None /\ pod[p].terminating) ~> (pod[p] = None)

\* A pod does not stay for ever as it is while its deletion is asked for again and again:
\* whatever became of the router and the claim in the reviews before, a DELETE gets
\* through.  Refuted for pods of a ZitiRouter whose Spec.Name is not its name (Misnamed):
\* their claim is never found (pods.go:532).
DeletionBegins ==
    \A p \in Pods :
        <>[](pod[p] # None /\ ~pod[p].terminating) => <>[](\A d \in Deletes : about[d] # p)

-----------------------------------------------------------------------------
(* The abstract specification that the webhook implements.                 *)

Stage(c) ==
    IF c \in router THEN "live"
    ELSE IF pc[c] \in {"idle", "updateRouter"} THEN "fresh" ELSE "spent"

\* The router that a pod names, if there is such a pod and it was not opted out.
Named(p) == IF pod[p] = None \/ pod[p].router = NoName THEN None ELSE pod[p].router

Lifecycle == INSTANCE IdentityLifecycle WITH
    Identities <- Creates,
    stage  <- [c \in Creates |-> Stage(c)],
    holder <- [p \in Pods |-> Named(p)]

\* What the tunnel webhook promises of an identity this one promises of a router: each
\* is created once, given to one pod at most, deleted from the controller only for a
\* pod that has it, and such a pod goes only afterwards, whatever fails in between.
ImplementsLifecycle == Lifecycle!Spec
=============================================================================
