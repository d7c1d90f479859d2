---------------------------- MODULE TunnelWebhook ----------------------------
(***************************************************************************)
(* The admission webhook that injects the ziti tunnel sidecar into pods    *)
(* (ziti-agent/cmd/webhook: webhook.go, pods.go), with the Kubernetes API  *)
(* server that calls it and the ziti edge controller it calls.             *)
(*                                                                         *)
(* Every admission review is served by a goroutine of its own, so one      *)
(* request is a process whose program counter names the call it is about   *)
(* to make.  A call to the edge controller succeeds, fails without effect, *)
(* or takes effect and loses its reply (the 30 s timeouts of pkg/ziti-edge *)
(* cannot tell the last two apart).  The goroutine runs under              *)
(* context.Background(): it goes on after the API server has given up.     *)
(*                                                                         *)
(* An identity is named after the UID of the CREATE review it is made for  *)
(* (buildZitiIdentityName); the request stands for name, id and token.     *)
(***************************************************************************)
EXTENDS FiniteSets

CONSTANTS
    Requests,       \* admission reviews (their UIDs)
    Pods,           \* namespaced pod names
    Servers,        \* webhook processes (replicas of the Deployment)
    ServerOf,       \* ServerOf[r]: the process the Service routes r to
    RoleLists,      \* values of the role-attributes annotation
    Shadowed,       \* pods whose own containers include one named "zt..."
    Unknown,        \* the name of that container: of no identity
    DryRuns,        \* the values of DryRun that clients use
    Relabelled,     \* pods whose namespace label changes
    FailurePolicy,  \* of the MutatingWebhookConfiguration
    None

ASSUME ConstantsAssumption ==
    /\ ServerOf \in [Requests -> Servers]
    /\ Shadowed \subseteq Pods /\ Relabelled \subseteq Pods
    /\ DryRuns \subseteq BOOLEAN
    /\ FailurePolicy \in {"Fail", "Ignore"}
    /\ None \notin Requests /\ Unknown \notin Requests /\ Unknown # None
    /\ None \notin RoleLists

VARIABLES
    pods,       \* the pod objects persisted by the API server
    optedOut,   \* pods whose namespace is labelled tunnel...enabled=false
    review,     \* the admission review of each request
    outcome,    \* what became of it at the API server
    pc,         \* the next call of its handler goroutine
    found,      \* the identity id the handler looked up by name
    answer,     \* AdmissionResponse.Allowed
    reply,      \* AdmissionResponse.Patch
    jsonPatch,  \* the package variable jsonPatch of each process
    live,       \* identities of the edge controller
    roles       \* their role attributes

apiserver == <<pods, optedOut, review, outcome>>
handler   == <<pc, found, answer, reply>>
edge      == <<live, roles>>
vars      == <<apiserver, handler, jsonPatch, edge>>

Ids         == Requests \union {None}
Annotations == RoleLists \union {None}

\* Role attributes of an identity: the annotated list, [labels.app], or [].
Attributes  == RoleLists \union {"app", "empty"}

\* What the handler and the properties see of a pod: the identity whose name
\* and token its ziti sidecar carries, and its two annotations.
PodObjects  == [phase : {"absent", "running", "terminating"},
                sidecar : Ids, annot : Ids, role : Annotations]
NoPod       == [phase |-> "absent", sidecar |-> None, annot |-> None, role |-> None]

Reviews     == [op : {"NONE", "CREATE", "UPDATE", "DELETE"}, pod : Pods \union {None},
                dry : BOOLEAN, old : PodObjects, new : PodObjects]
NoReview    == [op |-> "NONE", pod |-> None, dry |-> FALSE, old |-> NoPod, new |-> NoPod]

\* The two entries of the JSON patch that say who the pod is.
Patches     == [sidecar : Ids, annot : Ids]
NoPatch     == [sidecar |-> None, annot |-> None]

Serving     == {"dispatch", "createIdentity", "getToken", "writePatch",
                "annotate", "marshal", "lookup", "deleteIdentity", "patchIdentity"}

TypeOK ==
    /\ pods \in [Pods -> PodObjects]
    /\ optedOut \subseteq Pods
    /\ review \in [Requests -> Reviews]
    /\ outcome \in [Requests -> {"pending", "persisted", "refused", "discarded"}]
    /\ pc \in [Requests -> Serving \union {"idle", "answered", "dead"}]
    /\ found \in [Requests -> Ids]
    /\ answer \in [Requests -> {"none", "allow", "deny"}]
    /\ reply \in [Requests -> Patches]
    /\ jsonPatch \in [Servers -> Patches]
    /\ live \subseteq Requests
    /\ roles \in [Requests -> Attributes]

Init ==
    /\ pods = [p \in Pods |-> NoPod]
    /\ optedOut = {}
    /\ review = [r \in Requests |-> NoReview]
    /\ outcome = [r \in Requests |-> "pending"]
    /\ pc = [r \in Requests |-> "idle"]
    /\ found = [r \in Requests |-> None]
    /\ answer = [r \in Requests |-> "none"]
    /\ reply = [r \in Requests |-> NoPatch]
    /\ jsonPatch = [s \in Servers |-> NoPatch]
    /\ live = {}
    /\ roles = [r \in Requests |-> "empty"]

-----------------------------------------------------------------------------
(* The API server: clients' operations on pods, and what it does with the  *)
(* webhook's answer.                                                       *)

\* The patch adds the sidecar; its annotations entry replaces the whole map.
Patched(obj, patch) ==
    [phase   |-> obj.phase,
     sidecar |-> IF patch.sidecar = None THEN obj.sidecar ELSE patch.sidecar,
     annot   |-> IF patch.annot = None THEN obj.annot ELSE patch.annot,
     role    |-> IF patch.annot = None THEN obj.role ELSE None]

Submit(r, rv) ==
    /\ pc[r] = "idle"
    /\ rv.old = pods[rv.pod]
    /\ review' = [review EXCEPT ![r] = rv]
    /\ pc' = [pc EXCEPT ![r] = "dispatch"]
    /\ UNCHANGED <<pods, optedOut, outcome, found, answer, reply, jsonPatch, edge>>

SubmitCreate(r, p, role, dry) ==
    Submit(r, [op |-> "CREATE", pod |-> p, dry |-> dry, old |-> NoPod,
               new |-> [NoPod EXCEPT !.phase = "running", !.role = role]])

\* Containers of a pod are immutable, its annotations are not.  Only a pod with
\* a ziti sidecar is given an identity annotation by its user.
SubmitUpdate(r, p, annot, role, dry) ==
    /\ pods[p].phase # "absent"
    /\ pods[p].sidecar = None => annot = pods[p].annot
    /\ Submit(r, [op |-> "UPDATE", pod |-> p, dry |-> dry, old |-> pods[p],
                  new |-> [pods[p] EXCEPT !.annot = annot, !.role = role]])

\* A graceful deletion leaves the object behind, terminating; the kubelet then
\* deletes it for good, through a second review.
SubmitDelete(r, p, graceful, dry) ==
    /\ pods[p].phase # "absent"
    /\ Submit(r, [op |-> "DELETE", pod |-> p, dry |-> dry, old |-> pods[p],
                  new |-> IF graceful THEN [pods[p] EXCEPT !.phase = "terminating"]
                          ELSE NoPod])

\* The client's request, with the patch applied, becomes the pod object: only if
\* the object is still the one the review showed (resourceVersion).
Persist(r, patch) ==
    LET rv == review[r] IN
    /\ pods[rv.pod] = rv.old
    /\ pods' = [pods EXCEPT ![rv.pod] = Patched(rv.new, patch)]
    /\ outcome' = [outcome EXCEPT ![r] = "persisted"]

Waiting(r) == pc[r] # "idle" /\ outcome[r] = "pending"

Accept(r) ==
    /\ Waiting(r) /\ pc[r] = "answered" /\ answer[r] = "allow"
    /\ IF review[r].dry
       THEN outcome' = [outcome EXCEPT ![r] = "discarded"] /\ UNCHANGED pods
       ELSE Persist(r, reply[r])
    /\ UNCHANGED <<optedOut, review, handler, jsonPatch, edge>>

\* Denied by the webhook, or admitted by it and turned down afterwards: by a later
\* admission plugin, by validation, or by a conflict with a concurrent write.
Refuse(r) ==
    /\ Waiting(r) /\ pc[r] = "answered"
    /\ outcome' = [outcome EXCEPT ![r] = "refused"]
    /\ UNCHANGED <<pods, optedOut, review, handler, jsonPatch, edge>>

\* The call itself fails (timeoutSeconds, HTTP 500, connection lost in a crash),
\* and failurePolicy decides.  The handler is not told.
CallFails(r) ==
    /\ Waiting(r)
    /\ IF FailurePolicy = "Ignore" /\ ~review[r].dry
       THEN Persist(r, NoPatch)
       ELSE outcome' = [outcome EXCEPT ![r] = "refused"] /\ UNCHANGED pods
    /\ UNCHANGED <<optedOut, review, handler, jsonPatch, edge>>

Relabel(p) ==
    /\ optedOut' = IF p \in optedOut THEN optedOut \ {p} ELSE optedOut \union {p}
    /\ UNCHANGED <<pods, review, outcome, handler, jsonPatch, edge>>

-----------------------------------------------------------------------------
(* The handler goroutine.                                                  *)

Goto(r, label) ==
    /\ pc' = [pc EXCEPT ![r] = label]
    /\ UNCHANGED <<answer, reply>>

Answer(r, verdict) ==
    /\ pc' = [pc EXCEPT ![r] = "answered"]
    /\ answer' = [answer EXCEPT ![r] = verdict]
    /\ UNCHANGED reply

\* Mutant of IdentityName: the annotation is looked for first.
IdentityNameAnnotationFirst(p, obj) ==
    IF obj.annot # None THEN obj.annot ELSE obj.sidecar

\* The identity handleDelete and handleUpdate act on: the first container whose
\* name has the prefix, else the annotation.  None: there is nothing to do.
IdentityName(p, obj) ==
    IF p \in Shadowed THEN Unknown
    ELSE IF obj.sidecar # None THEN obj.sidecar ELSE obj.annot

NamedBy(rv) == IdentityName(rv.pod, IF rv.op = "DELETE" THEN rv.old ELSE rv.new)

\* Mutant of Dispatch: a namespace that opted out is left alone on DELETE too.
DispatchSkipsDeletes(r) ==
    LET rv   == review[r]
        skip == rv.pod \in optedOut
    IN
    /\ pc[r] = "dispatch"
    /\ \/ skip /\ Answer(r, "allow")
       \/ ~skip /\ rv.op = "CREATE" /\ Goto(r, "createIdentity")
       \/ ~skip /\ rv.op # "CREATE" /\ Goto(r, "lookup")
    /\ UNCHANGED <<apiserver, found, jsonPatch, edge>>

\* serveZitiTunnel makes an edge client per request: when no endpoint answers it
\* replies HTTP 500 and the goroutine ends.  Then handleAdmissionRequest lists the
\* namespaces labelled "false" and dispatches.  On DELETE the object is empty and
\* so is the namespace name: never opted out.
Dispatch(r) ==
    LET rv    == review[r]
        skip  == rv.op # "DELETE" /\ rv.pod \in optedOut
    IN
    /\ pc[r] = "dispatch"
    /\ \/ Goto(r, "dead")
       \/ Answer(r, "deny")
       \/ skip /\ Answer(r, "allow")
       \/ ~skip /\ rv.op = "CREATE" /\ Goto(r, "createIdentity")
       \/ ~skip /\ rv.op # "CREATE" /\ NamedBy(rv) = None /\ Answer(r, "allow")
       \/ ~skip /\ rv.op # "CREATE" /\ NamedBy(rv) # None /\ Goto(r, "lookup")
    /\ UNCHANGED <<apiserver, found, jsonPatch, edge>>

\* An edge call of r that did not succeed: the handler answers with the error.
Fails(r) == Answer(r, "deny")

\* createIdentity, with the roles of the annotation or [labels.app].  No identity
\* is made when buildZitiIdentityName finds no usable label.
CreateIdentity(r) ==
    LET role == review[r].new.role IN
    /\ pc[r] = "createIdentity"
    /\ \/ Fails(r) /\ UNCHANGED edge
       \/ /\ Fails(r) \/ Goto(r, "getToken")
          /\ live' = live \union {r}
          /\ roles' = [roles EXCEPT ![r] = IF role = None THEN "app" ELSE role]
    /\ UNCHANGED <<apiserver, found, jsonPatch>>

\* getIdentityToken, then getDnsConfig.
GetToken(r) ==
    /\ pc[r] = "getToken"
    /\ Fails(r) \/ (r \in live /\ Goto(r, "writePatch"))
    /\ UNCHANGED <<apiserver, found, jsonPatch, edge>>

\* Mutants of WritePatch: the patch is built once per process; a part of the last
\* one is left in it.
WritePatchOnce(r) ==
    /\ pc[r] = "writePatch"
    /\ jsonPatch' = [jsonPatch EXCEPT ![ServerOf[r]] =
                        IF @ = NoPatch THEN [sidecar |-> r, annot |-> None] ELSE @]
    /\ Goto(r, "annotate")
    /\ UNCHANGED <<apiserver, found, edge>>

WritePatchAppends(r) ==
    /\ pc[r] = "writePatch"
    /\ jsonPatch' = [jsonPatch EXCEPT ![ServerOf[r]].sidecar = r]
    /\ Goto(r, "annotate")
    /\ UNCHANGED <<apiserver, found, edge>>

\* jsonPatch = []JsonPatchEntry{...}, the sidecar with its name and token.
WritePatch(r) ==
    /\ pc[r] = "writePatch"
    /\ jsonPatch' = [jsonPatch EXCEPT ![ServerOf[r]] = [sidecar |-> r, annot |-> None]]
    /\ Goto(r, "annotate")
    /\ UNCHANGED <<apiserver, found, edge>>

\* jsonPatch = append(jsonPatch, the identity annotation).
Annotate(r) ==
    /\ pc[r] = "annotate"
    /\ jsonPatch' = [jsonPatch EXCEPT ![ServerOf[r]].annot = r]
    /\ Goto(r, "marshal")
    /\ UNCHANGED <<apiserver, found, edge>>

\* json.Marshal(&jsonPatch), then successResponse.
MarshalPatch(r) ==
    /\ pc[r] = "marshal"
    /\ reply' = [reply EXCEPT ![r] = jsonPatch[ServerOf[r]]]
    /\ pc' = [pc EXCEPT ![r] = "answered"]
    /\ answer' = [answer EXCEPT ![r] = "allow"]
    /\ UNCHANGED <<apiserver, found, jsonPatch, edge>>

\* Mutant of Lookup: an UPDATE is handled as a DELETE.
LookupSwapped(r) ==
    LET name == NamedBy(review[r]) IN
    /\ pc[r] = "lookup"
    /\ \/ name \notin live /\ Answer(r, "allow") /\ UNCHANGED found
       \/ name \in live /\ found' = [found EXCEPT ![r] = name] /\ Goto(r, "deleteIdentity")
    /\ UNCHANGED <<apiserver, jsonPatch, edge>>

\* GetIdentityByName: the id of the identity, or no item.
Lookup(r) ==
    LET rv == review[r]
        name == NamedBy(rv)
    IN
    /\ pc[r] = "lookup"
    /\ \/ Fails(r) /\ UNCHANGED found
       \/ name \notin live /\ Answer(r, "allow") /\ UNCHANGED found
       \/ /\ name \in live
          /\ found' = [found EXCEPT ![r] = name]
          /\ Goto(r, IF rv.op = "DELETE" THEN "deleteIdentity" ELSE "patchIdentity")
    /\ UNCHANGED <<apiserver, jsonPatch, edge>>

\* Mutant of DeleteIdentity: its error is logged, and the DELETE allowed.
DeleteIdentityBestEffort(r) ==
    /\ pc[r] = "deleteIdentity"
    /\ Answer(r, "allow")
    /\ live' = live \/ live' = live \ {found[r]}
    /\ UNCHANGED <<apiserver, found, jsonPatch, roles>>

\* DeleteIdentity by id: an identity that is gone by now is an error (404).
DeleteIdentity(r) ==
    /\ pc[r] = "deleteIdentity"
    /\ \/ Fails(r) /\ UNCHANGED live
       \/ /\ found[r] \in live
          /\ live' = live \ {found[r]}
          /\ Fails(r) \/ Answer(r, "allow")
    /\ UNCHANGED <<apiserver, found, jsonPatch, roles>>

\* Mutant of NewAttributes: the annotation as it is, or nothing.
NewAttributesRaw(old, new) == new.role

\* The attributes patchIdentityRoleAttributes sends: [labels.app] when the annotation
\* went away, its list when it changed, and otherwise an empty list.
NewAttributes(old, new) ==
    IF new.role = None /\ old.role # None THEN "app"
    ELSE IF new.role # None /\ new.role # old.role THEN new.role
    ELSE "empty"

\* PatchIdentity by id: the one edge call that sets no timeout.
PatchIdentity(r) ==
    LET rv == review[r] IN
    /\ pc[r] = "patchIdentity"
    /\ \/ Fails(r) /\ UNCHANGED roles
       \/ /\ found[r] \in live
          /\ roles' = [roles EXCEPT ![found[r]] = NewAttributes(rv.old, rv.new)]
          /\ Fails(r) \/ Answer(r, "allow")
    /\ UNCHANGED <<apiserver, found, jsonPatch, live>>

\* A webhook process dies with its goroutines and its package variables.
Crash(s) ==
    LET hit == {r \in Requests : ServerOf[r] = s /\ pc[r] \in Serving} IN
    /\ hit # {}
    /\ pc' = [r \in Requests |-> IF r \in hit THEN "dead" ELSE pc[r]]
    /\ jsonPatch' = [jsonPatch EXCEPT ![s] = NoPatch]
    /\ UNCHANGED <<apiserver, found, answer, reply, edge>>

-----------------------------------------------------------------------------
ClientStep(r) ==
    \E p \in Pods, dry \in DryRuns, role \in Annotations :
        \/ SubmitCreate(r, p, role, dry)
        \/ \E annot \in Ids : SubmitUpdate(r, p, annot, role, dry)
        \/ \E graceful \in BOOLEAN : SubmitDelete(r, p, graceful, dry)

ApiStep(r) == Accept(r) \/ Refuse(r) \/ CallFails(r)

HandlerStep(r) ==
    \/ Dispatch(r)
    \/ CreateIdentity(r) \/ GetToken(r)
    \/ WritePatch(r) \/ Annotate(r) \/ MarshalPatch(r)
    \/ Lookup(r) \/ DeleteIdentity(r) \/ PatchIdentity(r)

Next ==
    \/ \E r \in Requests : ClientStep(r) \/ ApiStep(r) \/ HandlerStep(r)
    \/ \E s \in Servers : Crash(s)
    \/ \E p \in Relabelled : Relabel(p)

Spec == Init /\ [][Next]_vars

-----------------------------------------------------------------------------
(* Schedules in which no two goroutines of one process are between the      *)
(* first write of jsonPatch and its marshalling: what the code needs and    *)
(* nothing in it enforces.                                                 *)

Exclusive ==
    \A q, r \in Requests :
        /\ {pc[q], pc[r]} \subseteq {"annotate", "marshal"}
        /\ ServerOf[q] = ServerOf[r]
        => q = r

SerialSpec == Init /\ [][Next /\ Exclusive']_vars

-----------------------------------------------------------------------------
(* Properties.                                                             *)

Present(p) == pods[p].phase # "absent"

\* A pod runs with the identity that was made for its own creation: the sidecar
\* that its CREATE answer injected carries the name and token of that review's
\* identity, not of one that another goroutine was building (pods.go:296-407).
OwnIdentity ==
    \A p \in Pods : Present(p) /\ pods[p].sidecar # None =>
        LET r == pods[p].sidecar IN
        review[r].op = "CREATE" /\ review[r].pod = p /\ outcome[r] = "persisted"

\* The identity of a pod that is still there is removed only by a DELETE review of
\* that very pod: editing the identity annotation of another pod and deleting that
\* one cannot reach it, since the sidecar's name comes first (pods.go:547-563).
KeptWhileRunning ==
    \A p \in Pods : Present(p) /\ pods[p].sidecar \notin live \union {None} =>
        \E r \in Requests :
            review[r].op = "DELETE" /\ review[r].pod = p /\ found[r] = pods[p].sidecar

\* Once a pod injected by an admitted CREATE is gone, so is its identity: a DELETE
\* is allowed only after the identity is deleted or known to be gone, whatever
\* became of earlier DELETEs, lost replies and crashes (pods.go:523-569, 675-693).
\* It takes failurePolicy Fail, and no other container named like a sidecar.
RetiredWithPod ==
    \A i \in live : outcome[i] = "persisted" =>
        \E p \in Pods : Present(p) /\ pods[p].sidecar = i

\* The identity of a pod has the roles of its annotation or, without one, of its
\* app label: never none at all.
RolesNeverEmpty == \A i \in live : roles[i] # "empty"

\* With nothing under way the identity of a pod has the roles that the pod's annotation
\* lists: those of an UPDATE that was refused, or lost against a concurrent one, are not
\* there (pods.go:710-748 sends them before the pod is persisted).
UnderWay(p) == \E r \in Requests : review[r].pod = p /\ (Waiting(r) \/ pc[r] \in Serving)

RolesFollowAnnotation ==
    \A p \in Pods :
        Present(p) /\ ~UnderWay(p) /\ pods[p].role # None /\ pods[p].sidecar \in live =>
            roles[pods[p].sidecar] \in {pods[p].role, "empty"}

\* The identity of a pod that is still there is removed only by a DELETE that was meant:
\* a dry run leaves no trace (pods.go:138-242 handles it like any other review).
DryRunsLeaveNoTrace ==
    \A p \in Pods : Present(p) /\ pods[p].sidecar \notin live \union {None} =>
        \E r \in Requests :
            review[r].op = "DELETE" /\ ~review[r].dry /\ found[r] = pods[p].sidecar

-----------------------------------------------------------------------------
(* The abstract specification that the webhook implements.                 *)

Stage(i) ==
    IF i \in live THEN "live"
    ELSE IF pc[i] \in {"idle", "dispatch", "createIdentity"} THEN "fresh" ELSE "spent"

Lifecycle == INSTANCE IdentityLifecycle WITH
    Identities <- Requests,
    stage  <- [i \in Requests |-> Stage(i)],
    holder <- [p \in Pods |-> pods[p].sidecar]

\* Every step of the handlers, the API server and the edge controller is a step of
\* an identity's life cycle or leaves it alone: with failurePolicy Fail no pod lets
\* go of an identity that still is on the edge controller, none is bound twice.
ImplementsLifecycle == Lifecycle!Spec

-----------------------------------------------------------------------------
(* The inductive invariant of SerialSpec, in named parts.                  *)

OwnPatch(r) == [sidecar |-> r, annot |-> r]

\* A review is of one pod, and says of it what its operation can change.
ReviewShape ==
    \A r \in Requests : LET rv == review[r] IN
        /\ (pc[r] = "idle" <=> rv.op = "NONE")
        /\ rv.op # "NONE" => rv.pod \in Pods
        /\ rv.op \in {"NONE", "CREATE"} => rv.old.sidecar = None /\ rv.new.sidecar = None
        /\ rv.op = "UPDATE" => rv.new.sidecar = rv.old.sidecar
        /\ rv.op = "DELETE" => rv.new.sidecar \in {rv.old.sidecar, None}
        /\ rv.old.sidecar = None => rv.old.annot = None
        /\ rv.new.sidecar = None => rv.new.annot = None
        /\ rv.new.phase = "absent" => rv.new.sidecar = None /\ rv.op # "CREATE"
        /\ pc[r] \in {"createIdentity", "getToken", "writePatch", "annotate", "marshal"}
               => rv.op = "CREATE"
        /\ pc[r] = "lookup" => rv.op \in {"UPDATE", "DELETE"}
        /\ pc[r] = "deleteIdentity" => rv.op = "DELETE"
        /\ pc[r] = "patchIdentity" => rv.op = "UPDATE"
        /\ pc[r] = "idle" => outcome[r] = "pending"

\* Only a pod with a sidecar carries an identity annotation, and only a pod that is
\* there has a sidecar.
PodShape ==
    \A p \in Pods :
        /\ pods[p].sidecar = None => pods[p].annot = None
        /\ pods[p].phase = "absent" => pods[p].sidecar = None

\* What jsonPatch holds between two writes of a goroutine is the goroutine's own.
PatchIsOwn ==
    \A r \in Requests :
        /\ pc[r] = "annotate" => jsonPatch[ServerOf[r]] = [sidecar |-> r, annot |-> None]
        /\ pc[r] = "marshal"  => jsonPatch[ServerOf[r]] = OwnPatch(r)
        /\ reply[r] = NoPatch \/ (reply[r] = OwnPatch(r) /\ pc[r] = "answered" /\ review[r].op = "CREATE")

\* A sidecar in a pod, or in the pod a review shows, came with the CREATE of that pod.
Bound(i, p) ==
    review[i].op = "CREATE" /\ review[i].pod = p /\ outcome[i] = "persisted" /\ reply[i] = OwnPatch(i)

SidecarIsBound ==
    /\ \A p \in Pods : pods[p].sidecar # None => Bound(pods[p].sidecar, p)
    /\ \A r \in Requests :
          review[r].old.sidecar # None => Bound(review[r].old.sidecar, review[r].pod)

\* A DELETE acts on the identity of the sidecar.
FoundIsSidecar ==
    \A r \in Requests :
        /\ review[r].op = "DELETE" /\ found[r] # None => found[r] = review[r].old.sidecar
        /\ pc[r] = "deleteIdentity" => found[r] # None
        /\ pc[r] = "idle" => found[r] = None

\* An identity that has been made is there until a DELETE of its pod found it.
Issued(i) ==
    pc[i] \in {"getToken", "writePatch", "annotate", "marshal"} \/ reply[i] # NoPatch

IssuedIsLive ==
    /\ \A i \in live :
          review[i].op = "CREATE" /\ pc[i] \notin {"idle", "dispatch", "createIdentity"}
    /\ \A i \in Requests : Issued(i) /\ i \notin live =>
          \E r \in Requests :
            review[r].op = "DELETE" /\ review[r].pod = review[i].pod /\ found[r] = i

Inductive ==
    TypeOK /\ Exclusive /\ ReviewShape /\ PodShape /\ PatchIsOwn /\ SidecarIsBound
    /\ FoundIsSidecar /\ IssuedIsLive

\* What failurePolicy Fail adds: only an answer makes a request persist, and an
\* answer that allows it has done what it stands for.
Retired ==
    /\ \A r \in Requests :
        /\ outcome[r] = "persisted" => pc[r] = "answered"
        /\ answer[r] = "allow" =>
            /\ pc[r] = "answered"
            /\ review[r].op = "DELETE" => review[r].old.sidecar \notin live
            /\ review[r].op = "CREATE" /\ r \in live => reply[r] = OwnPatch(r)
    /\ \A i \in live : outcome[i] = "persisted" => pods[review[i].pod].sidecar = i

=============================================================================
