-------------------------- MODULE WebhookReconciler --------------------------
(***************************************************************************)
(* The operator's reconciler of one ZitiWebhook object                     *)
(* (operator/internal/controller/zitiwebhook_controller.go), with the API  *)
(* server, the garbage collector, cert-manager and the kubelet around it.  *)
(*                                                                         *)
(* controller-runtime calls Reconcile from one worker, on every event, on  *)
(* every error and 30 s after a success; here an idle worker may start at  *)
(* any time.  Between two calls of the API server anything may happen to   *)
(* the objects, an error or a crash included: Reconcile starts again.      *)
(*                                                                         *)
(* The spec of the object is its name, from which its children are named,  *)
(* and a version that stands for everything else the children are made of. *)
(***************************************************************************)
EXTENDS Naturals, Sequences

CONSTANTS
    Kinds,          \* the kinds of children in this instance
    Names,          \* values of Spec.Name
    DefaultName,    \* metadata.name, the default of Spec.Name
    Unset,          \* an empty Spec.Name
    Versions,       \* values of the rest of the spec
    Other,          \* what somebody else writes into the spec of a child
    Cascades,       \* may deletions be foreground ones?  a set of BOOLEANs
    Renames,        \* do users change Spec.Name?
    Unlabelled,     \* kinds whose labels somebody removes
    MaxUid,         \* bound: how often the object is created
    MaxChanges,     \* bound: edits of the spec and changes to children by others
    None

CodeOrder == <<"Issuer", "Certificate", "Service", "ServiceAccount", "ClusterRole",
               "ClusterRoleBinding", "MutatingWebhookConfiguration", "Deployment">>

ClusterScoped == {"ClusterRole", "ClusterRoleBinding", "MutatingWebhookConfiguration"}

ASSUME ConstantsAssumption ==
    /\ Kinds \subseteq {CodeOrder[i] : i \in 1..Len(CodeOrder)} /\ Kinds # {}
    /\ DefaultName \in Names /\ Unset \notin Names
    /\ Other \notin Versions
    /\ Cascades \subseteq BOOLEAN /\ Renames \in BOOLEAN /\ Unlabelled \subseteq Kinds
    /\ MaxUid \in Nat /\ MaxChanges \in Nat

VARIABLES
    cr,         \* the ZitiWebhook object, or None
    created,    \* how many objects of that name there have been
    child,      \* child[<<n, k>>]: the child of kind k that is named after n, or None
    secret,     \* names whose "-server-cert" Secret exists
    cascaded,   \* history: has the object ever been deleted in the foreground?
    changes,    \* edits and changes by others so far
    at,         \* the next call of Reconcile
    next,       \* the child it is about, an index of FinalizeOrder or CodeOrder
    obj,        \* the object as Reconcile read it last
    seen        \* the child as Reconcile read it last

cluster == <<cr, created, child, secret, changes, cascaded>>
worker  == <<at, next, obj, seen>>
vars    == <<cluster, worker>>

Uids == 1..MaxUid

\* replicas: Status.Replicas tells that the Deployment is ready.
ZitiWebhooks == [uid : Uids, deleting : BOOLEAN, finalizer : BOOLEAN, foreground : BOOLEAN,
                 name : Names \union {Unset}, version : Versions, replicas : BOOLEAN]

\* outside: what another controller adds to a child, the ready replicas of the
\* Deployment and the CA bundle of the MutatingWebhookConfiguration.
Children == [owner : Uids \union {None}, spec : Versions \union {Other},
             labels : BOOLEAN, outside : BOOLEAN]

ASSUME NoneAssumption == None \notin ZitiWebhooks \union Children

TypeOK ==
    /\ cr \in ZitiWebhooks \union {None}
    /\ created \in 0..MaxUid
    /\ child \in [Names \X Kinds -> Children \union {None}]
    /\ secret \subseteq Names
    /\ changes \in 0..MaxChanges
    /\ cascaded \in BOOLEAN
    /\ at \in {"idle", "addFinalizer", "finalize", "removeFinalizer", "merge", "get", "write", "status"}
    /\ next \in 1..Len(CodeOrder)
    /\ obj \in ZitiWebhooks \union {None}
    /\ seen \in Children \union {None}

Init ==
    /\ cr = None /\ created = 0
    /\ child = [nk \in Names \X Kinds |-> None]
    /\ secret = {}
    /\ changes = 0 /\ cascaded = FALSE
    /\ at = "idle" /\ next = 1 /\ obj = None /\ seen = None

-----------------------------------------------------------------------------
(* Users, and the controllers of Kubernetes and cert-manager.              *)

CreateObject(name, version) ==
    /\ cr = None /\ created < MaxUid
    /\ created' = created + 1
    /\ cr' = [uid |-> created + 1, deleting |-> FALSE, finalizer |-> FALSE, foreground |-> FALSE,
              name |-> name, version |-> version, replicas |-> FALSE]
    /\ UNCHANGED <<child, secret, changes, cascaded, worker>>

EditObject(name, version) ==
    /\ cr # None /\ changes < MaxChanges
    /\ Renames \/ name = cr.name
    /\ <<name, version>> # <<cr.name, cr.version>>
    /\ cr' = [cr EXCEPT !.name = name, !.version = version]
    /\ changes' = changes + 1
    /\ UNCHANGED <<created, child, secret, cascaded, worker>>

\* An object with finalizers waits for them.
DeleteObject(foreground) ==
    /\ cr # None /\ ~cr.deleting
    /\ cr' = IF cr.finalizer \/ foreground
             THEN [cr EXCEPT !.deleting = TRUE, !.foreground = foreground]
             ELSE None
    /\ cascaded' = (cascaded \/ foreground)
    /\ UNCHANGED <<created, child, secret, changes, worker>>

\* Somebody deletes a child, edits its spec or removes its labels.
Interfere(n, k) ==
    LET c == child[<<n, k>>] IN
    /\ c # None /\ changes < MaxChanges
    /\ \E now \in {None, [c EXCEPT !.spec = Other]} \union
                  (IF k \in Unlabelled THEN {[c EXCEPT !.labels = FALSE]} ELSE {}) :
         now # c /\ child' = [child EXCEPT ![<<n, k>>] = now]
    /\ changes' = changes + 1
    /\ UNCHANGED <<cr, created, secret, cascaded, worker>>

\* The garbage collector deletes what belongs to an object that is gone or, in a
\* foreground deletion, going.
Collect(n, k) ==
    LET c == child[<<n, k>>] IN
    /\ c # None /\ c.owner # None
    /\ cr # None /\ cr.uid = c.owner => cr.deleting /\ cr.foreground
    /\ child' = [child EXCEPT ![<<n, k>>] = None]
    /\ UNCHANGED <<cr, created, secret, changes, cascaded, worker>>

\* It then removes the finalizer foregroundDeletion.
CollectDone ==
    /\ cr # None /\ cr.deleting /\ cr.foreground
    /\ \A n \in Names, k \in Kinds : child[<<n, k>>] # None => child[<<n, k>>].owner # cr.uid
    /\ cr' = IF cr.finalizer THEN [cr EXCEPT !.foreground = FALSE] ELSE None
    /\ UNCHANGED <<created, child, secret, changes, cascaded, worker>>

\* cert-manager keeps the Secret of a Certificate in existence.
IssueCertificate(n) ==
    /\ "Certificate" \in Kinds /\ child[<<n, "Certificate">>] # None
    /\ n \notin secret
    /\ secret' = secret \union {n}
    /\ UNCHANGED <<cr, created, child, changes, cascaded, worker>>

\* The Deployment gets ready; the CA injector fills in the CA bundle.
Complete(n, k) ==
    /\ k \in {"Deployment", "MutatingWebhookConfiguration"}
    /\ child[<<n, k>>] # None /\ ~child[<<n, k>>].outside
    /\ child' = [child EXCEPT ![<<n, k>>].outside = TRUE]
    /\ UNCHANGED <<cr, created, secret, changes, cascaded, worker>>

-----------------------------------------------------------------------------
(* Reconcile.                                                              *)

Rest == at' = "idle" /\ next' = 1 /\ obj' = None /\ seen' = None

\* An error is returned, or the operator dies; a call whose answer is lost is a
\* call followed by this.
Abort == at # "idle" /\ Rest /\ UNCHANGED cluster

\* The object is read, and its deletion timestamp and finalizer looked at.
Begin ==
    /\ at = "idle" /\ cr # None
    /\ obj' = cr
    /\ at' = IF cr.deleting
             THEN IF cr.finalizer THEN "finalize" ELSE "merge"
             ELSE IF cr.finalizer THEN "merge" ELSE "addFinalizer"
    /\ UNCHANGED <<cluster, next, seen>>

\* r.Update of the object: a conflict when it has changed since it was read.
Updated(new, label) ==
    IF cr = obj
    THEN cr' = new /\ obj' = new /\ at' = label /\ UNCHANGED <<next, seen>>
    ELSE Rest /\ UNCHANGED cr

\* Mutant of AddFinalizer: the error of Update is not looked at.
AddFinalizerUnchecked ==
    /\ at = "addFinalizer"
    /\ cr' = IF cr = obj THEN [cr EXCEPT !.finalizer = TRUE] ELSE cr
    /\ at' = "merge" /\ UNCHANGED <<created, child, secret, changes, cascaded, next, obj, seen>>

AddFinalizer ==
    /\ at = "addFinalizer"
    /\ Updated([obj EXCEPT !.finalizer = TRUE], "merge")
    /\ UNCHANGED <<created, child, secret, changes, cascaded>>

\* What finalizeZitiWebhook deletes, in its order; what is not found is skipped.
FinalizeOrder == <<"ClusterRole", "ClusterRoleBinding", "Secret", "MutatingWebhookConfiguration">>

Finalize ==
    LET k == FinalizeOrder[next] IN
    /\ at = "finalize"
    /\ child' = IF k \in Kinds /\ obj.name \in Names THEN [child EXCEPT ![<<obj.name, k>>] = None] ELSE child
    /\ secret' = IF k = "Secret" THEN secret \ {obj.name} ELSE secret
    /\ IF next < Len(FinalizeOrder)
       THEN next' = next + 1 /\ UNCHANGED at
       ELSE next' = 1 /\ at' = "removeFinalizer"
    /\ UNCHANGED <<cr, created, changes, cascaded, obj, seen>>

\* Removing the last finalizer of an object removes the object.
RemoveFinalizer ==
    /\ at = "removeFinalizer"
    /\ cr' = IF cr # obj THEN cr
             ELSE IF cr.foreground THEN [cr EXCEPT !.finalizer = FALSE] ELSE None
    /\ Rest
    /\ UNCHANGED <<created, child, secret, changes, cascaded>>

\* MergeSpecs fills in the defaults; the object is updated if there were any.
Merge ==
    /\ at = "merge"
    /\ IF obj.name = Unset
       THEN Updated([obj EXCEPT !.name = DefaultName], "get")
       ELSE at' = "get" /\ UNCHANGED <<cr, next, obj, seen>>
    /\ UNCHANGED <<created, child, secret, changes, cascaded>>

\* The kinds of this instance that are still to do, and the one whose turn it is.
Todo == {i \in next..Len(CodeOrder) : CodeOrder[i] \in Kinds}
Turn == CHOOSE i \in Todo : \A j \in Todo : i <= j
Kind == CodeOrder[Turn]

\* Mutant of Desired: no controller reference is set.
DesiredUnowned(o, k) == [owner |-> None, spec |-> o.version, labels |-> TRUE, outside |-> FALSE]

\* getDesiredState...: owned children have the object as their controller.
Desired(o, k) ==
    [owner |-> IF k \in ClusterScoped THEN None ELSE o.uid,
     spec |-> o.version, labels |-> TRUE, outside |-> FALSE]

Get ==
    /\ at = "get"
    /\ seen' = child[<<obj.name, Kind>>]
    /\ at' = "write"
    /\ UNCHANGED <<cluster, next, obj>>

\* Mutant of Adopted: the desired state as it is.
AdoptedNot(k, want) == want

\* The ClusterIP of the Service and the CA bundle of the webhooks are taken over from
\* the child that was read.
Adopted(k, want) ==
    IF k \in {"Service", "MutatingWebhookConfiguration"}
    THEN [want EXCEPT !.outside = seen.outside] ELSE want

\* Issuer, Certificate, Service, Deployment.
OwnedDiffers(want) == seen.labels # want.labels \/ seen.owner # want.owner \/ seen.spec # want.spec

\* ServiceAccount: labels that differ are not a reason to patch.
ServiceAccountDiffers(want) == seen.owner # want.owner \/ seen.spec # want.spec

\* ClusterRole, ClusterRoleBinding.
ClusterScopedDiffers(want) == seen.spec # want.spec \/ seen.labels # want.labels

\* MutatingWebhookConfiguration: what is compared includes the CA bundle.
ConfigurationDiffers(want) == ClusterScopedDiffers(want) \/ seen.outside # want.outside

NeedsPatch(k, want) ==
    CASE k = "ServiceAccount" -> ServiceAccountDiffers(want)
      [] k = "MutatingWebhookConfiguration" -> ConfigurationDiffers(want)
      [] k \in {"ClusterRole", "ClusterRoleBinding"} -> ClusterScopedDiffers(want)
      [] OTHER -> OwnedDiffers(want)

\* A merge patch: the fields in which the child that was read differs from the
\* desired one.  The list of webhooks is one field, with the CA bundle in it.
Patched(now, k, want) ==
    LET webhooks == k = "MutatingWebhookConfiguration"
                    /\ (seen.spec # want.spec \/ seen.outside # want.outside)
    IN
    [owner   |-> IF k \notin ClusterScoped /\ seen.owner # want.owner THEN want.owner ELSE now.owner,
     spec    |-> IF seen.spec # want.spec THEN want.spec ELSE now.spec,
     labels  |-> IF seen.labels # want.labels THEN want.labels ELSE now.labels,
     outside |-> IF webhooks THEN want.outside ELSE now.outside]

\* The child is created, patched or left alone.  Creating one that is there by now,
\* or patching one that is not, is an error.
Write ==
    LET k == Kind
        now == child[<<obj.name, k>>]
        want == IF seen = None THEN Desired(obj, k) ELSE Adopted(k, Desired(obj, k))
        needed == seen = None \/ NeedsPatch(k, want)
    IN
    /\ at = "write"
    /\ IF needed /\ (seen = None) # (now = None)
       THEN Rest /\ UNCHANGED child
       ELSE /\ child' = IF ~needed THEN child
                        ELSE [child EXCEPT ![<<obj.name, k>>] =
                                 IF seen = None THEN want ELSE Patched(now, k, want)]
            /\ IF Todo # {Turn} THEN at' = "get" /\ next' = Turn + 1
                                ELSE at' = "status" /\ next' = 1
            /\ UNCHANGED <<obj, seen>>
    /\ UNCHANGED <<cr, created, secret, changes, cascaded>>

\* Mutant of Status: of a Deployment that was just created, no value.
StatusNil ==
    /\ at = "status"
    /\ cr' = IF cr = None THEN None
             ELSE [cr EXCEPT !.replicas = IF seen = None THEN None ELSE seen.outside]
    /\ Rest
    /\ UNCHANGED <<created, child, secret, changes, cascaded>>

\* The object is read again, and its status patched with that of the Deployment as
\* it was read: of a Deployment that was just created, with none.
Status ==
    /\ at = "status"
    /\ cr' = IF cr = None THEN None
             ELSE [cr EXCEPT !.replicas = "Deployment" \in Kinds /\ seen # None /\ seen.outside]
    /\ Rest
    /\ UNCHANGED <<created, child, secret, changes, cascaded>>

\* The steps of a Reconcile that meets no error but those that the state of the
\* cluster makes.
Proceed ==
    Begin \/ AddFinalizer \/ Finalize \/ RemoveFinalizer \/ Merge \/ Get \/ Write \/ Status

WorkerStep == Proceed \/ Abort

-----------------------------------------------------------------------------
UserStep ==
    \/ \E n \in Names \union {Unset}, v \in Versions : CreateObject(n, v) \/ EditObject(n, v)
    \/ \E foreground \in Cascades : DeleteObject(foreground)

ClusterStep ==
    \/ \E n \in Names, k \in Kinds : Interfere(n, k) \/ Collect(n, k) \/ Complete(n, k)
    \/ CollectDone
    \/ \E n \in Names : IssueCertificate(n)

Next == UserStep \/ ClusterStep \/ WorkerStep

Spec == Init /\ [][Next]_vars

\* Reconcile is called again and again, and calls stop failing for no reason in the
\* cluster, and the operator dying, at last; the other controllers do their work.
Fairness ==
    /\ WF_vars(Proceed) /\ <>[][WorkerStep => Proceed]_vars
    /\ \A n \in Names, k \in Kinds : WF_vars(Collect(n, k)) /\ WF_vars(Complete(n, k))
    /\ WF_vars(CollectDone)

FairSpec == Spec /\ Fairness

-----------------------------------------------------------------------------
(* Properties.                                                             *)

\* When the object is gone so are its cluster-scoped children, which nobody else
\* would ever collect: Reconcile persists the finalizer before it creates the first
\* of them, whenever the object is deleted and wherever an error or a crash cuts it
\* short, and finalizeZitiWebhook leaves none behind.
OrphanFree ==
    cr = None => \A n \in Names, k \in Kinds \intersect ClusterScoped : child[<<n, k>>] = None

\* As long as nobody deletes the object in the foreground.
NoOrphan == cascaded \/ OrphanFree

AsDesired(o, k) ==
    LET c == child[<<o.name, k>>] IN c # None /\ [c EXCEPT !.outside = FALSE] = Desired(o, k)

Settled == cr # None /\ cr.name \in Names /\ \A k \in Kinds : AsDesired(cr, k)

\* What a step leaves as it is, and what it makes right: a child that nobody has touched
\* since it was read (the labels of a ServiceAccount are not looked at).
LeavesAlone(k) == AsDesired(cr, k) => child'[<<cr.name, k>>] = child[<<cr.name, k>>]

PutsRight(k) ==
    /\ Write /\ Kind = k /\ seen = child[<<cr.name, k>>]
    /\ k = "ServiceAccount" /\ seen # None => seen.labels
    => AsDesired(cr, k)'

\* A Reconcile that read the object as it is changes no child that is as it should be,
\* neither what it wrote itself nor what other controllers added, be the others as they
\* may; and any other one it makes so in one call.
Corrects ==
    [][cr # None /\ cr.name \in Names /\ ~cr.deleting /\ obj = cr /\ WorkerStep
          => \A k \in Kinds : LeavesAlone(k) /\ PutsRight(k)]_vars

\* In the end, whatever was edited, deleted or interrupted: of an object that is gone
\* nothing is left that it owned or its finalizer deletes, the child included that was
\* created after the object was gone; and an object that is there has all its children
\* as its spec says, with what other controllers add, and tells so in its status.
\* (Reconcile and the garbage collector may undo each other's work for ever on an
\* object that waits for its foreground deletion.)
Converged ==
    IF cr = None
    THEN \A n \in Names, k \in Kinds :
            child[<<n, k>>] # None => cascaded /\ k \in ClusterScoped
    ELSE cr.foreground \/
         /\ ~cr.deleting /\ Settled
         /\ \A k \in Kinds \intersect {"Deployment", "MutatingWebhookConfiguration"} :
               child[<<cr.name, k>>].outside
         /\ cr.replicas = ("Deployment" \in Kinds)

Converges == <>[]Converged
=============================================================================
