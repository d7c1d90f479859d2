--------------------------- MODULE RouterReconciler ---------------------------
(***************************************************************************)
(* The operator's reconciler of one ZitiRouter object                      *)
(* (operator/internal/controller/zitirouter_controller.go): a ConfigMap, a *)
(* Service and a StatefulSet that have the object as their controller.  It *)
(* has no finalizer and does not look whether the object is being deleted: *)
(* the garbage collector takes the children.                               *)
(*                                                                         *)
(* As in WebhookReconciler an idle worker may start at any time, and any    *)
(* call may fail.  The children are named after Spec.Name, which users may  *)
(* edit: those of another name are new children, and the earlier ones stay  *)
(* until the object is gone.  The volumes of the pods have their defaults.  *)
(***************************************************************************)
EXTENDS Naturals, Sequences

CONSTANTS
    Names,          \* values of Spec.Name
    DefaultName,    \* metadata.name, the default of Spec.Name
    Unset,          \* an empty Spec.Name
    Versions,       \* values of a part of the spec
    Parts,          \* the parts of the spec that users edit
    Labels,         \* values of Spec.Deployment.Labels; Default is what it defaults to
    Default,
    Other,          \* what somebody else writes into a child
    Cascades,       \* may deletions be foreground ones?  a set of BOOLEANs
    MaxUid,         \* bound: how often the object is created
    MaxChanges,     \* bound: edits of the spec and changes to children by others
    None

\* data: the configuration, the ports and the pod spec; fixed: what the API server does
\* not let change in a StatefulSet, its selector and its volume claim templates;
\* annotations: those of the pods.
SpecParts == {"data", "fixed", "annotations"}

ASSUME ConstantsAssumption ==
    /\ DefaultName \in Names /\ Unset \notin Names
    /\ Parts \subseteq SpecParts /\ Default \in Labels
    /\ Other \notin Versions \union Labels
    /\ Cascades \subseteq BOOLEAN
    /\ MaxUid \in Nat /\ MaxChanges \in Nat

Order == <<"ConfigMap", "Service", "StatefulSet">>
Kinds == {Order[i] : i \in 1..Len(Order)}
Uids  == 1..MaxUid

VARIABLES
    cr,         \* the ZitiRouter object, or None
    created,    \* how many objects of that name there have been
    child,      \* child[<<n, k>>]: the child of kind k that is named after n, or None
    ready,      \* the names whose StatefulSet has its ready replicas
    changes,    \* edits and changes by others so far
    at,         \* the next call of Reconcile
    next,       \* the child it is about, an index of Order
    obj,        \* the object as Reconcile read it last
    seen,       \* the child as Reconcile read it last
    status      \* the ready replicas of the StatefulSet as it was read

cluster == <<cr, created, child, ready, changes>>
worker  == <<at, next, obj, seen, status>>
vars    == <<cluster, worker>>

\* merged: no default is missing; foreground: its deletion waits for the children.
ZitiRouters == [uid : Uids, name : Names \union {Unset}, spec : [SpecParts -> Versions], labels : Labels,
                merged : BOOLEAN, foreground : BOOLEAN, replicas : BOOLEAN]

\* The labels of the volume claim templates are those of the object.
Children == [owner : Uids \union {None}, labels : Labels \union {None},
             data : Versions \union {Other},
             fixed : (Versions \X Labels) \union {None},
             annotations : Versions \union {None}]

ASSUME NoneAssumption == None \notin ZitiRouters \union Children \union Labels

TypeOK ==
    /\ cr \in ZitiRouters \union {None}
    /\ created \in 0..MaxUid /\ changes \in 0..MaxChanges
    /\ child \in [Names \X Kinds -> Children \union {None}]
    /\ ready \subseteq Names /\ status \in BOOLEAN
    /\ at \in {"idle", "merge", "get", "write", "status"}
    /\ next \in 1..Len(Order)
    /\ obj \in ZitiRouters \union {None}
    /\ seen \in Children \union {None}
    /\ \A n \in ready : child[<<n, "StatefulSet">>] # None

Init ==
    /\ cr = None /\ created = 0 /\ changes = 0
    /\ child = [nk \in Names \X Kinds |-> None] /\ ready = {}
    /\ at = "idle" /\ next = 1 /\ obj = None /\ seen = None /\ status = FALSE

-----------------------------------------------------------------------------
(* Users, the garbage collector and the kubelet.                           *)

CreateObject(n, v, l, m) ==
    /\ cr = None /\ created < MaxUid
    /\ created' = created + 1
    /\ cr' = [uid |-> created + 1, name |-> n, spec |-> [part \in SpecParts |-> v],
              labels |-> l, merged |-> m, foreground |-> FALSE, replicas |-> FALSE]
    /\ UNCHANGED <<child, ready, changes, worker>>

EditObject(part, v) ==
    /\ cr # None /\ changes < MaxChanges
    /\ cr.spec[part] # v
    /\ cr' = [cr EXCEPT !.spec[part] = v]
    /\ changes' = changes + 1
    /\ UNCHANGED <<created, child, ready, worker>>

Rename(n) ==
    /\ cr # None /\ changes < MaxChanges
    /\ cr.name # n
    /\ cr' = [cr EXCEPT !.name = n]
    /\ changes' = changes + 1
    /\ UNCHANGED <<created, child, ready, worker>>

DeleteObject(foreground) ==
    /\ cr # None /\ ~cr.foreground
    /\ cr' = IF foreground THEN [cr EXCEPT !.foreground = TRUE] ELSE None
    /\ UNCHANGED <<created, child, ready, changes, worker>>

Lose(n, k) ==
    /\ child' = [child EXCEPT ![<<n, k>>] = None]
    /\ ready' = IF k = "StatefulSet" THEN ready \ {n} ELSE ready

\* Somebody deletes a child, edits it, or removes its labels and its owner.
Interfere(n, k) ==
    /\ child[<<n, k>>] # None /\ changes < MaxChanges
    /\ changes' = changes + 1
    /\ \/ Lose(n, k)
       \/ child' = [child EXCEPT ![<<n, k>>].data = Other] /\ UNCHANGED ready
       \/ child' = [child EXCEPT ![<<n, k>>].labels = None, ![<<n, k>>].owner = None] /\ UNCHANGED ready
    /\ UNCHANGED <<cr, created, worker>>

\* What belongs to an object that is gone or, in a foreground deletion, going.
Collect(n, k) ==
    LET c == child[<<n, k>>] IN
    /\ c # None /\ c.owner # None
    /\ cr # None /\ cr.uid = c.owner => cr.foreground
    /\ Lose(n, k)
    /\ UNCHANGED <<cr, created, changes, worker>>

CollectDone ==
    /\ cr # None /\ cr.foreground
    /\ \A nk \in Names \X Kinds : child[nk] # None => child[nk].owner # cr.uid
    /\ cr' = None
    /\ UNCHANGED <<created, child, ready, changes, worker>>

\* The pods mount a ConfigMap and a claim that are named after metadata.name; the claims
\* they get from the StatefulSet are named after Spec.Name.
Mountable(n) == n = DefaultName /\ child[<<DefaultName, "ConfigMap">>] # None

GetReady(n) ==
    /\ child[<<n, "StatefulSet">>] # None /\ n \notin ready
    /\ Mountable(n)
    /\ ready' = ready \union {n}
    /\ UNCHANGED <<cr, created, child, changes, worker>>

-----------------------------------------------------------------------------
(* Reconcile.                                                              *)

Rest == at' = "idle" /\ next' = 1 /\ obj' = None /\ seen' = None /\ status' = FALSE

\* An error is returned, or the operator dies.
Abort == at # "idle" /\ Rest /\ UNCHANGED cluster

Begin ==
    /\ at = "idle" /\ cr # None
    /\ obj' = cr /\ at' = "merge"
    /\ UNCHANGED <<cluster, next, seen, status>>

\* The defaults are filled in, and the object updated if there were any: a conflict
\* when it has changed since it was read.
Merge ==
    LET merged == [obj EXCEPT !.merged = TRUE,
                              !.name = IF @ = Unset THEN DefaultName ELSE @] IN
    /\ at = "merge"
    /\ IF merged = obj \/ cr = obj
       THEN /\ cr' = IF merged = obj THEN cr ELSE merged
            /\ obj' = merged /\ at' = "get"
            /\ UNCHANGED <<next, seen, status>>
       ELSE Rest /\ UNCHANGED cr
    /\ UNCHANGED <<created, child, ready, changes>>

Kind == Order[next]

Get ==
    /\ at = "get"
    /\ seen' = child[<<obj.name, Kind>>]
    /\ status' = (Kind = "StatefulSet" /\ obj.name \in ready)
    /\ at' = "write"
    /\ UNCHANGED <<cluster, next, obj>>

\* getDesiredStateConfigMap, ...Service, ...StatefulSetConfiguration.
Desired(o, k) ==
    LET stateful == k = "StatefulSet" IN
    [owner       |-> o.uid,
     labels      |-> IF stateful THEN o.labels ELSE Default,
     data        |-> o.spec["data"],
     fixed       |-> IF stateful THEN <<o.spec["fixed"], o.labels>> ELSE None,
     annotations |-> IF stateful THEN o.spec["annotations"] ELSE None]

\* Mutant of Repaired: the controller reference is not restored.
RepairedUnowned(want) ==
    [seen EXCEPT !.labels = IF @ # want.labels THEN Default ELSE @,
                 !.data = want.data, !.fixed = want.fixed]

\* Mutant of Repaired: the pod template is replaced by one without annotations.
RepairedTemplate(want) ==
    [seen EXCEPT !.labels = IF @ # want.labels THEN Default ELSE @,
                 !.owner = want.owner, !.data = want.data, !.fixed = want.fixed,
                 !.annotations = None]

\* The child that was read, brought up to date.  Labels that differ are replaced by the
\* default ones; the metadata of the pod template is not looked at.  (A StatefulSet
\* without claim templates, which only somebody else makes, is not modelled: the code takes
\* the first one of it, zitirouter_controller.go:289, and panics.)
Repaired(want) ==
    [seen EXCEPT !.labels = IF @ # want.labels THEN Default ELSE @,
                 !.owner = want.owner, !.data = want.data, !.fixed = want.fixed]

\* A merge patch: the fields in which the child that was read was changed.
Patched(now, new) ==
    [f \in DOMAIN now |-> IF new[f] # seen[f] THEN new[f] ELSE now[f]]

\* The child is created, or patched if need be: an error when it is there by now, when
\* it is not, or when what is fixed would change.
Write ==
    LET now  == child[<<obj.name, Kind>>]
        want == Desired(obj, Kind)
        new  == IF seen = None THEN want ELSE Repaired(want)
        refused ==
            \/ (seen = None) # (now = None) /\ new # seen
            \/ seen # None /\ now # None /\ Patched(now, new).fixed # now.fixed
    IN
    /\ at = "write"
    /\ IF refused
       THEN Rest /\ UNCHANGED child
       ELSE /\ child' = IF new = seen THEN child
                        ELSE [child EXCEPT ![<<obj.name, Kind>>] =
                                 IF seen = None THEN want ELSE Patched(now, new)]
            /\ IF next < Len(Order) THEN at' = "get" /\ next' = next + 1
                                    ELSE at' = "status" /\ next' = 1
            /\ UNCHANGED <<obj, seen, status>>
    /\ UNCHANGED <<cr, created, ready, changes>>

\* The object is read again, and its status patched with the ready replicas of the
\* StatefulSet as it was read.
Status ==
    /\ at = "status"
    /\ cr' = IF cr = None THEN None ELSE [cr EXCEPT !.replicas = status]
    /\ Rest
    /\ UNCHANGED <<created, child, ready, changes>>

\* The steps of a Reconcile that meets no error but those that the state of the
\* cluster makes.
Proceed == Begin \/ Merge \/ Get \/ Write \/ Status

WorkerStep == Proceed \/ Abort

-----------------------------------------------------------------------------
Next ==
    \/ \E n \in Names \union {Unset}, v \in Versions, l \in Labels, m \in BOOLEAN :
          CreateObject(n, v, l, m)
    \/ \E part \in Parts, v \in Versions : EditObject(part, v)
    \/ \E n \in Names \union {Unset} : Rename(n)
    \/ \E foreground \in Cascades : DeleteObject(foreground)
    \/ \E n \in Names, k \in Kinds : Interfere(n, k) \/ Collect(n, k)
    \/ CollectDone
    \/ \E n \in Names : GetReady(n)
    \/ WorkerStep

Spec == Init /\ [][Next]_vars

\* Reconcile is called every 30 s and after every error, and calls stop failing for no
\* reason in the cluster, and the operator dying, at last; the garbage collector and the kubelet do their work.
Fairness ==
    /\ WF_vars(Proceed) /\ <>[][WorkerStep => Proceed]_vars
    /\ \A n \in Names, k \in Kinds : WF_vars(Collect(n, k))
    /\ WF_vars(CollectDone) /\ \A n \in Names : WF_vars(GetReady(n))

FairSpec == Spec /\ Fairness

-----------------------------------------------------------------------------
(* Properties.                                                             *)

Settled ==
    cr # None /\ cr.name \in Names /\ \A k \in Kinds : child[<<cr.name, k>>] = Desired(cr, k)

\* The spec asks for something the API server does not let change: the StatefulSet of
\* that name is one made for an earlier spec.
Immutable ==
    /\ cr.name \in Names /\ child[<<cr.name, "StatefulSet">>] # None
    /\ child[<<cr.name, "StatefulSet">>].fixed # Desired(cr, "StatefulSet").fixed

\* What a step leaves as it is, and what it makes right: a child that nobody has touched
\* since it was read, but for labels that differ, which become the default ones, and for
\* the annotations of the pod template, which are not looked at.
LeavesAlone(k) ==
    child[<<cr.name, k>>] = Desired(cr, k) => child'[<<cr.name, k>>] = child[<<cr.name, k>>]

PutsRight(k) ==
    LET now  == child'[<<cr.name, k>>]
        want == Desired(cr, k)
    IN
    /\ Write /\ Kind = k /\ seen = child[<<cr.name, k>>]
    /\ k = "StatefulSet" => ~Immutable
    => now # None /\ now.labels \in {want.labels, Default}
       /\ now = [want EXCEPT !.labels = now.labels, !.annotations = now.annotations]

\* A Reconcile that read the object as it is changes no child that is as it should be, be
\* the others as they may, and any other one it makes so in one call.
Corrects ==
    [][cr # None /\ cr.name \in Names /\ obj = cr /\ WorkerStep
          => \A k \in Kinds : LeavesAlone(k) /\ PutsRight(k)]_vars

\* In the end, whatever was edited, renamed, deleted or interrupted: of an object that
\* is gone nothing is left, under any name it ever had, but what somebody took from it,
\* the child included that Reconcile created after it was gone; and an object that is
\* there has its children as its spec says, and its status tells the ready replicas of
\* the StatefulSet of its present name.  (Reconcile and the garbage collector may undo
\* each other's work for ever while a foreground deletion is under way.)
Converged ==
    IF cr = None THEN \A nk \in Names \X Kinds : child[nk] # None => child[nk].owner = None
    ELSE cr.foreground \/ Immutable \/
         /\ Settled
         /\ cr.replicas = (cr.name \in ready)
         /\ cr.name = DefaultName => cr.name \in ready

Converges == <>[]Converged

\* Whatever Spec.Name is, the routers of an object that is there get ready in the end.
RoutersGetReady == <>[](cr = None \/ cr.foreground \/ Immutable \/ cr.name \in ready)
=============================================================================
