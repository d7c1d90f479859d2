-------------------------- MODULE Reconcilers_proofs --------------------------
(***************************************************************************)
(* Proofs about WebhookReconciler, and about RouterReconciler in the second *)
(* part, for any sets of kinds, names, versions and labels, and however    *)
(* often an object is created, edited and interfered with.                 *)
(*                                                                         *)
(* The two have most of their names in common, so that RouterReconciler is *)
(* an instance R, with variables of its own.                               *)
(***************************************************************************)
EXTENDS WebhookReconciler, TLAPS

-----------------------------------------------------------------------------
(* The inductive invariant.                                                *)

\* What the worker has read when it makes a call, and how far it can be.
Reading ==
    /\ at # "idle" => obj \in ZitiWebhooks
    /\ at \in {"get", "write"} => obj.name \in Names /\ Todo # {}
    /\ at = "finalize" => next \in 1..Len(FinalizeOrder)
    /\ at \in {"idle", "addFinalizer", "merge"} => next = 1

Typed == TypeOK /\ Reading

\* Only Reconcile, which is past it, removes the finalizer of an object that nobody
\* deletes in the foreground.
Held ==
    /\ cr # None => ~cr.foreground /\ (cr.deleting => cr.finalizer)
    /\ at \notin {"idle", "addFinalizer"} => cr # None /\ cr.finalizer /\ cr.name = obj.name

\* A cluster-scoped child is there only with the object it was made for, and that
\* object has the finalizer.
Covered ==
    \A n \in Names, k \in Kinds \intersect ClusterScoped :
        child[<<n, k>>] # None => cr # None /\ cr.finalizer /\ cr.name = n

\* finalizeZitiWebhook leaves nothing behind of what it is past.
Finalized ==
    /\ at = "finalize" =>
          \A i \in 1..(next - 1) :
              FinalizeOrder[i] \in Kinds /\ obj.name \in Names => child[<<obj.name, FinalizeOrder[i]>>] = None
    /\ at = "removeFinalizer" =>
          \A k \in Kinds \intersect ClusterScoped : obj.name \in Names => child[<<obj.name, k>>] = None

Guarded == cascaded \/ (Held /\ Covered /\ Finalized)

\* Between the read of a child and its write the others can only take from it what
\* the reconciler gave it, or add what is theirs.
Fresh ==
    /\ at = "finalize" => obj.deleting
    /\ at = "write" =>
          LET now == child[<<obj.name, Kind>>] IN
          now # None =>
              /\ seen # None /\ now.owner = seen.owner
              /\ now.spec = Other \/ now.spec = seen.spec
              /\ now.labels = FALSE \/ now.labels = seen.labels

-----------------------------------------------------------------------------
(* What the operators of a step return.                                    *)

LEMMA CodeOrderLength == Len(CodeOrder) = 8 /\ Len(FinalizeOrder) = 4
BY DEF CodeOrder, FinalizeOrder

LEMMA LeastOfEight ==
  ASSUME NEW S \in SUBSET (1..8), S # {}
  PROVE  \E i \in S : \A j \in S : i <= j
<1>1. CASE 1 \in S \/ 2 \in S
  <2>1. CASE 1 \in S
    BY <2>1
  <2>2. CASE 1 \notin S
    BY <1>1, <2>2
  <2> QED BY <2>1, <2>2
<1>2. ASSUME 1 \notin S, 2 \notin S PROVE \E i \in S : \A j \in S : i <= j
  <2>1. CASE 3 \in S
    BY <1>2, <2>1
  <2>2. CASE 3 \notin S /\ 4 \in S
    BY <1>2, <2>2
  <2>3. CASE 3 \notin S /\ 4 \notin S /\ 5 \in S
    BY <1>2, <2>3
  <2>4. CASE 3 \notin S /\ 4 \notin S /\ 5 \notin S
    <3>1. S \subseteq 6..8
      BY <1>2, <2>4
    <3>2. CASE 6 \in S
      BY <3>1, <3>2
    <3>3. CASE 6 \notin S /\ 7 \in S
      BY <3>1, <3>3
    <3>4. CASE 6 \notin S /\ 7 \notin S
      <4>1. \A i \in S : i = 8
        BY <3>1, <3>4
      <4>2. 8 \in S
        BY <4>1
      <4> QED BY <4>1, <4>2
    <3> QED BY <3>2, <3>3, <3>4
  <2> QED BY <2>1, <2>2, <2>3, <2>4
<1> QED BY <1>1, <1>2

\* Whose turn it is, is the first that is still to do.
LEMMA TurnIsFirst ==
  ASSUME next \in 1..Len(CodeOrder), Todo # {}
  PROVE  /\ Turn \in Todo /\ \A j \in Todo : Turn <= j
         /\ Turn \in next..8 /\ Kind \in Kinds
<1>1. Todo \subseteq next..8 /\ Todo \in SUBSET (1..8)
  BY CodeOrderLength DEF Todo
<1>2. \E i \in Todo : \A j \in Todo : i <= j
  BY <1>1, LeastOfEight
<1>3. Turn \in Todo /\ \A j \in Todo : Turn <= j
  BY <1>2 DEF Turn
<1> QED BY <1>1, <1>3 DEF Todo, Kind

\* While others are to do, the one after this turn is.
LEMMA TurnPasses ==
  ASSUME next \in 1..Len(CodeOrder), Todo # {}, Todo # {Turn}, next' = Turn + 1
  PROVE  Todo' # {} /\ next' \in 1..Len(CodeOrder)
<1>1. Turn \in Todo /\ Turn \in next..8 /\ \A j \in Todo : Turn <= j
  BY CodeOrderLength, TurnIsFirst
<1>2. PICK i \in Todo : i # Turn
  BY <1>1
<1>3. i \in Turn + 1 .. 8 /\ CodeOrder[i] \in Kinds
  BY <1>1, <1>2, CodeOrderLength DEF Todo
<1>4. i \in Todo'
  BY <1>3, CodeOrderLength DEF Todo
<1> QED BY <1>1, <1>3, <1>4, CodeOrderLength

LEMMA DesiredType ==
  ASSUME NEW o \in ZitiWebhooks, NEW k
  PROVE  Desired(o, k) \in Children
BY DEF Desired, ZitiWebhooks, Children

\* What Write makes of a child that it creates or patches.
LEMMA WrittenType ==
  ASSUME NEW o \in ZitiWebhooks, NEW k, seen \in Children \union {None}
  PROVE  /\ seen # None => Adopted(k, Desired(o, k)) \in Children
         /\ \A now \in Children : seen # None => Patched(now, k, Adopted(k, Desired(o, k))) \in Children
<1>1. Desired(o, k) \in Children
  BY DesiredType
<1>2. ASSUME seen # None PROVE Adopted(k, Desired(o, k)) \in Children
  BY <1>1, <1>2 DEF Adopted, Children
<1>3. ASSUME NEW now \in Children, seen # None
      PROVE  Patched(now, k, Adopted(k, Desired(o, k))) \in Children
  BY <1>2, <1>3 DEF Patched, Children
<1> QED BY <1>2, <1>3

\* The cluster-scoped kinds are those that the finalizer deletes, in this order.
LEMMA FinalizedKinds ==
  ASSUME NEW k \in ClusterScoped
  PROVE  \E i \in {1, 2, 4} : FinalizeOrder[i] = k
<1>1. FinalizeOrder[1] = "ClusterRole" /\ FinalizeOrder[2] = "ClusterRoleBinding"
      /\ FinalizeOrder[4] = "MutatingWebhookConfiguration"
  BY DEF FinalizeOrder
<1>2. k \in {"ClusterRole", "ClusterRoleBinding", "MutatingWebhookConfiguration"}
  BY DEF ClusterScoped
<1> QED BY <1>1, <1>2

-----------------------------------------------------------------------------
(* Type correctness.                                                       *)

LEMMA TypedInit == Init => Typed
<1> SUFFICES ASSUME Init PROVE TypeOK /\ Reading
  BY DEF Typed
<1>1. 0 \in 0..MaxUid /\ 0 \in 0..MaxChanges /\ 1 \in 1..Len(CodeOrder)
  BY ConstantsAssumption, CodeOrderLength
<1>2. child \in [Names \X Kinds -> Children \union {None}]
  BY DEF Init
<1> QED BY <1>1, <1>2 DEF Init, TypeOK, Reading

LEMMA TypedRest ==
  ASSUME Rest
  PROVE  Reading' /\ next' \in 1..Len(CodeOrder) /\ obj' = None /\ seen' = None /\ at' = "idle"
BY CodeOrderLength DEF Rest, Reading

\* An Update of the object succeeds, or Reconcile is over.
LEMMA TypedUpdated ==
  ASSUME Typed, NEW new \in ZitiWebhooks, NEW label, Updated(new, label)
  PROVE  /\ cr' \in ZitiWebhooks \union {None} /\ obj' \in ZitiWebhooks \union {None}
         /\ seen' \in Children \union {None} /\ next' \in 1..Len(CodeOrder)
         /\ \/ at' = label /\ obj' = new /\ cr' = new /\ cr = obj /\ next' = next
            \/ Rest /\ cr' = cr
BY CodeOrderLength DEF Updated, Rest, Typed, TypeOK

LEMMA TypedUser == Typed /\ UserStep => Typed'
<1> SUFFICES ASSUME TypeOK, Reading, UserStep PROVE TypeOK' /\ Reading'
  BY DEF Typed
<1> USE ConstantsAssumption DEF worker
<1>1. ASSUME NEW n \in Names \union {Unset}, NEW v \in Versions, CreateObject(n, v)
      PROVE  TypeOK' /\ Reading'
  <2>1. created + 1 \in Uids /\ created + 1 \in 0..MaxUid
    BY <1>1 DEF CreateObject, TypeOK, Uids
  <2>2. cr' \in ZitiWebhooks
    BY <1>1, <2>1 DEF CreateObject, ZitiWebhooks
  <2> QED BY <1>1, <2>1, <2>2 DEF CreateObject, TypeOK, Reading, Todo
<1>2. ASSUME NEW n \in Names \union {Unset}, NEW v \in Versions, EditObject(n, v)
      PROVE  TypeOK' /\ Reading'
  <2>1. changes + 1 \in 0..MaxChanges
    BY <1>2 DEF EditObject, TypeOK
  <2>2. cr' \in ZitiWebhooks
    BY <1>2 DEF EditObject, TypeOK, ZitiWebhooks
  <2> QED BY <1>2, <2>1, <2>2 DEF EditObject, TypeOK, Reading, Todo
<1>3. ASSUME NEW foreground \in Cascades, DeleteObject(foreground) PROVE TypeOK' /\ Reading'
  <2>1. foreground \in BOOLEAN
    OBVIOUS
  <2>2. cr' \in ZitiWebhooks \union {None}
    BY <1>3, <2>1 DEF DeleteObject, TypeOK, ZitiWebhooks
  <2>3. cascaded' \in BOOLEAN
    BY <1>3, <2>1 DEF DeleteObject, TypeOK
  <2> QED BY <1>3, <2>2, <2>3 DEF DeleteObject, TypeOK, Reading, Todo
<1> QED BY <1>1, <1>2, <1>3 DEF UserStep

LEMMA TypedCluster == Typed /\ ClusterStep => Typed'
<1> SUFFICES ASSUME TypeOK, Reading, ClusterStep PROVE TypeOK' /\ Reading'
  BY DEF Typed
<1> USE ConstantsAssumption DEF worker
<1>1. ASSUME NEW n \in Names, NEW k \in Kinds, Interfere(n, k) PROVE TypeOK' /\ Reading'
  <2>1. changes + 1 \in 0..MaxChanges
    BY <1>1 DEF Interfere, TypeOK
  <2>2. child[<<n, k>>] \in Children
    BY <1>1 DEF Interfere, TypeOK
  <2>3. \E now \in Children \union {None} : child' = [child EXCEPT ![<<n, k>>] = now]
    BY <1>1, <2>2 DEF Interfere, Children
  <2>4. child' \in [Names \X Kinds -> Children \union {None}]
    BY <2>3 DEF TypeOK
  <2> QED BY <1>1, <2>1, <2>4 DEF Interfere, TypeOK, Reading, Todo
<1>2. ASSUME NEW n \in Names, NEW k \in Kinds, Collect(n, k) PROVE TypeOK' /\ Reading'
  BY <1>2 DEF Collect, TypeOK, Reading, Todo
<1>3. ASSUME NEW n \in Names, NEW k \in Kinds, Complete(n, k) PROVE TypeOK' /\ Reading'
  <2>1. child[<<n, k>>] \in Children
    BY <1>3 DEF Complete, TypeOK
  <2>2. [child[<<n, k>>] EXCEPT !.outside = TRUE] \in Children
    BY <2>1 DEF Children
  <2>3. child' \in [Names \X Kinds -> Children \union {None}]
    BY <1>3, <2>2 DEF Complete, TypeOK
  <2> QED BY <1>3, <2>3 DEF Complete, TypeOK, Reading, Todo
<1>4. CASE CollectDone
  <2>1. cr \in ZitiWebhooks /\ (cr' = None \/ cr' = [cr EXCEPT !.foreground = FALSE])
    BY <1>4 DEF CollectDone, TypeOK
  <2>2. cr' \in ZitiWebhooks \union {None}
    BY <2>1 DEF ZitiWebhooks
  <2> QED BY <1>4, <2>2 DEF CollectDone, TypeOK, Reading, Todo
<1>5. ASSUME NEW n \in Names, IssueCertificate(n) PROVE TypeOK' /\ Reading'
  BY <1>5 DEF IssueCertificate, TypeOK, Reading, Todo
<1> QED BY <1>1, <1>2, <1>3, <1>4, <1>5 DEF ClusterStep

LEMMA TypedWorker == Typed /\ WorkerStep => Typed'
<1> SUFFICES ASSUME Typed, TypeOK, Reading, WorkerStep PROVE TypeOK' /\ Reading'
  BY DEF Typed
<1> USE ConstantsAssumption, CodeOrderLength DEF cluster
<1>1. CASE Abort
  BY <1>1, TypedRest DEF Abort, TypeOK
<1>2. CASE Begin
  BY <1>2, NoneAssumption DEF Begin, TypeOK, Reading
<1>3. CASE AddFinalizer
  <2>1. [obj EXCEPT !.finalizer = TRUE] \in ZitiWebhooks
    BY <1>3 DEF AddFinalizer, Reading, ZitiWebhooks
  <2>2. Updated([obj EXCEPT !.finalizer = TRUE], "merge")
    BY <1>3 DEF AddFinalizer
  <2>3. Reading'
    BY <1>3, <2>1, <2>2, TypedUpdated, TypedRest DEF AddFinalizer, Reading
  <2> QED BY <1>3, <2>1, <2>2, <2>3, TypedUpdated, TypedRest DEF AddFinalizer, TypeOK
<1>4. CASE Finalize
  <2>1. child' \in [Names \X Kinds -> Children \union {None}] /\ secret' \subseteq Names
    BY <1>4 DEF Finalize, TypeOK
  <2>2. Reading' /\ next' \in 1..Len(CodeOrder)
    BY <1>4 DEF Finalize, TypeOK, Reading
  <2> QED BY <1>4, <2>1, <2>2 DEF Finalize, TypeOK
<1>5. CASE RemoveFinalizer
  <2>1. cr' \in ZitiWebhooks \union {None}
    <3>1. \/ cr' \in {cr, None}
          \/ cr \in ZitiWebhooks /\ cr' = [cr EXCEPT !.finalizer = FALSE]
      BY <1>5 DEF RemoveFinalizer, Reading
    <3>2. cr \in ZitiWebhooks \union {None}
      BY DEF TypeOK
    <3> QED BY <3>1, <3>2 DEF ZitiWebhooks
  <2> QED BY <1>5, <2>1, TypedRest DEF RemoveFinalizer, TypeOK
<1>6. CASE Merge
  <2>1. obj \in ZitiWebhooks /\ next = 1
    BY <1>6 DEF Merge, Reading
  <2>2. next' = 1 => Todo' # {}
    BY DEF Todo, CodeOrder
  <2>3. CASE obj.name = Unset
    <3>1. [obj EXCEPT !.name = DefaultName] \in ZitiWebhooks
          /\ [obj EXCEPT !.name = DefaultName].name \in Names
      BY <2>1 DEF ZitiWebhooks
    <3>2. Updated([obj EXCEPT !.name = DefaultName], "get")
      BY <1>6, <2>3 DEF Merge
    <3>3. Reading'
      <4>1. \/ at' = "get" /\ obj' = [obj EXCEPT !.name = DefaultName] /\ next' = next
            \/ Rest
        BY <3>1, <3>2, TypedUpdated
      <4> QED BY <2>1, <2>2, <3>1, <4>1, TypedRest DEF Reading
    <3> QED BY <1>6, <3>1, <3>2, <3>3, TypedUpdated, TypedRest DEF Merge, TypeOK
  <2>4. CASE obj.name # Unset
    <3>1. obj.name \in Names
      BY <2>1, <2>4 DEF ZitiWebhooks
    <3> QED BY <1>6, <2>1, <2>2, <2>4, <3>1 DEF Merge, TypeOK, Reading
  <2> QED BY <2>3, <2>4
<1>7. CASE Get
  <2>1. obj.name \in Names /\ Kind \in Kinds /\ Todo # {}
    BY <1>7, TurnIsFirst DEF Get, Reading, TypeOK
  <2>2. seen' \in Children \union {None} /\ Todo' = Todo
    BY <1>7, <2>1 DEF Get, TypeOK, Todo
  <2> QED BY <1>7, <2>1, <2>2 DEF Get, TypeOK, Reading
<1>8. CASE Write
  <2>1. obj \in ZitiWebhooks /\ obj.name \in Names /\ Kind \in Kinds /\ Todo # {}
        /\ seen \in Children \union {None}
    BY <1>8, TurnIsFirst DEF Write, Reading, TypeOK
  <2>2. child' \in [Names \X Kinds -> Children \union {None}]
    <3>1. child[<<obj.name, Kind>>] \in Children \union {None}
      BY <2>1 DEF TypeOK
    <3>2. child' = child
          \/ (seen = None /\ child' = [child EXCEPT ![<<obj.name, Kind>>] = Desired(obj, Kind)])
          \/ (seen # None /\ child[<<obj.name, Kind>>] # None
              /\ child' = [child EXCEPT ![<<obj.name, Kind>>] =
                             Patched(child[<<obj.name, Kind>>], Kind, Adopted(Kind, Desired(obj, Kind)))])
      BY <1>8 DEF Write
    <3> QED BY <2>1, <3>1, <3>2, DesiredType, WrittenType DEF TypeOK
  <2>3. \/ Rest
        \/ at' = "get" /\ next' = Turn + 1 /\ Todo # {Turn} /\ UNCHANGED <<obj, seen>>
        \/ at' = "status" /\ next' = 1 /\ UNCHANGED <<obj, seen>>
    BY <1>8 DEF Write
  <2>4. /\ Reading' /\ next' \in 1..Len(CodeOrder) /\ at' \in {"idle", "get", "status"}
        /\ obj' \in ZitiWebhooks \union {None} /\ seen' \in Children \union {None}
    BY <2>1, <2>3, TurnPasses, TypedRest DEF Reading, TypeOK
  <2> QED BY <1>8, <2>2, <2>4 DEF Write, TypeOK
<1>9. CASE Status
  <2>1. ("Deployment" \in Kinds /\ seen # None /\ seen.outside) \in BOOLEAN
    OBVIOUS
  <2>2. cr' \in ZitiWebhooks \union {None}
    BY <1>9, <2>1 DEF Status, TypeOK, ZitiWebhooks
  <2> QED BY <1>9, <2>2, TypedRest DEF Status, TypeOK
<1> QED BY <1>1, <1>2, <1>3, <1>4, <1>5, <1>6, <1>7, <1>8, <1>9 DEF WorkerStep, Proceed

LEMMA TypedStep == Typed /\ [Next]_vars => Typed'
<1>1. Typed /\ UNCHANGED vars => Typed'
  BY DEF vars, cluster, worker, Typed, TypeOK, Reading, Todo
<1> QED BY <1>1, TypedUser, TypedCluster, TypedWorker DEF Next

\* The variables keep their types, whatever users, other controllers and failures do.
THEOREM TypeCorrect == Spec => []TypeOK
<1>1. Typed => TypeOK
  BY DEF Typed
<1> QED BY <1>1, TypedInit, TypedStep, PTL DEF Spec

-----------------------------------------------------------------------------
(* No orphan: the finalizer is there before and until after its children.   *)

LEMMA GuardedInit == Init => Guarded
BY DEF Init, Guarded, Held, Covered, Finalized

\* Updates and deletions leave the parts of the object that they do not write.
LEMMA Deleted ==
  ASSUME NEW o \in ZitiWebhooks
  PROVE  LET new == [o EXCEPT !.deleting = TRUE, !.foreground = FALSE] IN
         new # None /\ new.name = o.name /\ new.finalizer = o.finalizer /\ new.deleting
         /\ new.foreground = FALSE
<1>1. [o EXCEPT !.deleting = TRUE, !.foreground = FALSE] \in ZitiWebhooks
  BY DEF ZitiWebhooks
<1> QED BY <1>1, NoneAssumption DEF ZitiWebhooks

LEMMA Finalizing ==
  ASSUME NEW o \in ZitiWebhooks
  PROVE  LET new == [o EXCEPT !.finalizer = TRUE] IN
         new # None /\ new.name = o.name /\ new.finalizer /\ new.deleting = o.deleting
         /\ new.foreground = o.foreground
<1>1. [o EXCEPT !.finalizer = TRUE] \in ZitiWebhooks
  BY DEF ZitiWebhooks
<1> QED BY <1>1, NoneAssumption DEF ZitiWebhooks

LEMMA Named ==
  ASSUME NEW o \in ZitiWebhooks
  PROVE  LET new == [o EXCEPT !.name = DefaultName] IN
         new # None /\ new.name = DefaultName /\ new.finalizer = o.finalizer /\ new.deleting = o.deleting
         /\ new.foreground = o.foreground
<1>1. [o EXCEPT !.name = DefaultName] \in ZitiWebhooks
  BY ConstantsAssumption DEF ZitiWebhooks
<1> QED BY <1>1, NoneAssumption DEF ZitiWebhooks

LEMMA Reported ==
  ASSUME NEW o \in ZitiWebhooks, NEW b \in BOOLEAN
  PROVE  LET new == [o EXCEPT !.replicas = b] IN
         new # None /\ new.name = o.name /\ new.finalizer = o.finalizer /\ new.deleting = o.deleting
         /\ new.foreground = o.foreground
<1>1. [o EXCEPT !.replicas = b] \in ZitiWebhooks
  BY DEF ZitiWebhooks
<1> QED BY <1>1, NoneAssumption DEF ZitiWebhooks

\* A step that takes children away, and nothing else.
LEMMA GuardedLess ==
  ASSUME Held, Covered, Finalized, UNCHANGED <<cr, at, next, obj>>,
         \A n \in Names, k \in Kinds : child'[<<n, k>>] # None => child[<<n, k>>] # None
  PROVE  Held' /\ Covered' /\ Finalized'
BY DEF Held, Covered, Finalized

LEMMA GuardedUser ==
  ASSUME Renames = FALSE, Typed, Held, Covered, Finalized, ~cascaded', UserStep
  PROVE  Held' /\ Covered' /\ Finalized'
<1>0. cr \in ZitiWebhooks \union {None} /\ (at # "idle" => obj \in ZitiWebhooks)
  BY DEF Typed, TypeOK, Reading
<1> USE NoneAssumption DEF worker
<1>1. ASSUME NEW n \in Names \union {Unset}, NEW v \in Versions, CreateObject(n, v)
      PROVE  Held' /\ Covered' /\ Finalized'
  BY <1>1 DEF CreateObject, Held, Covered, Finalized
<1>2. ASSUME NEW n \in Names \union {Unset}, NEW v \in Versions, EditObject(n, v)
      PROVE  Held' /\ Covered' /\ Finalized'
  <2>1. cr \in ZitiWebhooks /\ cr' = [cr EXCEPT !.name = n, !.version = v]
    BY <1>0, <1>2 DEF EditObject
  <2>2. cr' # None /\ cr'.name = n /\ cr'.finalizer = cr.finalizer /\ cr'.deleting = cr.deleting
        /\ cr'.foreground = cr.foreground
    <3>1. cr' \in ZitiWebhooks
      BY <2>1 DEF ZitiWebhooks
    <3> QED BY <2>1, <3>1 DEF ZitiWebhooks
  <2>3. n = cr.name /\ cr # None
    BY <1>2 DEF EditObject
  <2> QED BY <1>2, <2>2, <2>3 DEF EditObject, Held, Covered, Finalized
<1>3. ASSUME NEW foreground \in Cascades, DeleteObject(foreground)
      PROVE  Held' /\ Covered' /\ Finalized'
  <2>1. foreground = FALSE
    BY <1>3, ConstantsAssumption DEF DeleteObject
  <2>2. CASE ~cr.finalizer
    <3>1. cr' = None
      BY <1>3, <2>1, <2>2 DEF DeleteObject
    <3> QED BY <1>3, <2>2, <3>1 DEF DeleteObject, Held, Covered, Finalized
  <2>3. CASE cr.finalizer
    <3>1. cr' = [cr EXCEPT !.deleting = TRUE, !.foreground = FALSE] /\ cr \in ZitiWebhooks
      BY <1>0, <1>3, <2>1, <2>3 DEF DeleteObject
    <3>2. cr'.name = cr.name /\ cr'.finalizer = cr.finalizer /\ cr'.deleting
          /\ cr'.foreground = FALSE /\ cr # None /\ cr' # None
      BY <3>1, Deleted
    <3> QED BY <1>3, <2>3, <3>2 DEF DeleteObject, Held, Covered, Finalized
  <2> QED BY <2>2, <2>3
<1> QED BY <1>1, <1>2, <1>3 DEF UserStep

LEMMA GuardedCluster ==
  ASSUME Typed, Held, Covered, Finalized, ClusterStep
  PROVE  Held' /\ Covered' /\ Finalized'
<1> DEFINE Less == /\ UNCHANGED <<cr, at, next, obj>>
                   /\ \A n \in Names, k \in Kinds : child'[<<n, k>>] # None => child[<<n, k>>] # None
<1>0. child \in [Names \X Kinds -> Children \union {None}]
  BY DEF Typed, TypeOK
<1>1. ASSUME NEW n \in Names, NEW k \in Kinds, Interfere(n, k) PROVE Less
  BY <1>0, <1>1 DEF Interfere, worker
<1>2. ASSUME NEW n \in Names, NEW k \in Kinds, Collect(n, k) PROVE Less
  BY <1>0, <1>2 DEF Collect, worker
<1>3. ASSUME NEW n \in Names, NEW k \in Kinds, Complete(n, k) PROVE Less
  BY <1>0, <1>3 DEF Complete, worker
<1>4. ASSUME NEW n \in Names, IssueCertificate(n) PROVE Less
  BY <1>4 DEF IssueCertificate, worker
<1>5. ~CollectDone
  BY DEF CollectDone, Held
<1> QED BY <1>1, <1>2, <1>3, <1>4, <1>5, GuardedLess DEF ClusterStep

\* What the cluster keeps while the worker only moves.
LEMMA GuardedMove ==
  ASSUME Held, Covered, UNCHANGED cr, obj' = obj \/ at' \in {"idle", "addFinalizer"},
         at' \in {"idle", "addFinalizer", "get", "write", "status"},
         at' \in {"get", "write", "status"} => at \notin {"idle", "addFinalizer"},
         \A n \in Names, k \in Kinds \intersect ClusterScoped :
            child'[<<n, k>>] # None =>
               child[<<n, k>>] # None \/ (cr # None /\ cr.finalizer /\ cr.name = n)
  PROVE  Held' /\ Covered' /\ Finalized'
BY DEF Held, Covered, Finalized

LEMMA GuardedWorker ==
  ASSUME Typed, Held, Covered, Finalized, WorkerStep
  PROVE  Held' /\ Covered' /\ Finalized'
<1>0. TypeOK /\ Reading /\ child \in [Names \X Kinds -> Children \union {None}]
      /\ cr \in ZitiWebhooks \union {None} /\ (at # "idle" => obj \in ZitiWebhooks)
      /\ seen \in Children \union {None}
  BY DEF Typed, TypeOK, Reading
<1> USE NoneAssumption, ConstantsAssumption DEF cluster
<1>1. ASSUME Rest, UNCHANGED <<cr, child>> PROVE Held' /\ Covered' /\ Finalized'
  BY <1>1, GuardedMove DEF Rest, Covered
<1>2. CASE Begin
  BY <1>0, <1>2 DEF Begin, Held, Covered, Finalized, Reading
<1>3. CASE AddFinalizer
  <2>1. CASE Rest /\ UNCHANGED cr
    BY <1>1, <1>3, <2>1 DEF AddFinalizer
  <2>2. CASE cr = obj /\ cr' = [obj EXCEPT !.finalizer = TRUE] /\ obj' = cr' /\ at' = "merge"
    <3>1. /\ obj \in ZitiWebhooks /\ obj # None /\ cr' # None /\ cr'.name = obj.name /\ cr'.finalizer
          /\ cr'.deleting = obj.deleting /\ cr'.foreground = obj.foreground
      BY <1>0, <1>3, <2>2, Finalizing DEF AddFinalizer
    <3> QED BY <1>3, <2>2, <3>1 DEF AddFinalizer, Held, Covered, Finalized
  <2> QED BY <1>3, <2>1, <2>2 DEF AddFinalizer, Updated
<1>4. CASE Finalize
  <2>1. /\ at = "finalize" /\ UNCHANGED <<cr, obj>> /\ next \in 1..4
        /\ \/ next < 4 /\ next' = next + 1 /\ at' = at
           \/ next = 4 /\ next' = 1 /\ at' = "removeFinalizer"
    BY <1>0, <1>4, CodeOrderLength DEF Finalize, Reading
  <2>2. /\ \A n \in Names, k \in Kinds : child'[<<n, k>>] # None => child[<<n, k>>] # None
        /\ FinalizeOrder[next] \in Kinds /\ obj.name \in Names
              => child'[<<obj.name, FinalizeOrder[next]>>] = None
    BY <1>0, <1>4 DEF Finalize
  <2>3. Held' /\ Covered'
    BY <2>1, <2>2 DEF Held, Covered
  <2>4. \A i \in 1..next : FinalizeOrder[i] \in Kinds /\ obj.name \in Names
                              => child'[<<obj.name, FinalizeOrder[i]>>] = None
    <3> SUFFICES ASSUME NEW i \in 1..next, FinalizeOrder[i] \in Kinds, obj.name \in Names
                 PROVE  child'[<<obj.name, FinalizeOrder[i]>>] = None
      OBVIOUS
    <3>1. CASE i = next
      BY <2>2, <3>1
    <3>2. CASE i # next
      <4>1. i \in 1..(next - 1)
        BY <2>1, <3>2
      <4>2. child[<<obj.name, FinalizeOrder[i]>>] = None
        BY <2>1, <4>1 DEF Finalized
      <4> QED BY <2>2, <4>2
    <3> QED BY <3>1, <3>2
  <2>5. CASE at' = "finalize"
    <3>1. next' - 1 = next
      BY <2>1, <2>5
    <3> QED BY <2>1, <2>3, <2>4, <2>5, <3>1 DEF Finalized
  <2>6. CASE at' = "removeFinalizer"
    <3>1. ASSUME NEW k \in Kinds \intersect ClusterScoped, obj.name \in Names
          PROVE  child'[<<obj.name, k>>] = None
      <4>1. PICK i \in {1, 2, 4} : FinalizeOrder[i] = k
        BY FinalizedKinds
      <4>2. i \in 1..next
        BY <2>1, <2>6
      <4> QED BY <2>4, <3>1, <4>1, <4>2
    <3> QED BY <2>1, <2>3, <2>6, <3>1 DEF Finalized
  <2> QED BY <2>1, <2>5, <2>6
<1>5. CASE RemoveFinalizer
  <2>1. at = "removeFinalizer" /\ Rest /\ UNCHANGED child /\ cr # None /\ ~cr.foreground
        /\ cr.name = obj.name
    BY <1>5 DEF RemoveFinalizer, Held
  <2>2. CASE cr # obj
    BY <1>1, <1>5, <2>1, <2>2 DEF RemoveFinalizer
  <2>3. CASE cr = obj
    <3>1. cr' = None
      BY <1>5, <2>1, <2>3 DEF RemoveFinalizer
    <3>2. \A n \in Names, k \in Kinds \intersect ClusterScoped : child'[<<n, k>>] = None
      BY <2>1 DEF Covered, Finalized
    <3> QED BY <2>1, <3>1, <3>2 DEF Held, Covered, Finalized, Rest
  <2> QED BY <2>2, <2>3
<1>6. CASE Merge
  <2>1. at = "merge" /\ UNCHANGED child /\ cr # None /\ cr.finalizer /\ cr.name = obj.name
    BY <1>6 DEF Merge, Held
  <2>2. CASE obj.name # Unset
    BY <1>6, <2>1, <2>2, GuardedMove DEF Merge
  <2>3. CASE obj.name = Unset /\ cr = obj
    <3>1. cr' = [cr EXCEPT !.name = DefaultName] /\ obj' = cr' /\ at' = "get"
      BY <1>6, <2>3 DEF Merge, Updated
    <3>2. cr \in ZitiWebhooks /\ cr' # None /\ cr'.name = DefaultName /\ cr'.finalizer
          /\ cr'.deleting = cr.deleting /\ cr'.foreground = cr.foreground
      BY <1>0, <2>1, <3>1, Named
    <3>3. \A n \in Names, k \in Kinds \intersect ClusterScoped : child[<<n, k>>] = None
      BY <2>1, <2>3 DEF Covered
    <3> QED BY <2>1, <3>1, <3>2, <3>3 DEF Held, Covered, Finalized
  <2>4. CASE obj.name = Unset /\ cr # obj
    BY <1>1, <1>6, <2>4 DEF Merge, Updated
  <2> QED BY <2>2, <2>3, <2>4
<1>7. CASE Get
  BY <1>7, GuardedMove DEF Get
<1>8. CASE Write
  <2>1. at = "write" /\ obj.name \in Names /\ Kind \in Kinds
    BY <1>0, <1>8, TurnIsFirst DEF Write, Reading, TypeOK
  <2>2. \A n \in Names, k \in Kinds : child'[<<n, k>>] # None =>
            child[<<n, k>>] # None \/ n = obj.name
    BY <1>0, <1>8, <2>1 DEF Write
  <2>3. cr # None /\ cr.finalizer /\ cr.name = obj.name
    BY <2>1 DEF Held
  <2>4. (Rest \/ (at' \in {"get", "status"} /\ obj' = obj)) /\ UNCHANGED cr
    BY <1>8 DEF Write
  <2>5. (obj' = obj \/ at' \in {"idle", "addFinalizer"}) /\ at' \in {"idle", "get", "status"}
    BY <2>4 DEF Rest
  <2> QED BY <2>1, <2>2, <2>3, <2>4, <2>5, GuardedMove
<1>9. CASE Status
  <2>1. at = "status" /\ Rest /\ UNCHANGED child /\ cr \in ZitiWebhooks
    BY <1>0, <1>9 DEF Status, Held
  <2>2. ("Deployment" \in Kinds /\ seen # None /\ seen.outside) \in BOOLEAN
    OBVIOUS
  <2>3. cr' # None /\ cr'.name = cr.name /\ cr'.finalizer = cr.finalizer
        /\ cr'.deleting = cr.deleting /\ cr'.foreground = cr.foreground
    BY <1>9, <2>1, <2>2, Reported DEF Status
  <2> QED BY <2>1, <2>3 DEF Rest, Held, Covered, Finalized
<1>10. CASE Abort
  BY <1>1, <1>10 DEF Abort
<1> QED BY <1>2, <1>3, <1>4, <1>5, <1>6, <1>7, <1>8, <1>9, <1>10 DEF WorkerStep, Proceed

LEMMA GuardedInvariance == Renames = FALSE => (Spec => [](Typed /\ Guarded))
<1> SUFFICES ASSUME Renames = FALSE PROVE Spec => [](Typed /\ Guarded)
  OBVIOUS
<1>1. Typed /\ Guarded /\ [Next]_vars => Guarded'
  <2> SUFFICES ASSUME Typed, Guarded, [Next]_vars, ~cascaded' PROVE Held' /\ Covered' /\ Finalized'
    BY DEF Guarded
  <2>1. ~cascaded
    BY DEF Next, vars, cluster, UserStep, ClusterStep, WorkerStep, Proceed, CreateObject, EditObject,
           DeleteObject, Interfere, Collect, CollectDone, IssueCertificate, Complete, Abort, Begin,
           AddFinalizer, Finalize, RemoveFinalizer, Merge, Get, Write, Status
  <2>2. Held /\ Covered /\ Finalized
    BY <2>1 DEF Guarded
  <2>3. CASE UNCHANGED vars
    BY <2>2, <2>3, GuardedLess DEF vars, cluster, worker
  <2> QED BY <2>2, <2>3, GuardedUser, GuardedCluster, GuardedWorker DEF Next
<1> QED BY <1>1, TypedInit, TypedStep, GuardedInit, PTL DEF Spec

\* When the object is gone no cluster-scoped child is left, wherever an error or a
\* crash has cut Reconcile short, unless Spec.Name was changed or the object was
\* deleted in the foreground.
THEOREM NoOrphanHolds == Renames = FALSE => (Spec => []NoOrphan)
<1> SUFFICES ASSUME Renames = FALSE PROVE Spec => []NoOrphan
  OBVIOUS
<1>1. Guarded => NoOrphan
  BY DEF Guarded, Covered, NoOrphan, OrphanFree
<1> QED BY <1>1, GuardedInvariance, PTL

-----------------------------------------------------------------------------
(* Reconcile leaves alone what is as it should be, and puts the rest right. *)

LEMMA FreshInit == Init => Fresh
BY DEF Init, Fresh

\* What another does to a child.
LEMMA FreshLess ==
  ASSUME Typed, Fresh, UNCHANGED <<at, next, obj, seen>>,
         \A n \in Names, k \in Kinds :
            LET was == child[<<n, k>>]  now == child'[<<n, k>>] IN
            now # None => /\ was # None /\ now.owner = was.owner
                          /\ now.spec \in {was.spec, Other} /\ now.labels \in {was.labels, FALSE}
  PROVE  Fresh'
<1>1. CASE at # "write"
  BY <1>1 DEF Fresh
<1>2. CASE at = "write"
  <2>1. obj.name \in Names /\ Kind \in Kinds /\ Kind' = Kind
    BY <1>2, TurnIsFirst DEF Typed, TypeOK, Reading, Kind, Turn, Todo
  <2> DEFINE was == child[<<obj.name, Kind>>]
             now == child'[<<obj.name, Kind>>]
  <2>2. now # None => /\ was # None /\ now.owner = was.owner
                      /\ now.spec \in {was.spec, Other} /\ now.labels \in {was.labels, FALSE}
    BY <2>1
  <2>3. was # None => /\ seen # None /\ was.owner = seen.owner
                      /\ was.spec = Other \/ was.spec = seen.spec
                      /\ was.labels = FALSE \/ was.labels = seen.labels
    BY <1>2 DEF Fresh
  <2>4. now # None => /\ seen # None /\ now.owner = seen.owner
                      /\ now.spec = Other \/ now.spec = seen.spec
                      /\ now.labels = FALSE \/ now.labels = seen.labels
    BY <2>2, <2>3
  <2> QED BY <1>2, <2>1, <2>4 DEF Fresh
<1> QED BY <1>1, <1>2

LEMMA FreshStep == Typed /\ Fresh /\ [Next]_vars => Fresh'
<1> SUFFICES ASSUME Typed, Fresh, [Next]_vars PROVE Fresh'
  OBVIOUS
<1>0. TypeOK /\ Reading /\ child \in [Names \X Kinds -> Children \union {None}]
  BY DEF Typed, TypeOK
<1> DEFINE Less == \A n \in Names, k \in Kinds :
            LET was == child[<<n, k>>]  now == child'[<<n, k>>] IN
            now # None => /\ was # None /\ now.owner = was.owner
                          /\ now.spec \in {was.spec, Other} /\ now.labels \in {was.labels, FALSE}
<1>1. ASSUME UNCHANGED <<worker, child>> PROVE Fresh'
  BY <1>1, FreshLess DEF worker
<1>2. ASSUME UserStep PROVE UNCHANGED <<worker, child>>
  BY <1>2 DEF UserStep, CreateObject, EditObject, DeleteObject
<1>3. ASSUME NEW n \in Names, NEW k \in Kinds, Interfere(n, k) PROVE Fresh'
  <2>1. Less
    <3>1. child[<<n, k>>] \in Children /\ child[<<n, k>>] # None
      BY <1>0, <1>3 DEF Interfere
    <3> DEFINE was == child[<<n, k>>]
    <3>2. PICK now \in {None, [was EXCEPT !.spec = Other], [was EXCEPT !.labels = FALSE]} :
             child' = [child EXCEPT ![<<n, k>>] = now]
      BY <1>3 DEF Interfere
    <3>3. now = None \/ /\ now.owner = was.owner
                        /\ now.spec \in {was.spec, Other} /\ now.labels \in {was.labels, FALSE}
      BY <3>1, <3>2 DEF Children
    <3> QED BY <1>0, <3>1, <3>2, <3>3
  <2> QED BY <1>3, <2>1, FreshLess DEF Interfere, worker
<1>4. ASSUME NEW n \in Names, NEW k \in Kinds, Collect(n, k) PROVE Fresh'
  <2>1. Less
    BY <1>0, <1>4 DEF Collect
  <2> QED BY <1>4, <2>1, FreshLess DEF Collect, worker
<1>5. ASSUME NEW n \in Names, NEW k \in Kinds, Complete(n, k) PROVE Fresh'
  <2>1. Less
    BY <1>0, <1>5 DEF Complete, Children
  <2> QED BY <1>5, <2>1, FreshLess DEF Complete, worker
<1>6. ASSUME CollectDone \/ (\E n \in Names : IssueCertificate(n)) PROVE UNCHANGED <<worker, child>>
  BY <1>6 DEF CollectDone, IssueCertificate
<1>7. CASE WorkerStep
  <2>1. CASE Begin
    BY <2>1 DEF Begin, Fresh
  <2>2. CASE Get
    <3>1. seen' = child'[<<obj'.name, Kind'>>] /\ at' = "write"
      BY <2>2 DEF Get, cluster, Kind, Turn, Todo
    <3> QED BY <3>1 DEF Fresh
  <2>3. CASE Finalize
    BY <2>3 DEF Finalize, Fresh
  <2>4. ASSUME AddFinalizer \/ RemoveFinalizer \/ Merge \/ Write \/ Status \/ Abort
        PROVE  at' \notin {"write", "finalize"}
    BY <2>4 DEF AddFinalizer, RemoveFinalizer, Merge, Write, Status, Abort, Updated, Rest
  <2> QED BY <1>7, <2>1, <2>2, <2>3, <2>4 DEF WorkerStep, Proceed, Fresh
<1>8. CASE UNCHANGED vars
  BY <1>1, <1>8 DEF vars, cluster
<1> QED BY <1>1, <1>2, <1>3, <1>4, <1>5, <1>6, <1>7, <1>8 DEF Next, ClusterStep

\* A cluster-scoped child never has an owner.
Unowned ==
    \A n \in Names, k \in Kinds \intersect ClusterScoped :
        child[<<n, k>>] # None => child[<<n, k>>].owner = None

LEMMA UnownedStep == Typed /\ Unowned /\ [Next]_vars => Unowned'
<1> SUFFICES ASSUME Typed, Unowned, [Next]_vars PROVE Unowned'
  OBVIOUS
<1>0. TypeOK /\ Reading /\ child \in [Names \X Kinds -> Children \union {None}]
  BY DEF Typed, TypeOK
<1>1. ASSUME UNCHANGED child PROVE Unowned'
  BY <1>1 DEF Unowned
<1>2. ASSUME NEW n \in Names, NEW k \in Kinds, NEW c \in Children \union {None},
             k \in ClusterScoped => c = None \/ c.owner = None,
             child' = [child EXCEPT ![<<n, k>>] = c]
      PROVE  Unowned'
  BY <1>0, <1>2 DEF Unowned
<1>3. ASSUME NEW n \in Names, NEW k \in Kinds, Interfere(n, k) PROVE Unowned'
  <2>1. child[<<n, k>>] \in Children /\ child[<<n, k>>] # None
    BY <1>0, <1>3 DEF Interfere
  <2> DEFINE was == child[<<n, k>>]
  <2>2. PICK now \in {None, [was EXCEPT !.spec = Other], [was EXCEPT !.labels = FALSE]} :
           child' = [child EXCEPT ![<<n, k>>] = now]
    BY <1>3 DEF Interfere
  <2>3. now \in Children \union {None} /\ (now = None \/ now.owner = was.owner)
    BY <2>1, <2>2 DEF Children
  <2>4. k \in ClusterScoped => was.owner = None
    BY <2>1 DEF Unowned
  <2> QED BY <1>2, <2>2, <2>3, <2>4
<1>4. ASSUME NEW n \in Names, NEW k \in Kinds, Collect(n, k) PROVE Unowned'
  BY <1>2, <1>4 DEF Collect
<1>5. ASSUME NEW n \in Names, NEW k \in Kinds, Complete(n, k) PROVE Unowned'
  <2>1. child[<<n, k>>] \in Children /\ child[<<n, k>>] # None
    BY <1>0, <1>5 DEF Complete
  <2> DEFINE now == [child[<<n, k>>] EXCEPT !.outside = TRUE]
  <2>2. child' = [child EXCEPT ![<<n, k>>] = now]
    BY <1>5 DEF Complete
  <2>3. now \in Children /\ now.owner = child[<<n, k>>].owner
    BY <2>1 DEF Children
  <2>4. k \in ClusterScoped => now.owner = None
    BY <2>1, <2>3 DEF Unowned
  <2> HIDE DEF now
  <2> QED BY <1>2, <2>2, <2>3, <2>4
<1>6. CASE Finalize
  <2>1. child' = child \/ (FinalizeOrder[next] \in Kinds /\ obj.name \in Names
                           /\ child' = [child EXCEPT ![<<obj.name, FinalizeOrder[next]>>] = None])
    BY <1>6 DEF Finalize
  <2> QED BY <1>1, <1>2, <2>1
<1>7. CASE Write
  <2>1. obj \in ZitiWebhooks /\ obj.name \in Names /\ Kind \in Kinds /\ seen \in Children \union {None}
    BY <1>0, <1>7, TurnIsFirst DEF Write, Reading, TypeOK
  <2> DEFINE now == child[<<obj.name, Kind>>]
             want == Adopted(Kind, Desired(obj, Kind))
  <2>2. \/ child' = child
        \/ seen = None /\ child' = [child EXCEPT ![<<obj.name, Kind>>] = Desired(obj, Kind)]
        \/ /\ seen # None /\ now # None
           /\ child' = [child EXCEPT ![<<obj.name, Kind>>] = Patched(now, Kind, want)]
    BY <1>7 DEF Write
  <2>3. ASSUME seen = None, child' = [child EXCEPT ![<<obj.name, Kind>>] = Desired(obj, Kind)]
        PROVE  Unowned'
    <3>1. Desired(obj, Kind) \in Children /\ (Kind \in ClusterScoped => Desired(obj, Kind).owner = None)
      BY <2>1, DesiredType DEF Desired
    <3> QED BY <1>2, <2>1, <2>3, <3>1
  <2>4. ASSUME seen # None, now # None,
               child' = [child EXCEPT ![<<obj.name, Kind>>] = Patched(now, Kind, want)]
        PROVE  Unowned'
    <3>1. now \in Children
      BY <1>0, <2>1, <2>4
    <3>2. Patched(now, Kind, want) \in Children
      BY <2>1, <2>4, <3>1, WrittenType
    <3>3. Kind \in ClusterScoped => Patched(now, Kind, want).owner = now.owner
      BY DEF Patched
    <3>4. Kind \in ClusterScoped => now.owner = None
      BY <2>1, <2>4 DEF Unowned
    <3> HIDE DEF now, want
    <3> QED BY <1>2, <2>1, <2>4, <3>2, <3>3, <3>4
  <2> QED BY <1>1, <2>2, <2>3, <2>4
<1>8. ASSUME \/ UserStep \/ CollectDone \/ (\E n \in Names : IssueCertificate(n))
             \/ Begin \/ AddFinalizer \/ RemoveFinalizer \/ Merge \/ Get \/ Status \/ Abort
             \/ UNCHANGED vars
      PROVE  UNCHANGED child
  BY <1>8 DEF UserStep, CreateObject, EditObject, DeleteObject, CollectDone, IssueCertificate, Begin,
              AddFinalizer, RemoveFinalizer, Merge, Get, Status, Abort, cluster, vars
<1> QED BY <1>1, <1>3, <1>4, <1>5, <1>6, <1>7, <1>8 DEF Next, ClusterStep, WorkerStep, Proceed

LEMMA UnownedInit == Init => Unowned
BY DEF Init, Unowned

LEMMA LeavesAloneStep ==
  ASSUME Typed, Fresh, cr # None, cr.name \in Names, ~cr.deleting, obj = cr, WorkerStep,
         NEW k \in Kinds
  PROVE  LeavesAlone(k)
<1>0. TypeOK /\ Reading /\ child \in [Names \X Kinds -> Children \union {None}]
  BY DEF Typed, TypeOK
<1> SUFFICES ASSUME AsDesired(cr, k) PROVE child'[<<cr.name, k>>] = child[<<cr.name, k>>]
  BY DEF LeavesAlone
<1>1. ~Finalize
  BY DEF Finalize, Fresh
<1>2. CASE Write
  <2>1. at = "write" /\ obj \in ZitiWebhooks /\ obj.name \in Names /\ Kind \in Kinds
    BY <1>0, <1>2, TurnIsFirst DEF Write, Reading, TypeOK
  <2>2. child' = child \/ \E c : child' = [child EXCEPT ![<<obj.name, Kind>>] = c]
    BY <1>2 DEF Write
  <2>3. CASE k # Kind
    BY <1>0, <2>1, <2>2, <2>3
  <2>4. CASE k = Kind
    <3> DEFINE now == child[<<obj.name, Kind>>]
               want == Adopted(Kind, Desired(obj, Kind))
    <3>2. now # None /\ now \in Children /\ [now EXCEPT !.outside = FALSE] = Desired(obj, Kind)
      BY <1>0, <2>1, <2>4 DEF AsDesired
    <3>3. /\ now.owner = Desired(obj, Kind).owner /\ now.spec = Desired(obj, Kind).spec
          /\ now.labels = Desired(obj, Kind).labels
      <4>1. /\ [now EXCEPT !.outside = FALSE].owner = now.owner
            /\ [now EXCEPT !.outside = FALSE].spec = now.spec
            /\ [now EXCEPT !.outside = FALSE].labels = now.labels
        BY <3>2 DEF Children
      <4> QED BY <3>2, <4>1
    <3>4. now.spec # Other /\ now.labels # FALSE
      BY <2>1, <3>3, ConstantsAssumption DEF Desired, ZitiWebhooks
    <3>5. seen # None /\ now.owner = seen.owner /\ now.spec = seen.spec /\ now.labels = seen.labels
      BY <2>1, <3>2, <3>4 DEF Fresh
    <3>6. /\ want.owner = seen.owner /\ want.spec = seen.spec /\ want.labels = seen.labels
          /\ Kind = "MutatingWebhookConfiguration" => want.outside = seen.outside
      BY <3>3, <3>5 DEF Adopted, Desired
    <3>7. ~NeedsPatch(Kind, want)
      BY <3>6 DEF NeedsPatch, OwnedDiffers, ServiceAccountDiffers, ClusterScopedDiffers,
                  ConfigurationDiffers
    <3>8. UNCHANGED child
      BY <1>2, <3>5, <3>7 DEF Write
    <3> QED BY <3>8
  <2> QED BY <2>3, <2>4
<1> QED BY <1>1, <1>2 DEF WorkerStep, Proceed, Abort, Begin, AddFinalizer, RemoveFinalizer,
        Merge, Get, Status, cluster

\* Made of an object read as it is, a Write on a child that nobody has touched since it was
\* read meets no error, and leaves the child as the object says, but for the labels of a
\* ServiceAccount, which are not looked at.
LEMMA WriteRights ==
  ASSUME Typed, Unowned, cr # None, cr.name \in Names, obj = cr, Write,
         NEW k \in Kinds, Kind = k, seen = child[<<cr.name, k>>]
  PROVE  /\ cr \in ZitiWebhooks /\ cr' = cr /\ obj' = obj
         /\ \E c \in Children :
               /\ child' = [child EXCEPT ![<<cr.name, k>>] = c]
               /\ c.owner = Desired(cr, k).owner /\ c.spec = Desired(cr, k).spec
               /\ c.labels \/ (k = "ServiceAccount" /\ seen # None /\ ~seen.labels)
         /\ IF Todo # {Turn} THEN at' = "get" /\ next' = Turn + 1
                             ELSE at' = "status" /\ next' = 1
<1>0. TypeOK /\ Reading /\ child \in [Names \X Kinds -> Children \union {None}]
  BY DEF Typed, TypeOK
<1>1. /\ cr' = cr /\ cr \in ZitiWebhooks /\ seen \in Children \union {None}
      /\ child[<<cr.name, k>>] = seen
  BY <1>0 DEF Write, Reading, TypeOK
<1>2. /\ obj' = obj
      /\ IF Todo # {Turn} THEN at' = "get" /\ next' = Turn + 1
                          ELSE at' = "status" /\ next' = 1
  BY <1>1 DEF Write
<1>3. ASSUME NEW c \in Children, child' = [child EXCEPT ![<<cr.name, k>>] = c],
             c.owner = Desired(cr, k).owner, c.spec = Desired(cr, k).spec,
             c.labels \/ (k = "ServiceAccount" /\ seen # None /\ ~seen.labels)
      PROVE  \E d \in Children :
               /\ child' = [child EXCEPT ![<<cr.name, k>>] = d]
               /\ d.owner = Desired(cr, k).owner /\ d.spec = Desired(cr, k).spec
               /\ d.labels \/ (k = "ServiceAccount" /\ seen # None /\ ~seen.labels)
  BY <1>3
<1>4. CASE seen = None
  <2>1. child' = [child EXCEPT ![<<cr.name, k>>] = Desired(cr, k)]
    BY <1>1, <1>4 DEF Write
  <2>2. Desired(cr, k).labels
    BY DEF Desired
  <2>3. Desired(cr, k) \in Children
    BY <1>1, DesiredType
  <2> QED BY <1>1, <1>2, <1>3, <2>1, <2>2, <2>3
<1>5. CASE seen # None
  <2> DEFINE want == Adopted(k, Desired(cr, k))
             c == IF NeedsPatch(k, want) THEN Patched(seen, k, want) ELSE seen
  <2>1. seen \in Children /\ want \in Children
    BY <1>1, <1>5, WrittenType
  <2>2. /\ want.owner = Desired(cr, k).owner /\ want.spec = Desired(cr, k).spec
        /\ want.labels = TRUE
    BY DEF Adopted, Desired
  <2>3. k \in ClusterScoped => seen.owner = None /\ Desired(cr, k).owner = None
    BY <1>1, <1>5 DEF Unowned, Desired
  <2>4. child' = [child EXCEPT ![<<cr.name, k>>] = c]
    <3>1. child' = IF ~NeedsPatch(k, want) THEN child
                   ELSE [child EXCEPT ![<<cr.name, k>>] = Patched(seen, k, want)]
      BY <1>1, <1>5 DEF Write
    <3> QED BY <1>0, <1>1, <3>1
  <2>5. CASE NeedsPatch(k, want)
    <3>1. c \in Children
      BY <1>1, <1>5, <2>1, <2>5, WrittenType
    <3>2. c.spec = want.spec /\ c.labels = want.labels
      BY <2>5 DEF Patched
    <3>3. c.owner = Desired(cr, k).owner
      BY <2>2, <2>3, <2>5 DEF Patched
    <3> HIDE DEF c, want
    <3> QED BY <1>1, <1>2, <1>3, <2>2, <2>4, <3>1, <3>2, <3>3
  <2>6. CASE ~NeedsPatch(k, want)
    <3>1. c = seen
      BY <2>6
    <3>2. seen.spec = want.spec
      BY <2>6 DEF NeedsPatch, OwnedDiffers, ServiceAccountDiffers, ClusterScopedDiffers,
                  ConfigurationDiffers
    <3>3. seen.labels = TRUE \/ k = "ServiceAccount"
      BY <2>2, <2>6 DEF NeedsPatch, OwnedDiffers, ClusterScopedDiffers, ConfigurationDiffers
    <3>4. seen.labels \in BOOLEAN
      BY <2>1 DEF Children
    <3>5. seen.owner = Desired(cr, k).owner
      BY <2>2, <2>3, <2>6
      DEF NeedsPatch, OwnedDiffers, ServiceAccountDiffers, ClusterScopedDiffers,
          ConfigurationDiffers, ClusterScoped
    <3> HIDE DEF c, want
    <3> QED BY <1>1, <1>2, <1>3, <1>5, <2>1, <2>2, <2>4, <3>1, <3>2, <3>3, <3>4, <3>5
  <2> QED BY <2>5, <2>6
<1> QED BY <1>4, <1>5

LEMMA PutsRightStep ==
  ASSUME Typed, Unowned, cr # None, cr.name \in Names, obj = cr, NEW k \in Kinds
  PROVE  PutsRight(k)
<1> SUFFICES ASSUME Write, Kind = k, seen = child[<<cr.name, k>>],
                    k = "ServiceAccount" /\ seen # None => seen.labels
             PROVE  AsDesired(cr, k)'
  BY DEF PutsRight
<1>0. child \in [Names \X Kinds -> Children \union {None}]
  BY DEF Typed, TypeOK
<1>1. /\ cr \in ZitiWebhooks /\ cr' = cr
      /\ \E c \in Children :
            /\ child' = [child EXCEPT ![<<cr.name, k>>] = c]
            /\ c.owner = Desired(cr, k).owner /\ c.spec = Desired(cr, k).spec
            /\ c.labels \/ (k = "ServiceAccount" /\ seen # None /\ ~seen.labels)
  BY WriteRights
<1>2. PICK c \in Children :
            /\ child' = [child EXCEPT ![<<cr.name, k>>] = c]
            /\ c.owner = Desired(cr, k).owner /\ c.spec = Desired(cr, k).spec
            /\ c.labels
  BY <1>1
<1>3. child'[<<cr'.name, k>>] = c /\ c # None
  BY <1>0, <1>1, <1>2, NoneAssumption
<1>4. c.labels = TRUE
  BY <1>2 DEF Children
<1>5. /\ c \in Children /\ Desired(cr, k) \in Children
      /\ c.owner = Desired(cr, k).owner /\ c.spec = Desired(cr, k).spec
      /\ c.labels = Desired(cr, k).labels /\ Desired(cr, k).outside = FALSE
  <2>1. Desired(cr, k) \in Children
    BY <1>1, DesiredType
  <2>2. Desired(cr, k).labels = TRUE /\ Desired(cr, k).outside = FALSE
    BY DEF Desired
  <2> QED BY <1>2, <1>4, <2>1, <2>2
<1>6. [c EXCEPT !.outside = FALSE] = Desired(cr, k)
  BY <1>5 DEF Children
<1> QED BY <1>1, <1>3, <1>6 DEF AsDesired

\* However the object was edited and the children were interfered with before, a
\* Reconcile that has read the object as it is changes no child that is as it should be,
\* even if the one that it compares has changed since it was read, and makes any other
\* one that has not changed since as it should be in one call, whatever was done to it:
\* the needsPatch conditions and the patches of the eight kinds fit together
\* (zitiwebhook_controller.go:171-641).
THEOREM CorrectsHolds == Spec => Corrects
<1>1. Typed /\ Fresh /\ Unowned /\ [Next]_vars
        => [cr # None /\ cr.name \in Names /\ ~cr.deleting /\ obj = cr /\ WorkerStep
              => \A k \in Kinds : LeavesAlone(k) /\ PutsRight(k)]_vars
  BY LeavesAloneStep, PutsRightStep
<1> QED
  BY <1>1, TypedInit, TypedStep, FreshInit, FreshStep, UnownedInit, UnownedStep, PTL
  DEF Spec, Corrects

-----------------------------------------------------------------------------
(* One pass is enough: the safety part of the convergence.                 *)

\* What a pass makes of a child; only the labels of a ServiceAccount are not looked at.
Right(k) ==
    LET c == child[<<cr.name, k>>] IN
    /\ c # None /\ c.owner = Desired(cr, k).owner /\ c.spec = Desired(cr, k).spec
    /\ k # "ServiceAccount" => c.labels

\* How far a pass has got that nobody disturbs: what it has read is as it is, and the
\* children that it is past are right.
Undisturbed ==
    /\ at # "idle" => cr # None /\ obj = cr
    /\ at = "write" => seen = child[<<cr.name, Kind>>]
    /\ at \in {"get", "write"} => \A i \in 1..(next - 1) : CodeOrder[i] \in Kinds => Right(CodeOrder[i])
    /\ at = "status" => cr.name \in Names /\ \A k \in Kinds : Right(k)

AllRight == at = "status" => cr # None /\ cr.name \in Names /\ \A k \in Kinds : Right(k)

\* The pass comes to its last call.
GetsOn == at \in {"addFinalizer", "finalize", "merge", "get", "write"} => at' # "idle"

LEMMA WriteGoesOn ==
  ASSUME Typed, Unowned, Undisturbed, Write
  PROVE  Undisturbed' /\ at' # "idle"
<1>0. /\ TypeOK /\ Reading /\ child \in [Names \X Kinds -> Children \union {None}]
      /\ at = "write"
  BY DEF Typed, TypeOK, Write
<1>1. /\ cr # None /\ obj = cr /\ cr.name \in Names /\ Kind \in Kinds /\ Todo # {}
      /\ seen = child[<<cr.name, Kind>>] /\ next \in 1..8
      /\ Turn \in Todo /\ Turn \in next..8 /\ \A j \in Todo : Turn <= j
  BY <1>0, TurnIsFirst, CodeOrderLength DEF Reading, TypeOK, Undisturbed
<1>2. PICK k \in Kinds : k = Kind
  BY <1>1
<1>3. /\ cr' = cr /\ obj' = obj
      /\ \E c \in Children :
            /\ child' = [child EXCEPT ![<<cr.name, k>>] = c]
            /\ c.owner = Desired(cr, k).owner /\ c.spec = Desired(cr, k).spec
            /\ c.labels \/ (k = "ServiceAccount" /\ seen # None /\ ~seen.labels)
      /\ IF Todo # {Turn} THEN at' = "get" /\ next' = Turn + 1
                          ELSE at' = "status" /\ next' = 1
  BY <1>1, <1>2, WriteRights
<1>4. PICK c \in Children :
            /\ child' = [child EXCEPT ![<<cr.name, k>>] = c]
            /\ c.owner = Desired(cr, k).owner /\ c.spec = Desired(cr, k).spec
            /\ k # "ServiceAccount" => c.labels
  BY <1>3
<1>5. Right(k)'
  <2>1. child'[<<cr'.name, k>>] = c /\ c # None
    BY <1>0, <1>1, <1>3, <1>4, NoneAssumption
  <2> QED BY <1>3, <1>4, <2>1 DEF Right
<1>6. ASSUME NEW l \in Kinds, Right(l) PROVE Right(l)'
  <2>1. CASE l = k
    BY <1>5, <2>1
  <2>2. CASE l # k
    <3>1. child'[<<cr'.name, l>>] = child[<<cr.name, l>>]
      BY <1>0, <1>1, <1>3, <1>4, <2>2
    <3> QED BY <1>3, <1>6, <3>1 DEF Right
  <2> QED BY <2>1, <2>2
\* Of those up to this turn, the earlier ones are right or not there to be done.
<1>7. ASSUME NEW i \in 1..Turn, CodeOrder[i] \in Kinds PROVE Right(CodeOrder[i])'
  <2>1. PICK l \in Kinds : l = CodeOrder[i]
    BY <1>7
  <2>2. CASE i = Turn
    BY <1>2, <1>5, <2>1, <2>2 DEF Kind
  <2>3. CASE i < next
    <3>1. i \in 1..(next - 1)
      BY <1>1, <2>3
    <3>2. Right(l)
      BY <1>0, <2>1, <3>1 DEF Undisturbed
    <3> QED BY <1>6, <2>1, <3>2
  <2>4. CASE i >= next /\ i < Turn
    <3>1. i \in Todo
      BY <1>1, <1>7, <2>4, CodeOrderLength DEF Todo
    <3> QED BY <1>1, <2>4, <3>1
  <2> QED BY <1>1, <2>2, <2>3, <2>4
<1>8. CASE Todo # {Turn}
  <2>1. at' = "get" /\ next' - 1 = Turn
    BY <1>1, <1>3, <1>8
  <2> QED BY <1>1, <1>3, <1>7, <2>1 DEF Undisturbed
<1>9. CASE Todo = {Turn}
  <2>1. ASSUME NEW l \in Kinds PROVE Right(l)'
    <3>1. PICK i \in 1..8 : CodeOrder[i] = l
      BY ConstantsAssumption, CodeOrderLength
    <3>2. i <= Turn
      <4>1. i >= next => i \in Todo
        BY <1>1, <3>1, CodeOrderLength DEF Todo
      <4> QED BY <1>1, <1>9, <3>1, <4>1
    <3>3. Right(CodeOrder[i])'
      BY <1>1, <1>7, <3>1, <3>2
    <3> QED BY <3>1, <3>3
  <2> QED BY <1>1, <1>3, <1>9, <2>1 DEF Undisturbed
<1> QED BY <1>3, <1>8, <1>9

LEMMA UndisturbedStep ==
  Typed /\ Unowned /\ Undisturbed /\ [Proceed]_vars => Undisturbed' /\ (GetsOn \/ UNCHANGED vars)
<1> SUFFICES ASSUME Typed, Unowned, Undisturbed, [Proceed]_vars
             PROVE  Undisturbed' /\ (GetsOn \/ UNCHANGED vars)
  OBVIOUS
<1>0. TypeOK /\ Reading
  BY DEF Typed
<1> USE DEF GetsOn, cluster
<1>1. CASE Begin
  BY <1>1 DEF Begin, Undisturbed
<1>2. CASE AddFinalizer
  <2>1. cr = obj /\ obj \in ZitiWebhooks
    BY <1>0, <1>2 DEF AddFinalizer, Undisturbed, Reading
  <2>2. cr' = [obj EXCEPT !.finalizer = TRUE] /\ obj' = cr' /\ at' = "merge"
    BY <1>2, <2>1 DEF AddFinalizer, Updated
  <2>3. cr' # None
    BY <2>1, <2>2, Finalizing
  <2> QED BY <2>2, <2>3 DEF Undisturbed
<1>3. CASE Finalize
  BY <1>3 DEF Finalize, Undisturbed
<1>4. CASE RemoveFinalizer
  BY <1>4 DEF RemoveFinalizer, Undisturbed, Rest
<1>5. CASE Merge
  <2>1. cr # None /\ cr = obj /\ obj \in ZitiWebhooks /\ next = 1 /\ at = "merge"
    BY <1>0, <1>5 DEF Merge, Undisturbed, Reading
  <2>2. at' = "get" /\ obj' = cr' /\ cr' # None /\ next' = 1
    <3>1. CASE obj.name = Unset
      BY <1>5, <2>1, <3>1, Named DEF Merge, Updated
    <3>2. CASE obj.name # Unset
      BY <1>5, <2>1, <3>2 DEF Merge
    <3> QED BY <3>1, <3>2
  <2> QED BY <2>2 DEF Undisturbed
<1>6. CASE Get
  <2>1. /\ at = "get" /\ at' = "write" /\ UNCHANGED <<cr, child, next, obj>>
        /\ seen' = child[<<obj.name, Kind>>] /\ cr # None /\ obj = cr
    BY <1>6 DEF Get, Undisturbed
  <2>2. Kind' = Kind
    BY <2>1 DEF Kind, Turn, Todo
  <2>3. \A i \in 1..(next - 1) : CodeOrder[i] \in Kinds => Right(CodeOrder[i])
    BY <2>1 DEF Undisturbed
  <2>4. \A i \in 1..(next' - 1) : CodeOrder[i] \in Kinds => Right(CodeOrder[i])'
    BY <2>1, <2>3 DEF Right
  <2>5. seen' = child'[<<cr'.name, Kind'>>]
    BY <2>1, <2>2
  <2> QED BY <2>1, <2>4, <2>5 DEF Undisturbed
<1>7. CASE Write
  BY <1>7, WriteGoesOn
<1>8. CASE Status
  BY <1>8 DEF Status, Undisturbed, Rest
<1>9. CASE UNCHANGED vars
  BY <1>9 DEF vars, worker, Undisturbed, Right, Kind, Turn, Todo
<1> QED BY <1>1, <1>2, <1>3, <1>4, <1>5, <1>6, <1>7, <1>8, <1>9 DEF Proceed

\* Whatever was edited, deleted or interrupted before: from any point on at which the worker
\* is idle and after which nobody interferes and no call fails for no reason, every pass
\* comes to its last call, and there all children are as the object says.
\* What Converges adds to it is that passes are made.
THEOREM OnePass ==
  Spec => [](at = "idle" => ([][Proceed]_vars => []AllRight /\ [][GetsOn]_vars))
<1>1. at = "idle" => Undisturbed
  BY DEF Undisturbed
<1>2. Typed /\ Unowned /\ Undisturbed /\ [Proceed]_vars => Undisturbed' /\ [GetsOn]_vars
  BY UndisturbedStep
<1>3. Undisturbed => AllRight
  BY DEF Undisturbed, AllRight
<1>4. Spec => [](Typed /\ Unowned)
  BY TypedInit, TypedStep, UnownedInit, UnownedStep, PTL DEF Spec
<1> QED BY <1>1, <1>2, <1>3, <1>4, PTL

-----------------------------------------------------------------------------
(* The ZitiRouter reconciler.                                              *)

CONSTANTS Parts, Labels, Default

VARIABLES router, rCreated, rChild, rReady, rChanges, rAt, rNext, rObj, rSeen, rStatus

R == INSTANCE RouterReconciler
        WITH cr <- router, created <- rCreated, child <- rChild, ready <- rReady,
             changes <- rChanges, at <- rAt, next <- rNext, obj <- rObj, seen <- rSeen,
             status <- rStatus

\* What RouterReconciler assumes of its constants beyond what WebhookReconciler does.
RouterConstants ==
    /\ Parts \subseteq R!SpecParts /\ Default \in Labels /\ Other \notin Labels
    /\ None \notin R!ZitiRouters \union R!Children \union Labels

\* What the worker has read when it makes a call, and how far it can be.
RouterReading ==
    /\ rAt # "idle" => rObj \in R!ZitiRouters
    /\ rAt \in {"get", "write", "status"} => rObj.name \in Names
    /\ rAt \in {"idle", "merge", "status"} => rNext = 1

RouterTyped == R!TypeOK /\ RouterReading

\* Between the read of a child and its write the others can only take from it what the
\* reconciler gave it, or add what is theirs.
RouterFresh ==
    rAt = "write" =>
       LET now == rChild[<<rObj.name, R!Kind>>] IN
       now # None =>
           /\ rSeen # None
           /\ now.labels \in {None, rSeen.labels}

-----------------------------------------------------------------------------
(* ZitiRouter: what the operators of a step return.                       *)

LEMMA RouterOrderedKinds == Len(R!Order) = 3 /\ \A i \in 1..3 : R!Order[i] \in R!Kinds
BY DEF R!Order, R!Kinds

LEMMA RouterDesiredType ==
  ASSUME RouterConstants, NEW o \in R!ZitiRouters, NEW k
  PROVE  R!Desired(o, k) \in R!Children
BY DEF RouterConstants, R!Desired, R!ZitiRouters, R!Children, R!SpecParts

LEMMA RouterRepairedType ==
  ASSUME RouterConstants, NEW want \in R!Children, rSeen \in R!Children
  PROVE  R!Repaired(want) \in R!Children
BY ConstantsAssumption DEF RouterConstants, R!Repaired, R!Children

LEMMA RouterPatchedType ==
  ASSUME NEW now \in R!Children, NEW new \in R!Children
  PROVE  R!Patched(now, new) \in R!Children
<1>1. DOMAIN now = {"owner", "labels", "data", "fixed", "annotations"}
  BY DEF R!Children
<1> QED BY <1>1 DEF R!Patched, R!Children

-----------------------------------------------------------------------------
(* ZitiRouter: type correctness.                                           *)

LEMMA RouterTypedInit == R!Init => RouterTyped
<1> SUFFICES ASSUME R!Init PROVE R!TypeOK /\ RouterReading
  BY DEF RouterTyped
<1>1. 0 \in 0..MaxUid /\ 0 \in 0..MaxChanges /\ 1 \in 1..Len(R!Order)
  BY ConstantsAssumption, RouterOrderedKinds
<1> QED BY <1>1 DEF R!Init, R!TypeOK, RouterReading

LEMMA RouterTypedRest ==
  ASSUME R!Rest
  PROVE  /\ RouterReading' /\ rNext' \in 1..Len(R!Order) /\ rAt' = "idle"
         /\ rObj' = None /\ rSeen' = None /\ rStatus' = FALSE
BY RouterOrderedKinds DEF R!Rest, RouterReading

\* A child changes, and a StatefulSet that is gone has no ready replicas.
RouterChildrenTyped ==
    /\ rChild \in [Names \X R!Kinds -> R!Children \union {None}]
    /\ rReady \subseteq Names
    /\ \A n \in rReady : rChild[<<n, "StatefulSet">>] # None

LEMMA RouterLoseTyped ==
  ASSUME RouterChildrenTyped, NEW n \in Names, NEW k \in R!Kinds, R!Lose(n, k)
  PROVE  RouterChildrenTyped'
BY DEF R!Lose, RouterChildrenTyped, R!Kinds, R!Order

LEMMA RouterChangeTyped ==
  ASSUME RouterConstants, RouterChildrenTyped, NEW n \in Names, NEW k \in R!Kinds,
         NEW new \in R!Children,
         rChild' = [rChild EXCEPT ![<<n, k>>] = new], UNCHANGED rReady
  PROVE  RouterChildrenTyped'
<1>1. new # None
  BY DEF RouterConstants
<1> QED BY <1>1 DEF RouterChildrenTyped

LEMMA RouterTypedUsers ==
  ASSUME RouterConstants, RouterTyped,
         \/ \E n \in Names \union {Unset}, v \in Versions, l \in Labels, m \in BOOLEAN :
               R!CreateObject(n, v, l, m)
         \/ \E part \in Parts, v \in Versions : R!EditObject(part, v)
         \/ \E n \in Names \union {Unset} : R!Rename(n)
         \/ \E foreground \in Cascades : R!DeleteObject(foreground)
  PROVE  RouterTyped'
<1> USE ConstantsAssumption DEF RouterConstants, R!worker
<1>0. router # None => router \in R!ZitiRouters
  BY DEF RouterTyped, R!TypeOK
<1>1. ASSUME NEW n \in Names \union {Unset}, NEW v \in Versions, NEW l \in Labels,
             NEW m \in BOOLEAN,
             R!CreateObject(n, v, l, m)
      PROVE  RouterTyped'
  <2>1. rCreated + 1 \in R!Uids /\ rCreated + 1 \in 0..MaxUid
    BY <1>1 DEF R!CreateObject, RouterTyped, R!TypeOK, R!Uids
  <2>2. router' \in R!ZitiRouters
    BY <1>1, <2>1 DEF R!CreateObject, R!ZitiRouters
  <2> QED BY <1>1, <2>1, <2>2 DEF R!CreateObject, RouterTyped, R!TypeOK, RouterReading
<1>2. ASSUME NEW part \in Parts, NEW v \in Versions, R!EditObject(part, v) PROVE RouterTyped'
  <2>1. rChanges + 1 \in 0..MaxChanges
    BY <1>2 DEF R!EditObject, RouterTyped, R!TypeOK
  <2>2. router \in R!ZitiRouters /\ part \in R!SpecParts
    BY <1>0, <1>2 DEF R!EditObject
  <2>3. router' \in R!ZitiRouters
    <3>1. [router.spec EXCEPT ![part] = v] \in [R!SpecParts -> Versions]
      BY <2>2 DEF R!ZitiRouters
    <3>2. router' = [router EXCEPT !.spec = [router.spec EXCEPT ![part] = v]]
      BY <1>2, <2>2 DEF R!EditObject, R!ZitiRouters
    <3> QED BY <2>2, <3>1, <3>2 DEF R!ZitiRouters
  <2> QED BY <1>2, <2>1, <2>3 DEF R!EditObject, RouterTyped, R!TypeOK, RouterReading
<1>3. ASSUME NEW n \in Names \union {Unset}, R!Rename(n) PROVE RouterTyped'
  <2>1. rChanges + 1 \in 0..MaxChanges
    BY <1>3 DEF R!Rename, RouterTyped, R!TypeOK
  <2>2. router' \in R!ZitiRouters
    BY <1>0, <1>3 DEF R!Rename, R!ZitiRouters
  <2> QED BY <1>3, <2>1, <2>2 DEF R!Rename, RouterTyped, R!TypeOK, RouterReading
<1>4. ASSUME NEW foreground \in Cascades, R!DeleteObject(foreground) PROVE RouterTyped'
  <2>1. router' \in R!ZitiRouters \union {None}
    BY <1>0, <1>4 DEF R!DeleteObject, R!ZitiRouters
  <2> QED BY <1>4, <2>1 DEF R!DeleteObject, RouterTyped, R!TypeOK, RouterReading
<1> QED BY <1>1, <1>2, <1>3, <1>4

LEMMA RouterTypedCluster ==
  ASSUME RouterConstants, RouterTyped,
         \/ \E n \in Names, k \in R!Kinds : R!Interfere(n, k) \/ R!Collect(n, k)
         \/ R!CollectDone
         \/ \E n \in Names : R!GetReady(n)
  PROVE  RouterTyped'
<1> USE ConstantsAssumption DEF RouterConstants, R!worker
<1>0. RouterChildrenTyped
  BY DEF RouterTyped, R!TypeOK, RouterChildrenTyped
<1>1. ASSUME NEW n \in Names, NEW k \in R!Kinds, R!Interfere(n, k) PROVE RouterTyped'
  <2>1. rChanges + 1 \in 0..MaxChanges
    BY <1>1 DEF R!Interfere, RouterTyped, R!TypeOK
  <2>2. rChild[<<n, k>>] \in R!Children
    BY <1>0, <1>1 DEF R!Interfere, RouterChildrenTyped
  <2>3. ASSUME R!Lose(n, k) PROVE RouterChildrenTyped'
    BY <1>0, <2>3, RouterLoseTyped
  <2>4. ASSUME rChild' = [rChild EXCEPT ![<<n, k>>].data = Other], UNCHANGED rReady
        PROVE  RouterChildrenTyped'
    <3>1. [rChild[<<n, k>>] EXCEPT !.data = Other] \in R!Children
      BY <2>2 DEF R!Children
    <3>2. rChild' = [rChild EXCEPT ![<<n, k>>] = [rChild[<<n, k>>] EXCEPT !.data = Other]]
      BY <2>4
    <3> QED BY <1>0, <2>4, <3>1, <3>2, RouterChangeTyped
  <2>5. ASSUME rChild' = [rChild EXCEPT ![<<n, k>>].labels = None, ![<<n, k>>].owner = None],
               UNCHANGED rReady
        PROVE  RouterChildrenTyped'
    <3>1. [rChild[<<n, k>>] EXCEPT !.labels = None, !.owner = None] \in R!Children
      BY <2>2 DEF R!Children
    <3>2. rChild' = [rChild EXCEPT ![<<n, k>>] =
                       [rChild[<<n, k>>] EXCEPT !.labels = None, !.owner = None]]
      BY <1>0, <2>5 DEF RouterChildrenTyped
    <3>3. UNCHANGED rReady
      BY <2>5
    <3> QED BY <1>0, <3>1, <3>2, <3>3, RouterChangeTyped
  <2>6. RouterChildrenTyped'
    BY <1>1, <2>3, <2>4, <2>5 DEF R!Interfere
  <2> QED
    BY <1>1, <2>1, <2>6
    DEF R!Interfere, RouterTyped, R!TypeOK, RouterReading, RouterChildrenTyped
<1>2. ASSUME NEW n \in Names, NEW k \in R!Kinds, R!Collect(n, k) PROVE RouterTyped'
  <2>1. RouterChildrenTyped'
    BY <1>0, <1>2, RouterLoseTyped DEF R!Collect
  <2> QED BY <1>2, <2>1 DEF R!Collect, RouterTyped, R!TypeOK, RouterReading, RouterChildrenTyped
<1>3. CASE R!CollectDone
  BY <1>3 DEF R!CollectDone, RouterTyped, R!TypeOK, RouterReading
<1>4. ASSUME NEW n \in Names, R!GetReady(n) PROVE RouterTyped'
  BY <1>4 DEF R!GetReady, RouterTyped, R!TypeOK, RouterReading
<1> QED BY <1>1, <1>2, <1>3, <1>4

LEMMA RouterTypedWorker == RouterConstants /\ RouterTyped /\ R!WorkerStep => RouterTyped'
<1> SUFFICES ASSUME RouterConstants, RouterTyped, R!WorkerStep PROVE RouterTyped'
  OBVIOUS
<1>0. /\ R!TypeOK /\ RouterReading /\ RouterChildrenTyped
      /\ router # None => router \in R!ZitiRouters
  BY DEF RouterTyped, R!TypeOK, RouterChildrenTyped
<1> USE ConstantsAssumption, RouterOrderedKinds DEF R!cluster
<1>1. ASSUME R!Rest, UNCHANGED <<rCreated, rChild, rReady, rChanges>>,
             router' \in R!ZitiRouters \union {None}
      PROVE  RouterTyped'
  BY <1>0, <1>1, RouterTypedRest DEF RouterTyped, R!TypeOK
<1>2. CASE R!Abort
  BY <1>0, <1>1, <1>2 DEF R!Abort
<1>3. CASE R!Begin
  BY <1>0, <1>3 DEF R!Begin, RouterTyped, R!TypeOK, RouterReading
<1>4. CASE R!Merge
  <2> DEFINE merged == [rObj EXCEPT !.merged = TRUE,
                                   !.name = IF @ = Unset THEN DefaultName ELSE @]
  <2>1. merged \in R!ZitiRouters /\ merged.name \in Names /\ rNext = 1 /\ rObj \in R!ZitiRouters
    BY <1>0, <1>4 DEF R!Merge, RouterReading, R!ZitiRouters
  <2>2. CASE R!Rest /\ UNCHANGED router
    BY <1>0, <1>1, <1>4, <2>2 DEF R!Merge
  <2>3. CASE /\ router' = IF merged = rObj THEN router ELSE merged
             /\ rObj' = merged /\ rAt' = "get"
             /\ UNCHANGED <<rNext, rSeen, rStatus>>
    <3> HIDE DEF merged
    <3>1. UNCHANGED <<rCreated, rChild, rReady, rChanges>>
      BY <1>4 DEF R!Merge
    <3> QED BY <1>0, <2>1, <2>3, <3>1 DEF RouterTyped, R!TypeOK, RouterReading
  <2> QED BY <1>4, <2>2, <2>3 DEF R!Merge
<1>5. CASE R!Get
  <2>1. rObj.name \in Names /\ R!Kind \in R!Kinds
    BY <1>0, <1>5 DEF R!Get, RouterReading, R!TypeOK, R!Kind
  <2>2. rSeen' \in R!Children \union {None} /\ rStatus' \in BOOLEAN
    BY <1>0, <1>5, <2>1 DEF R!Get, RouterChildrenTyped
  <2> QED BY <1>0, <1>5, <2>1, <2>2 DEF R!Get, RouterTyped, R!TypeOK, RouterReading
<1>6. CASE R!Write
  <2>1. /\ rObj \in R!ZitiRouters /\ rObj.name \in Names /\ R!Kind \in R!Kinds
        /\ rSeen \in R!Children \union {None} /\ rNext \in 1..3 /\ rAt = "write"
    BY <1>0, <1>6 DEF R!Write, RouterReading, R!TypeOK, R!Kind
  <2> DEFINE now  == rChild[<<rObj.name, R!Kind>>]
             want == R!Desired(rObj, R!Kind)
             new  == IF rSeen = None THEN want ELSE R!Repaired(want)
             refused ==
                \/ (rSeen = None) # (now = None) /\ new # rSeen
                \/ rSeen # None /\ now # None /\ R!Patched(now, new).fixed # now.fixed
  <2>2. want \in R!Children /\ new \in R!Children
    BY <2>1, RouterDesiredType, RouterRepairedType
  <2>3. now \in R!Children \union {None}
    BY <1>0, <2>1 DEF RouterChildrenTyped
  <2>4. CASE refused /\ R!Rest /\ UNCHANGED rChild
    BY <1>0, <1>1, <1>6, <2>4 DEF R!Write
  <2>5. CASE /\ ~refused
             /\ rChild' = IF new = rSeen THEN rChild
                         ELSE [rChild EXCEPT ![<<rObj.name, R!Kind>>] =
                                  IF rSeen = None THEN want ELSE R!Patched(now, new)]
             /\ IF rNext < Len(R!Order) THEN rAt' = "get" /\ rNext' = rNext + 1
                                     ELSE rAt' = "status" /\ rNext' = 1
             /\ UNCHANGED <<rObj, rSeen, rStatus>>
    <3>1. RouterChildrenTyped'
      <4>1. CASE new = rSeen
        BY <1>0, <1>6, <2>5, <4>1 DEF R!Write, RouterChildrenTyped
      <4>2. CASE new # rSeen
        <5>1. rSeen # None => now \in R!Children
          BY <2>3, <2>5, <4>2
        <5>2. PICK c \in R!Children : rChild' = [rChild EXCEPT ![<<rObj.name, R!Kind>>] = c]
          BY <2>2, <2>5, <4>2, <5>1, RouterPatchedType
        <5> QED BY <1>0, <1>6, <2>1, <5>2, RouterChangeTyped DEF R!Write
      <4> QED BY <4>1, <4>2
    <3> QED
      BY <1>0, <1>6, <2>1, <2>5, <3>1
      DEF R!Write, RouterTyped, R!TypeOK, RouterReading, RouterChildrenTyped
  <2> HIDE DEF refused
  <2> QED BY <1>6, <2>4, <2>5 DEF R!Write, refused
<1>7. CASE R!Status
  <2>1. router' \in R!ZitiRouters \union {None}
    BY <1>0, <1>7 DEF R!Status, R!TypeOK, R!ZitiRouters
  <2> QED BY <1>1, <1>7, <2>1 DEF R!Status
<1> QED BY <1>2, <1>3, <1>4, <1>5, <1>6, <1>7 DEF R!WorkerStep, R!Proceed

LEMMA RouterTypedStep == RouterConstants /\ RouterTyped /\ [R!Next]_R!vars => RouterTyped'
<1>1. RouterTyped /\ UNCHANGED R!vars => RouterTyped'
  BY DEF R!vars, R!cluster, R!worker, RouterTyped, R!TypeOK, RouterReading
<1> QED BY <1>1, RouterTypedUsers, RouterTypedCluster, RouterTypedWorker DEF R!Next

\* The variables of the ZitiRouter reconciler keep their types, and only a StatefulSet that
\* is there has ready replicas, whatever users, other controllers and failures do.
THEOREM RouterTypeCorrect == RouterConstants => (R!Spec => []R!TypeOK)
<1> SUFFICES ASSUME RouterConstants PROVE R!Spec => []R!TypeOK
  OBVIOUS
<1>0. RouterTyped /\ [R!Next]_R!vars => RouterTyped'
  BY RouterTypedStep
<1>1. RouterTyped => R!TypeOK
  BY DEF RouterTyped
<1> QED BY <1>0, <1>1, RouterTypedInit, PTL DEF R!Spec

-----------------------------------------------------------------------------
(* ZitiRouter: Reconcile leaves alone what is right, and puts the rest right. *)

LEMMA RouterFreshInit == R!Init => RouterFresh
BY DEF R!Init, RouterFresh

\* What another does to a child.
LEMMA RouterFreshLess ==
  ASSUME RouterTyped, RouterFresh, UNCHANGED <<rAt, rNext, rObj, rSeen>>,
         \A n \in Names, k \in R!Kinds :
            LET was == rChild[<<n, k>>]  now == rChild'[<<n, k>>] IN
            now # None => was # None /\ now.labels \in {was.labels, None}
  PROVE  RouterFresh'
<1>1. CASE rAt # "write"
  BY <1>1 DEF RouterFresh
<1>2. CASE rAt = "write"
  <2>1. rObj.name \in Names /\ R!Kind \in R!Kinds /\ R!Kind' = R!Kind
    BY <1>2, RouterOrderedKinds DEF RouterTyped, R!TypeOK, RouterReading, R!Kind
  <2> DEFINE was == rChild[<<rObj.name, R!Kind>>]
             now == rChild'[<<rObj.name, R!Kind>>]
  <2>2. now # None => was # None /\ now.labels \in {was.labels, None}
    BY <2>1
  <2>3. was # None => rSeen # None /\ was.labels \in {None, rSeen.labels}
    BY <1>2 DEF RouterFresh
  <2>4. now # None => rSeen # None /\ now.labels \in {None, rSeen.labels}
    BY <2>2, <2>3
  <2> QED BY <1>2, <2>1, <2>4 DEF RouterFresh
<1> QED BY <1>1, <1>2

LEMMA RouterFreshStep == RouterTyped /\ RouterFresh /\ [R!Next]_R!vars => RouterFresh'
<1> SUFFICES ASSUME RouterTyped, RouterFresh, [R!Next]_R!vars PROVE RouterFresh'
  OBVIOUS
<1>0. rChild \in [Names \X R!Kinds -> R!Children \union {None}]
  BY DEF RouterTyped, R!TypeOK
<1>1. ASSUME UNCHANGED <<R!worker, rChild>> PROVE RouterFresh'
  BY <1>1, RouterFreshLess DEF R!worker
<1>2. ASSUME \/ \E n \in Names \union {Unset}, v \in Versions, l \in Labels, m \in BOOLEAN :
                   R!CreateObject(n, v, l, m)
             \/ \E part \in Parts, v \in Versions : R!EditObject(part, v)
             \/ \E n \in Names \union {Unset} : R!Rename(n)
             \/ \E foreground \in Cascades : R!DeleteObject(foreground)
             \/ R!CollectDone
             \/ \E n \in Names : R!GetReady(n)
      PROVE  UNCHANGED <<R!worker, rChild>>
  BY <1>2 DEF R!CreateObject, R!EditObject, R!Rename, R!DeleteObject, R!CollectDone, R!GetReady
<1> DEFINE Less == \A n \in Names, k \in R!Kinds :
              LET was == rChild[<<n, k>>]  now == rChild'[<<n, k>>] IN
              now # None => was # None /\ now.labels \in {was.labels, None}
<1>3. ASSUME NEW n \in Names, NEW k \in R!Kinds, R!Lose(n, k), UNCHANGED <<rAt, rNext, rObj, rSeen>>
      PROVE  RouterFresh'
  <2>1. Less
    BY <1>0, <1>3 DEF R!Lose
  <2> QED BY <1>3, <2>1, RouterFreshLess
<1>4. ASSUME NEW n \in Names, NEW k \in R!Kinds, R!Interfere(n, k) PROVE RouterFresh'
  <2>1. rChild[<<n, k>>] \in R!Children /\ UNCHANGED <<rAt, rNext, rObj, rSeen>>
    BY <1>0, <1>4 DEF R!Interfere, R!worker
  <2>2. CASE R!Lose(n, k)
    BY <1>3, <2>1, <2>2
  <2>3. CASE ~R!Lose(n, k)
    <3>1. \/ rChild' = [rChild EXCEPT ![<<n, k>>].data = Other]
          \/ rChild' = [rChild EXCEPT ![<<n, k>>].labels = None, ![<<n, k>>].owner = None]
      BY <1>4, <2>3 DEF R!Interfere
    <3>2. PICK now \in {[rChild[<<n, k>>] EXCEPT !.data = Other],
                        [rChild[<<n, k>>] EXCEPT !.labels = None, !.owner = None]} :
             rChild' = [rChild EXCEPT ![<<n, k>>] = now]
      BY <1>0, <3>1
    <3>3. now.labels \in {rChild[<<n, k>>].labels, None}
      BY <2>1, <3>2 DEF R!Children
    <3>4. Less
      BY <1>0, <1>4, <3>2, <3>3 DEF R!Interfere
    <3> QED BY <2>1, <3>4, RouterFreshLess
  <2> QED BY <2>2, <2>3
<1>5. ASSUME NEW n \in Names, NEW k \in R!Kinds, R!Collect(n, k) PROVE RouterFresh'
  BY <1>3, <1>5 DEF R!Collect, R!worker
<1>6. CASE R!WorkerStep
  <2>1. CASE R!Get
    <3>1. rSeen' = rChild'[<<rObj'.name, R!Kind'>>]
      BY <2>1 DEF R!Get, R!cluster, R!Kind
    <3> QED BY <3>1 DEF RouterFresh
  <2>2. ASSUME R!Abort \/ R!Begin \/ R!Merge \/ R!Write \/ R!Status PROVE rAt' # "write"
    BY <2>2 DEF R!Abort, R!Begin, R!Merge, R!Write, R!Status, R!Rest
  <2> QED BY <1>6, <2>1, <2>2 DEF R!WorkerStep, R!Proceed, RouterFresh
<1>7. CASE UNCHANGED R!vars
  BY <1>1, <1>7 DEF R!vars, R!cluster
<1> QED BY <1>1, <1>2, <1>4, <1>5, <1>6, <1>7 DEF R!Next

\* Only a StatefulSet has parts that the API server does not let change.
RouterFixed ==
    \A n \in Names, k \in R!Kinds \ {"StatefulSet"} :
        rChild[<<n, k>>] # None => rChild[<<n, k>>].fixed = None

LEMMA RouterFixedInit == R!Init => RouterFixed
BY DEF R!Init, RouterFixed

\* What another does to a child.
LEMMA RouterFixedChange ==
  ASSUME RouterTyped, RouterFixed, NEW n \in Names, NEW k \in R!Kinds, NEW c,
         k # "StatefulSet" => c = None \/ c.fixed = None,
         rChild' = [rChild EXCEPT ![<<n, k>>] = c]
  PROVE  RouterFixed'
<1>1. rChild \in [Names \X R!Kinds -> R!Children \union {None}]
  BY DEF RouterTyped, R!TypeOK
<1> QED BY <1>1 DEF RouterFixed

LEMMA RouterFixedStep ==
  RouterConstants /\ RouterTyped /\ RouterFixed /\ [R!Next]_R!vars => RouterFixed'
<1> SUFFICES ASSUME RouterConstants, RouterTyped, RouterFixed, [R!Next]_R!vars PROVE RouterFixed'
  OBVIOUS
<1>0. rChild \in [Names \X R!Kinds -> R!Children \union {None}]
  BY DEF RouterTyped, R!TypeOK
<1>1. ASSUME UNCHANGED rChild PROVE RouterFixed'
  BY <1>1 DEF RouterFixed
<1>2. ASSUME \/ \E n \in Names \union {Unset}, v \in Versions, l \in Labels, m \in BOOLEAN :
                   R!CreateObject(n, v, l, m)
             \/ \E part \in Parts, v \in Versions : R!EditObject(part, v)
             \/ \E n \in Names \union {Unset} : R!Rename(n)
             \/ \E foreground \in Cascades : R!DeleteObject(foreground)
             \/ R!CollectDone
             \/ \E n \in Names : R!GetReady(n)
             \/ R!Abort \/ R!Begin \/ R!Merge \/ R!Get \/ R!Status
             \/ UNCHANGED R!vars
      PROVE  UNCHANGED rChild
  BY <1>2 DEF R!CreateObject, R!EditObject, R!Rename, R!DeleteObject, R!CollectDone, R!GetReady,
              R!Abort, R!Begin, R!Merge, R!Get, R!Status, R!cluster, R!vars
<1>3. ASSUME NEW n \in Names, NEW k \in R!Kinds, R!Lose(n, k) PROVE RouterFixed'
  BY <1>3, RouterFixedChange DEF R!Lose
<1>4. ASSUME NEW n \in Names, NEW k \in R!Kinds, R!Interfere(n, k) PROVE RouterFixed'
  <2>1. rChild[<<n, k>>] \in R!Children /\ rChild[<<n, k>>] # None
    BY <1>0, <1>4 DEF R!Interfere
  <2>2. CASE ~R!Lose(n, k)
    <3>1. PICK now \in {[rChild[<<n, k>>] EXCEPT !.data = Other],
                        [rChild[<<n, k>>] EXCEPT !.labels = None, !.owner = None]} :
             rChild' = [rChild EXCEPT ![<<n, k>>] = now]
      BY <1>0, <1>4, <2>2 DEF R!Interfere
    <3>2. now.fixed = rChild[<<n, k>>].fixed
      BY <2>1, <3>1 DEF R!Children
    <3>3. k # "StatefulSet" => now.fixed = None
      BY <2>1, <3>2 DEF RouterFixed
    <3> QED BY <3>1, <3>3, RouterFixedChange
  <2> QED BY <1>3, <2>2
<1>5. ASSUME NEW n \in Names, NEW k \in R!Kinds, R!Collect(n, k) PROVE RouterFixed'
  BY <1>3, <1>5 DEF R!Collect
<1>6. CASE R!Write
  <2> DEFINE now  == rChild[<<rObj.name, R!Kind>>]
             want == R!Desired(rObj, R!Kind)
             new  == IF rSeen = None THEN want ELSE R!Repaired(want)
  <2>1. /\ rObj \in R!ZitiRouters /\ rObj.name \in Names /\ R!Kind \in R!Kinds
        /\ rSeen \in R!Children \union {None}
    BY <1>6, RouterOrderedKinds DEF R!Write, RouterTyped, RouterReading, R!TypeOK, R!Kind
  <2>2. want \in R!Children /\ (R!Kind # "StatefulSet" => want.fixed = None)
    BY <2>1, RouterDesiredType DEF R!Desired
  <2>3. \/ rChild' = rChild
        \/ rSeen = None /\ rChild' = [rChild EXCEPT ![<<rObj.name, R!Kind>>] = want]
        \/ /\ rSeen # None /\ now # None
           /\ rChild' = [rChild EXCEPT ![<<rObj.name, R!Kind>>] = R!Patched(now, R!Repaired(want))]
    BY <1>6 DEF R!Write
  <2>4. ASSUME rSeen # None, now # None,
               rChild' = [rChild EXCEPT ![<<rObj.name, R!Kind>>] = R!Patched(now, R!Repaired(want))]
        PROVE  RouterFixed'
    <3>1. now \in R!Children /\ rSeen \in R!Children
      BY <1>0, <2>1, <2>4
    <3>2. R!Repaired(want).fixed = want.fixed
      BY <3>1 DEF R!Repaired, R!Children
    <3>3. R!Patched(now, R!Repaired(want)).fixed \in {want.fixed, now.fixed}
      BY <3>1, <3>2 DEF R!Patched, R!Children
    <3>4. R!Kind # "StatefulSet" => now.fixed = None
      BY <2>1, <2>4 DEF RouterFixed
    <3> HIDE DEF now, want
    <3>5. R!Kind # "StatefulSet" => R!Patched(now, R!Repaired(want)).fixed = None
      BY <2>2, <3>3, <3>4
    <3> QED BY <2>1, <2>4, <3>5, RouterFixedChange
  <2> HIDE DEF want, now
  <2> QED BY <1>1, <2>1, <2>2, <2>3, <2>4, RouterFixedChange
<1> QED BY <1>1, <1>2, <1>4, <1>5, <1>6 DEF R!Next, R!WorkerStep, R!Proceed

LEMMA RouterLeavesAlone ==
  ASSUME RouterConstants, RouterTyped, RouterFresh, router # None, router.name \in Names,
         rObj = router, R!WorkerStep, NEW k \in R!Kinds
  PROVE  R!LeavesAlone(k)
<1> SUFFICES ASSUME rChild[<<router.name, k>>] = R!Desired(router, k)
             PROVE  rChild'[<<router.name, k>>] = rChild[<<router.name, k>>]
  BY DEF R!LeavesAlone
<1>1. CASE R!Write
  <2> DEFINE now  == rChild[<<rObj.name, R!Kind>>]
             want == R!Desired(rObj, R!Kind)
             new  == IF rSeen = None THEN want ELSE R!Repaired(want)
  <2>1. /\ rAt = "write" /\ rObj \in R!ZitiRouters /\ rObj.name \in Names /\ R!Kind \in R!Kinds
        /\ rSeen \in R!Children \union {None}
        /\ rChild \in [Names \X R!Kinds -> R!Children \union {None}]
    BY <1>1, RouterOrderedKinds DEF R!Write, RouterTyped, RouterReading, R!TypeOK, R!Kind
  <2>a. CASE k # R!Kind
    <3>1. rChild' = rChild \/ \E c : rChild' = [rChild EXCEPT ![<<rObj.name, R!Kind>>] = c]
      BY <1>1 DEF R!Write
    <3> QED BY <2>1, <2>a, <3>1
  <2>b. CASE k = R!Kind
    <3>1. now = want
      BY <2>1, <2>b
    <3>2. want \in R!Children /\ want.labels \in Labels
      BY <2>1, RouterDesiredType DEF RouterConstants, R!Desired, R!ZitiRouters
    <3>3. now # None /\ want.labels # None
      BY <3>1, <3>2 DEF RouterConstants
    <3>4. rSeen # None /\ want.labels = rSeen.labels
      BY <2>1, <3>1, <3>3 DEF RouterFresh
    <3>5. new = [rSeen EXCEPT !.owner = want.owner, !.data = want.data, !.fixed = want.fixed]
      BY <2>1, <3>4 DEF R!Repaired, R!Children
    <3> HIDE DEF want
    <3>6. R!Patched(now, new) = now
      <4>1. now \in R!Children /\ rSeen \in R!Children
        BY <2>1, <3>1, <3>2, <3>4
      <4>2. DOMAIN now = {"owner", "labels", "data", "fixed", "annotations"}
        BY <4>1 DEF R!Children
      <4>3. /\ new.owner = now.owner /\ new.data = now.data /\ new.fixed = now.fixed
            /\ new.labels = rSeen.labels /\ new.annotations = rSeen.annotations
        BY <3>1, <3>5, <4>1 DEF R!Children
      <4>4. \A f \in DOMAIN now : (IF new[f] # rSeen[f] THEN new[f] ELSE now[f]) = now[f]
        BY <4>2, <4>3
      <4>5. now = [f \in DOMAIN now |-> now[f]]
        BY <4>1 DEF R!Children
      <4> HIDE DEF now, new
      <4>6. R!Patched(now, new) = [f \in DOMAIN now |-> now[f]]
        BY <4>4 DEF R!Patched
      <4> QED BY <4>5, <4>6
    <3>7. \/ rChild' = rChild
          \/ rChild' = [rChild EXCEPT ![<<rObj.name, R!Kind>>] = R!Patched(now, new)]
      BY <1>1, <3>4 DEF R!Write, want
    <3> QED BY <2>1, <3>6, <3>7
  <2> QED BY <2>a, <2>b
<1> QED BY <1>1 DEF R!WorkerStep, R!Proceed, R!Abort, R!Begin, R!Merge, R!Get, R!Status, R!cluster

LEMMA RouterPutsRight ==
  ASSUME RouterConstants, RouterTyped, RouterFixed, router # None, router.name \in Names,
         rObj = router, NEW k \in R!Kinds
  PROVE  R!PutsRight(k)
<1> SUFFICES ASSUME R!Write, R!Kind = k, rSeen = rChild[<<router.name, k>>],
                    k = "StatefulSet" => ~R!Immutable
             PROVE  LET now  == rChild'[<<router.name, k>>]
                        want == R!Desired(router, k)
                    IN  /\ now # None /\ now.labels \in {want.labels, Default}
                        /\ now = [want EXCEPT !.labels = now.labels, !.annotations = now.annotations]
  BY DEF R!PutsRight
<1> DEFINE want == R!Desired(router, k)
           new  == IF rSeen = None THEN want ELSE R!Repaired(want)
<1>1. /\ router \in R!ZitiRouters /\ rSeen \in R!Children \union {None}
      /\ rChild \in [Names \X R!Kinds -> R!Children \union {None}]
      /\ want \in R!Children /\ None \notin R!Children
  BY RouterDesiredType DEF R!Write, RouterTyped, RouterReading, R!TypeOK, RouterConstants
<1>2. ASSUME NEW c \in R!Children, rChild' = [rChild EXCEPT ![<<router.name, k>>] = c],
             c.labels \in {want.labels, Default},
             c.owner = want.owner, c.data = want.data, c.fixed = want.fixed
      PROVE  LET now == rChild'[<<router.name, k>>] IN
             /\ now # None /\ now.labels \in {want.labels, Default}
             /\ now = [want EXCEPT !.labels = now.labels, !.annotations = now.annotations]
  <2> HIDE DEF want
  <2>1. rChild'[<<router.name, k>>] = c /\ c # None
    BY <1>1, <1>2
  <2>2. c = [want EXCEPT !.labels = c.labels, !.annotations = c.annotations]
    BY <1>1, <1>2 DEF R!Children
  <2> QED BY <1>2, <2>1, <2>2
<1>3. CASE rSeen = None
  <2>1. rChild' = [rChild EXCEPT ![<<router.name, k>>] = want]
    BY <1>1, <1>3 DEF R!Write
  <2>2. LET now == rChild'[<<router.name, k>>] IN
        /\ now # None /\ now.labels \in {want.labels, Default}
        /\ now = [want EXCEPT !.labels = now.labels, !.annotations = now.annotations]
    <3> HIDE DEF want
    <3> QED BY <1>1, <1>2, <2>1
  <2> QED BY <2>2
<1>4. CASE rSeen # None
  <2>1. rSeen \in R!Children /\ rChild[<<router.name, k>>] = rSeen /\ new = R!Repaired(want)
        /\ new \in R!Children
    BY <1>1, <1>4, RouterRepairedType
  <2>2. /\ new.owner = want.owner /\ new.data = want.data /\ new.fixed = want.fixed
        /\ new.labels \in {want.labels, Default}
    <3> HIDE DEF want
    <3> QED BY <1>1, <2>1 DEF R!Repaired, R!Children
  <2>3. R!Patched(rSeen, new) = new
    <3>1. \A f \in DOMAIN rSeen : (IF new[f] # rSeen[f] THEN new[f] ELSE rSeen[f]) = new[f]
      OBVIOUS
    <3>2. DOMAIN rSeen = DOMAIN new /\ new = [f \in DOMAIN new |-> new[f]]
      BY <2>1 DEF R!Children
    <3> HIDE DEF new
    <3>3. R!Patched(rSeen, new) = [f \in DOMAIN rSeen |-> new[f]]
      BY <3>1 DEF R!Patched
    <3> QED BY <3>2, <3>3
  <2>4. want.fixed = rSeen.fixed
    <3>1. CASE k = "StatefulSet"
      BY <1>1, <1>4, <2>1, <3>1 DEF R!Immutable
    <3>2. CASE k # "StatefulSet"
      BY <1>4, <2>1, <3>2 DEF RouterFixed, R!Desired
    <3> QED BY <3>1, <3>2
  <2>5. rChild' = IF new = rSeen THEN rChild ELSE [rChild EXCEPT ![<<router.name, k>>] = new]
    <3>1. R!Patched(rSeen, R!Repaired(want)) = R!Repaired(want)
          /\ R!Repaired(want).fixed = rSeen.fixed
      BY <2>1, <2>2, <2>3, <2>4
    <3> QED BY <1>4, <2>1, <3>1 DEF R!Write
  <2>6. rChild' = [rChild EXCEPT ![<<router.name, k>>] = new]
    <3> HIDE DEF new
    <3> QED BY <1>1, <2>1, <2>5
  <2>7. LET now == rChild'[<<router.name, k>>] IN
        /\ now # None /\ now.labels \in {want.labels, Default}
        /\ now = [want EXCEPT !.labels = now.labels, !.annotations = now.annotations]
    <3> HIDE DEF want, new
    <3> QED BY <1>2, <2>1, <2>2, <2>6
  <2> QED BY <2>7
<1> QED BY <1>3, <1>4

\* A Reconcile that has read the ZitiRouter as it is changes no child that is as it should
\* be: above all it does not give a StatefulSet the default labels in place of its own,
\* though it compares with a child read earlier (zitirouter_controller.go:273-275).  Any
\* other child that has not changed since it was read it makes so in one call, but for the
\* labels and the pods' annotations, unless it asks for what a StatefulSet cannot change.
THEOREM RouterCorrectsHolds == RouterConstants => (R!Spec => R!Corrects)
<1> SUFFICES ASSUME RouterConstants PROVE R!Spec => R!Corrects
  OBVIOUS
<1>1. RouterTyped /\ RouterFresh /\ RouterFixed /\ [R!Next]_R!vars
        => [router # None /\ router.name \in Names /\ rObj = router /\ R!WorkerStep
              => \A k \in R!Kinds : R!LeavesAlone(k) /\ R!PutsRight(k)]_R!vars
  BY RouterLeavesAlone, RouterPutsRight
<1>2. /\ RouterTyped /\ RouterFresh /\ RouterFixed /\ [R!Next]_R!vars
           => RouterTyped' /\ RouterFresh' /\ RouterFixed'
      /\ R!Init => RouterTyped /\ RouterFresh /\ RouterFixed
  BY RouterTypedStep, RouterFreshStep, RouterFixedStep, RouterTypedInit, RouterFreshInit,
     RouterFixedInit
<1> QED BY <1>1, <1>2, PTL DEF R!Spec, R!Corrects

-----------------------------------------------------------------------------
(* ZitiRouter: one pass is enough, unless what it asks for cannot be changed. *)

\* What a pass makes of a child.
RouterRight(k) ==
    LET now  == rChild[<<router.name, k>>]
        want == R!Desired(router, k)
    IN
    /\ now # None /\ now.labels \in {want.labels, Default}
    /\ now = [want EXCEPT !.labels = now.labels, !.annotations = now.annotations]

\* How far a pass has got that nobody disturbs.
RouterUndisturbed ==
    /\ rAt # "idle" => router # None /\ rObj = router
    /\ rAt = "write" => rSeen = rChild[<<router.name, R!Kind>>]
    /\ rAt \in {"get", "write"} => \A i \in 1..(rNext - 1) : RouterRight(R!Order[i])
    /\ rAt = "status" => router.name \in Names /\ \A k \in R!Kinds : RouterRight(k)

RouterAllRight ==
    rAt = "status" => router # None /\ router.name \in Names /\ \A k \in R!Kinds : RouterRight(k)

\* The pass comes to its last call, or to a StatefulSet that cannot be changed.
RouterGetsOn ==
    rAt \in {"merge", "get", "write"} =>
       rAt' # "idle" \/ (rAt = "write" /\ R!Kind = "StatefulSet" /\ R!Immutable)

LEMMA RouterWriteGoesOn ==
  ASSUME RouterConstants, RouterTyped, RouterFixed, RouterUndisturbed, R!Write
  PROVE  RouterUndisturbed' /\ RouterGetsOn
<1>0. rChild \in [Names \X R!Kinds -> R!Children \union {None}] /\ rAt = "write"
  BY DEF RouterTyped, R!TypeOK, R!Write
<1>1. /\ router # None /\ rObj = router /\ router \in R!ZitiRouters /\ router.name \in Names
      /\ rNext \in 1..3 /\ rSeen = rChild[<<router.name, R!Kind>>]
      /\ rSeen \in R!Children \union {None} /\ router' = router
      /\ R!Kind = R!Order[rNext] /\ R!Kind \in R!Kinds
  BY <1>0, RouterOrderedKinds
  DEF RouterTyped, RouterReading, R!TypeOK, RouterUndisturbed, R!Write, R!Kind
<1>2. PICK k \in R!Kinds : k = R!Kind
  BY <1>1
<1>3. CASE k = "StatefulSet" /\ R!Immutable
  <2> DEFINE want == R!Desired(router, k)
  <2>1. rSeen \in R!Children /\ want \in R!Children /\ want.fixed # rSeen.fixed /\ rSeen # None
    BY <1>1, <1>2, <1>3, RouterDesiredType DEF R!Immutable
  <2> HIDE DEF want
  <2>2. R!Repaired(want).fixed = want.fixed
    BY <2>1 DEF R!Repaired, R!Children
  <2>3. R!Patched(rSeen, R!Repaired(want)).fixed = want.fixed
    BY <2>1, <2>2 DEF R!Patched, R!Children
  <2>4. R!Rest
    BY <1>1, <1>2, <2>1, <2>3 DEF R!Write, want
  <2> QED BY <1>0, <1>2, <1>3, <2>4 DEF R!Rest, RouterUndisturbed, RouterGetsOn
<1>4. CASE k = "StatefulSet" => ~R!Immutable
  <2>1. RouterRight(k)'
    <3>1. R!PutsRight(k)
      BY <1>1, RouterPutsRight
    <3> DEFINE now  == rChild'[<<router.name, k>>]
               want == R!Desired(router, k)
    <3>2. /\ now # None /\ now.labels \in {want.labels, Default}
          /\ now = [want EXCEPT !.labels = now.labels, !.annotations = now.annotations]
      BY <1>1, <1>2, <1>4, <3>1 DEF R!PutsRight
    <3> QED BY <1>1, <3>2 DEF RouterRight
  <2>2. rChild' = rChild \/ \E c : rChild' = [rChild EXCEPT ![<<router.name, k>>] = c]
    BY <1>1, <1>2 DEF R!Write
  <2>3. ASSUME NEW l \in R!Kinds, RouterRight(l) PROVE RouterRight(l)'
    <3>1. CASE l = k
      BY <2>1, <3>1
    <3>2. CASE l # k
      <4>1. rChild'[<<router'.name, l>>] = rChild[<<router.name, l>>]
        BY <1>0, <1>1, <2>2, <3>2
      <4> QED BY <1>1, <2>3, <4>1 DEF RouterRight
    <3> QED BY <3>1, <3>2
  <2>4. ASSUME NEW i \in 1..rNext PROVE RouterRight(R!Order[i])'
    <3>1. PICK l \in R!Kinds : l = R!Order[i]
      BY <1>1, RouterOrderedKinds
    <3>2. CASE i = rNext
      BY <1>1, <1>2, <2>1, <3>1, <3>2
    <3>3. CASE i # rNext
      <4>1. i \in 1..(rNext - 1)
        BY <1>1, <3>3
      <4>2. RouterRight(l)
        BY <1>0, <3>1, <4>1 DEF RouterUndisturbed
      <4> QED BY <2>3, <3>1, <4>2
    <3> QED BY <3>2, <3>3
  <2>5. \/ rNext < 3 /\ rAt' = "get" /\ rNext' = rNext + 1 /\ rObj' = rObj
        \/ rNext = 3 /\ rAt' = "status" /\ rObj' = rObj
        \/ rAt' = "idle" /\ rChild' = rChild
    BY <1>1, RouterOrderedKinds DEF R!Write, R!Rest
  <2>6. rAt' # "idle"
    <3> DEFINE want == R!Desired(router, k)
    <3>1. want \in R!Children /\ None \notin R!Children
      BY <1>1, RouterDesiredType DEF RouterConstants
    <3> HIDE DEF want
    <3>2. CASE rSeen = None
      BY <1>1, <1>2, <3>2 DEF R!Write, want
    <3>3. CASE rSeen # None
      <4>1. R!Repaired(want).fixed = want.fixed /\ rSeen \in R!Children
        BY <1>1, <3>3 DEF R!Repaired, R!Children
      <4>2. want.fixed = rSeen.fixed
        <5>1. CASE k = "StatefulSet"
          BY <1>1, <1>2, <1>4, <3>3, <5>1 DEF R!Immutable, want
        <5>2. CASE k # "StatefulSet"
          BY <1>1, <1>2, <3>3, <5>2 DEF RouterFixed, R!Desired, want
        <5> QED BY <5>1, <5>2
      <4>3. R!Patched(rSeen, R!Repaired(want)).fixed = rSeen.fixed
        BY <4>1, <4>2 DEF R!Patched, R!Children
      <4> QED BY <1>1, <1>2, <3>3, <4>3 DEF R!Write, want
    <3> QED BY <3>2, <3>3
  <2>7. CASE rNext < 3
    <3>1. rAt' = "get" /\ rNext' - 1 = rNext /\ rObj' = rObj
      BY <1>1, <2>5, <2>6, <2>7
    <3> QED BY <1>1, <2>4, <2>6, <3>1 DEF RouterUndisturbed, RouterGetsOn
  <2>8. CASE rNext = 3
    <3>1. ASSUME NEW l \in R!Kinds PROVE RouterRight(l)'
      <4>1. PICK i \in 1..3 : R!Order[i] = l
        BY RouterOrderedKinds DEF R!Kinds
      <4>2. RouterRight(R!Order[i])'
        BY <2>4, <2>8
      <4> QED BY <4>1, <4>2
    <3> QED BY <1>1, <2>5, <2>6, <2>8, <3>1 DEF RouterUndisturbed, RouterGetsOn
  <2> QED BY <1>1, <2>7, <2>8
<1> QED BY <1>3, <1>4

LEMMA RouterUndisturbedStep ==
  RouterConstants /\ RouterTyped /\ RouterFixed /\ RouterUndisturbed /\ [R!Proceed]_R!vars
     => RouterUndisturbed' /\ (RouterGetsOn \/ UNCHANGED R!vars)
<1> SUFFICES ASSUME RouterConstants, RouterTyped, RouterFixed, RouterUndisturbed,
                    [R!Proceed]_R!vars
             PROVE  RouterUndisturbed' /\ (RouterGetsOn \/ UNCHANGED R!vars)
  OBVIOUS
<1> USE DEF RouterGetsOn, R!cluster
<1>1. CASE R!Begin
  BY <1>1 DEF R!Begin, RouterUndisturbed
<1>2. CASE R!Merge
  <2> DEFINE merged == [rObj EXCEPT !.merged = TRUE,
                                    !.name = IF @ = Unset THEN DefaultName ELSE @]
  <2>1. /\ rAt = "merge" /\ router # None /\ rObj = router /\ rNext = 1
        /\ rObj \in R!ZitiRouters /\ merged \in R!ZitiRouters /\ merged # None
    BY <1>2, ConstantsAssumption
    DEF R!Merge, RouterUndisturbed, RouterTyped, RouterReading, R!ZitiRouters, RouterConstants
  <2>2. rAt' = "get" /\ rObj' = merged /\ router' = merged /\ rNext' = 1
    BY <1>2, <2>1 DEF R!Merge
  <2> HIDE DEF merged
  <2> QED BY <2>1, <2>2 DEF RouterUndisturbed
<1>3. CASE R!Get
  <2>1. /\ rAt = "get" /\ rAt' = "write" /\ UNCHANGED <<router, rChild, rNext, rObj>>
        /\ rSeen' = rChild[<<rObj.name, R!Kind>>] /\ router # None /\ rObj = router
    BY <1>3 DEF R!Get, RouterUndisturbed
  <2>2. R!Kind' = R!Kind
    BY <2>1 DEF R!Kind
  <2>3. \A i \in 1..(rNext - 1) : RouterRight(R!Order[i])
    BY <2>1 DEF RouterUndisturbed
  <2>4. \A i \in 1..(rNext' - 1) : RouterRight(R!Order[i])'
    BY <2>1, <2>3 DEF RouterRight
  <2>5. rSeen' = rChild'[<<router'.name, R!Kind'>>]
    BY <2>1, <2>2
  <2> QED BY <2>1, <2>4, <2>5 DEF RouterUndisturbed
<1>4. CASE R!Write
  BY <1>4, RouterWriteGoesOn
<1>5. CASE R!Status
  BY <1>5 DEF R!Status, RouterUndisturbed, R!Rest
<1>6. CASE UNCHANGED R!vars
  BY <1>6 DEF R!vars, R!worker, RouterUndisturbed, RouterRight, R!Kind
<1> QED BY <1>1, <1>2, <1>3, <1>4, <1>5, <1>6 DEF R!Proceed

\* Whatever was edited, renamed, deleted or interrupted before: from any point on at which
\* the worker is idle and after which nobody interferes and no call fails for no reason,
\* every pass comes to its last call, where all children are as the object says but for
\* labels and the pods' annotations, or the API server refuses to change the StatefulSet.
THEOREM RouterOnePass ==
  RouterConstants =>
    (R!Spec => [](rAt = "idle" => ([][R!Proceed]_R!vars => []RouterAllRight /\ [][RouterGetsOn]_R!vars)))
<1> SUFFICES ASSUME RouterConstants
             PROVE  R!Spec => [](rAt = "idle" =>
                       ([][R!Proceed]_R!vars => []RouterAllRight /\ [][RouterGetsOn]_R!vars))
  OBVIOUS
<1>1. rAt = "idle" => RouterUndisturbed
  BY DEF RouterUndisturbed
<1>2. RouterTyped /\ RouterFixed /\ RouterUndisturbed /\ [R!Proceed]_R!vars
        => RouterUndisturbed' /\ [RouterGetsOn]_R!vars
  BY RouterUndisturbedStep
<1>3. RouterUndisturbed => RouterAllRight
  BY DEF RouterUndisturbed, RouterAllRight
<1>4. /\ RouterTyped /\ RouterFixed /\ [R!Next]_R!vars => RouterTyped' /\ RouterFixed'
      /\ R!Init => RouterTyped /\ RouterFixed
  BY RouterTypedStep, RouterFixedStep, RouterTypedInit, RouterFixedInit
<1>5. R!Spec => [](RouterTyped /\ RouterFixed)
  BY <1>4, PTL DEF R!Spec
<1> QED BY <1>1, <1>2, <1>3, <1>5, PTL
==============================================================================
