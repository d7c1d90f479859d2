------------------------ MODULE RouterWebhook_proofs ------------------------
(***************************************************************************)
(* Proofs about RouterWebhook for any number of reviews and pods: type      *)
(* correctness under every interleaving, and what SerialSpec keeps.         *)
(***************************************************************************)
EXTENDS RouterWebhook, TLAPS

-----------------------------------------------------------------------------
(* The inductive invariant.                                                *)

\* CREATE and DELETE reviews go their own ways, each about a pod.
Ways ==
    /\ \A c \in Creates :
          /\ pc[c] \in {"idle", "updateRouter", "getToken", "marshal",
                        "answered", "refused", "applied"}
          /\ pc[c] # "idle" => about[c] \in Pods
    /\ \A d \in Deletes :
          /\ pc[d] \in {"idle", "deleteRouter", "getPvc", "checkPvc", "deletePvc", "answered"}
          /\ pc[d] # "idle" => about[d] \in Pods /\ old[d] \in RunningPods

\* What a review is to read of the shared variables is its own.
SharedIsOwn ==
    /\ \A c \in Creates : pc[c] = "marshal" => jsonPatch = [router |-> c, token |-> c]
    /\ \A d \in Deletes : pc[d] \in {"checkPvc", "deletePvc"} => pvc = about[d]

\* A router is there from updateRouter until a pod that names it is deleted, and an
\* answer that admits the pod names it.
CreateKept ==
    \A c \in Creates :
        /\ pc[c] \in {"idle", "updateRouter"} => c \notin router
        /\ pc[c] \in {"getToken", "marshal"} => c \in router
        /\ patch[c] # None => patch[c] = [router |-> c, token |-> c]
        /\ pc[c] = "answered" /\ allowed[c] /\ c \in router => patch[c] # None
        /\ patch[c] # None /\ pc[c] \notin {"refused", "applied"} => c \in router

\* A pod is of the review that it was created with, and names its router or none.
Genuine(pp, p) ==
    /\ pc[pp.uid] = "applied" /\ about[pp.uid] = p
    /\ pp.router \in {NoName, pp.uid} /\ pp.token = pp.router

PodsGenuine ==
    /\ \A p \in Pods : pod[p] # None => Genuine(pod[p], p)
    /\ \A d \in Deletes : old[d] # None => Genuine(old[d], about[d])

\* Past deleteRouter the router is gone, and past deletePvc the claim is going.
DeleteKept ==
    \A d \in Deletes :
        /\ (pc[d] \in {"getPvc", "checkPvc", "deletePvc"} \/ (pc[d] = "answered" /\ allowed[d]))
              => old[d].router \notin router
        /\ pc[d] = "answered" /\ allowed[d] /\ pod[about[d]] = old[d]
              => claim[about[d]] = "terminating"

Inductive ==
    /\ TypeOK /\ Ways /\ SharedIsOwn /\ CreateKept /\ PodsGenuine /\ DeleteKept
    /\ RetiredWithPod /\ ClaimGoesWithPod

TypedWays == TypeOK /\ Ways

-----------------------------------------------------------------------------
(* Type correctness.                                                       *)

LEMMA Distinct ==
  /\ \A c \in Creates : c \notin Deletes /\ c # NoName /\ c # None
  /\ \A p \in Pods : p # NoName /\ p # None
  /\ \A rp \in RunningPods : rp # None
  /\ \A jp \in Patches : jp # None
BY ConstantsAssumption, NoneAssumption

LEMMA TypedInit == Init => TypedWays
BY ConstantsAssumption DEF Init, TypedWays, TypeOK, Ways, Reviews

\* What the second and the first deletion make of a pod.
LEMMA Terminated ==
  ASSUME NEW rp \in RunningPods
  PROVE  /\ [rp EXCEPT !.terminating = TRUE] \in RunningPods
         /\ [rp EXCEPT !.terminating = TRUE].uid = rp.uid
         /\ [rp EXCEPT !.terminating = TRUE].router = rp.router
         /\ [rp EXCEPT !.terminating = TRUE].token = rp.token
         /\ [rp EXCEPT !.terminating = TRUE].terminating = TRUE
         /\ rp.uid \in Creates /\ rp.terminating \in BOOLEAN
BY DEF RunningPods

\* The pod that a CREATE review's answer makes.
Made(r) == [uid    |-> r,
            router |-> IF patch[r] = None THEN NoName ELSE patch[r].router,
            token  |-> IF patch[r] = None THEN NoName ELSE patch[r].token,
            terminating |-> FALSE]

LEMMA MadeType ==
  ASSUME TypeOK, NEW r \in Creates
  PROVE  Made(r) \in RunningPods /\ Made(r) # None
<1>1. patch[r] \in Patches \union {None}
  BY DEF TypeOK, Reviews
<1>2. Made(r) \in RunningPods
  BY <1>1 DEF Made, RunningPods, Patches
<1> QED BY <1>2, Distinct

\* A step moves one review, and may give its answer.
LEMMA Moved ==
  ASSUME TypeOK, NEW r \in Reviews, NEW b \in BOOLEAN,
         NEW label \in Serving \union {"idle", "answered", "refused", "applied"},
         pc' = [pc EXCEPT ![r] = label],
         allowed' = allowed \/ allowed' = [allowed EXCEPT ![r] = b]
  PROVE  /\ pc' \in [Reviews -> Serving \union {"idle", "answered", "refused", "applied"}]
         /\ allowed' \in [Reviews -> BOOLEAN]
<1>1. pc \in [Reviews -> Serving \union {"idle", "answered", "refused", "applied"}]
      /\ allowed \in [Reviews -> BOOLEAN]
  BY DEF TypeOK
<1>2. pc' \in [Reviews -> Serving \union {"idle", "answered", "refused", "applied"}]
  BY <1>1
<1>3. [allowed EXCEPT ![r] = b] \in [Reviews -> BOOLEAN]
  BY <1>1
<1> QED BY <1>1, <1>2, <1>3

LEMMA TypedStep == TypedWays /\ [Next]_vars => TypedWays'
<1> SUFFICES ASSUME TypeOK, Ways, [Next]_vars PROVE TypeOK' /\ Ways'
  BY DEF TypedWays
<1> USE ConstantsAssumption DEF cluster, calls, answers, shared, Goto, Answer, Reviews
<1>1. CASE UNCHANGED vars
  BY <1>1 DEF vars, TypeOK, Ways
<1>2. ASSUME NEW p \in Pods, CreateClaim(p) PROVE TypeOK' /\ Ways'
  BY <1>2 DEF CreateClaim, TypeOK, Ways
<1>3. ASSUME NEW p \in Pods, ReleaseClaim(p) PROVE TypeOK' /\ Ways'
  BY <1>3 DEF ReleaseClaim, TypeOK, Ways
<1>4. CASE LabelNamespace
  BY <1>4 DEF LabelNamespace, TypeOK, Ways
<1>5. CASE Crash
  BY <1>5 DEF Crash, Serving, TypeOK, Ways
<1>6. ASSUME NEW r \in Reviews, NEW p \in Pods, ReviewCreate(r, p) PROVE TypeOK' /\ Ways'
  <2>1. /\ r \in Creates /\ about' = [about EXCEPT ![r] = p]
        /\ \/ pc' = [pc EXCEPT ![r] = "answered"] /\ allowed' = [allowed EXCEPT ![r] = TRUE]
           \/ pc' = [pc EXCEPT ![r] = "updateRouter"] /\ allowed' = allowed
    BY <1>6 DEF ReviewCreate
  <2>2. pc' \in [Reviews -> Serving \union {"idle", "answered", "refused", "applied"}]
        /\ allowed' \in [Reviews -> BOOLEAN]
    BY <2>1, Moved DEF Serving
  <2>3. UNCHANGED <<pod, claim, router, optedOut, old, patch, jsonPatch, pvc>>
        /\ waiting' = waiting \union {r}
    BY <1>6 DEF ReviewCreate
  <2>4. Ways'
    BY <2>1, <2>3 DEF Ways, TypeOK
  <2>5. about' \in [Reviews -> Pods \union {None}]
    BY <2>1 DEF TypeOK
  <2> QED BY <2>2, <2>3, <2>4, <2>5 DEF TypeOK
<1>7. ASSUME NEW r \in Reviews, NEW p \in Pods, ReviewDelete(r, p) PROVE TypeOK' /\ Ways'
  BY <1>7 DEF ReviewDelete, Serving, TypeOK, Ways
<1>8. ASSUME NEW r \in Reviews, Timeout(r) PROVE TypeOK' /\ Ways'
  BY <1>8 DEF Timeout, TypeOK, Ways
<1>9. ASSUME NEW r \in Reviews, SettleCreate(r) PROVE TypeOK' /\ Ways'
  <2>1. r \in Creates /\ about[r] \in Pods /\ Made(r) \in RunningPods
    BY <1>9, MadeType DEF SettleCreate, Ways
  <2>2. /\ pod' = pod \/ (claim[about[r]] = "bound" /\ pod' = [pod EXCEPT ![about[r]] = Made(r)])
        /\ pc' = [pc EXCEPT ![r] = "applied"] \/ pc' = [pc EXCEPT ![r] = "refused"]
    BY <1>9 DEF SettleCreate, Made
  <2> QED BY <1>9, <2>1, <2>2 DEF SettleCreate, Serving, TypeOK, Ways
<1>10. ASSUME NEW r \in Reviews, SettleDelete(r) PROVE TypeOK' /\ Ways'
  <2>1. r \in Deletes /\ about[r] \in Pods
    BY <1>10 DEF SettleDelete, Ways
  <2>2. \/ pod' = pod
        \/ /\ pod[about[r]] \in RunningPods /\ pod[about[r]] # None
           /\ pod' = [pod EXCEPT ![about[r]] = None]
        \/ /\ pod[about[r]] \in RunningPods /\ pod[about[r]] # None
           /\ pod' = [pod EXCEPT ![about[r]] = [pod[about[r]] EXCEPT !.terminating = TRUE]]
    BY <1>10, <2>1, Distinct DEF SettleDelete, TypeOK, Ways
  <2>3. pod' \in [Pods -> RunningPods \union {None}]
        /\ \A p \in Pods : pod'[p] # None => pod[p] # None
    BY <2>1, <2>2, Terminated DEF TypeOK
  <2> QED BY <1>10, <2>1, <2>3 DEF SettleDelete, Serving, TypeOK, Ways
<1>11. ASSUME NEW r \in Reviews, Handler(r) PROVE TypeOK' /\ Ways'
  <2>1. CASE CallFails(r)
    BY <2>1 DEF CallFails, Serving, TypeOK, Ways
  <2>2. CASE UpdateRouter(r)
    BY <2>2 DEF UpdateRouter, Serving, TypeOK, Ways
  <2>3. CASE GetToken(r)
    <3>1. r \in Creates
      BY <2>3 DEF GetToken, Ways
    <3>2. [router |-> r, token |-> IF r \in router THEN r ELSE NoName] \in Patches
      BY <3>1 DEF Patches
    <3> QED BY <2>3, <3>1, <3>2 DEF GetToken, Serving, TypeOK, Ways
  <2>4. CASE Marshal(r)
    BY <2>4 DEF Marshal, Serving, TypeOK, Ways
  <2>5. CASE DeleteRouter(r)
    BY <2>5 DEF DeleteRouter, Serving, TypeOK, Ways
  <2>6. CASE GetPvc(r)
    <3>1. /\ r \in Deletes /\ pc[r] = "getPvc"
          /\ \/ pc' = [pc EXCEPT ![r] = "checkPvc"] /\ allowed' = allowed
             \/ pc' = [pc EXCEPT ![r] = "answered"] /\ allowed' = [allowed EXCEPT ![r] = FALSE]
      BY <2>6 DEF GetPvc, Ways
    <3>2. pc' \in [Reviews -> Serving \union {"idle", "answered", "refused", "applied"}]
          /\ allowed' \in [Reviews -> BOOLEAN]
      BY <3>1, Moved DEF Serving
    <3>3. pvc' \in Pods \union {NoName}
      BY <2>6, <3>1 DEF GetPvc, Ways
    <3>4. UNCHANGED <<pod, claim, router, optedOut, about, old, waiting, patch, jsonPatch>>
      BY <2>6 DEF GetPvc
    <3>5. Ways'
      BY <3>1, <3>4 DEF Ways, TypeOK
    <3> QED BY <3>2, <3>3, <3>4, <3>5 DEF TypeOK
  <2>7. CASE CheckPvc(r)
    <3>1. /\ r \in Deletes /\ pc[r] = "checkPvc"
          /\ \/ pc' = [pc EXCEPT ![r] = "deletePvc"] /\ allowed' = allowed
             \/ pc' = [pc EXCEPT ![r] = "answered"] /\ allowed' = [allowed EXCEPT ![r] = TRUE]
      BY <2>7 DEF CheckPvc, Ways
    <3>2. pc' \in [Reviews -> Serving \union {"idle", "answered", "refused", "applied"}]
          /\ allowed' \in [Reviews -> BOOLEAN]
      BY <3>1, Moved DEF Serving
    <3>4. UNCHANGED <<pod, claim, router, optedOut, about, old, waiting, patch, jsonPatch, pvc>>
      BY <2>7 DEF CheckPvc
    <3>5. Ways'
      BY <3>1, <3>4 DEF Ways, TypeOK
    <3> QED BY <3>2, <3>4, <3>5 DEF TypeOK
  <2>8. CASE DeletePvc(r)
    <3>1. /\ r \in Deletes /\ pc[r] = "deletePvc"
          /\ \/ pc' = [pc EXCEPT ![r] = "answered"] /\ allowed' = [allowed EXCEPT ![r] = TRUE]
             \/ pc' = [pc EXCEPT ![r] = "answered"] /\ allowed' = [allowed EXCEPT ![r] = FALSE]
      BY <2>8 DEF DeletePvc, Ways
    <3>2. pc' \in [Reviews -> Serving \union {"idle", "answered", "refused", "applied"}]
          /\ allowed' \in [Reviews -> BOOLEAN]
      BY <3>1, Moved DEF Serving
    <3>3. claim' \in [Pods -> {"none", "bound", "terminating"}]
          /\ \A p \in Pods : pod'[p] # None => claim'[p] # "none"
      BY <2>8 DEF DeletePvc, TypeOK
    <3>4. UNCHANGED <<pod, router, optedOut, about, old, waiting, patch, jsonPatch, pvc>>
      BY <2>8 DEF DeletePvc
    <3>5. Ways'
      BY <3>1, <3>4 DEF Ways, TypeOK
    <3> QED BY <3>2, <3>3, <3>4, <3>5 DEF TypeOK
  <2> QED BY <1>11, <2>1, <2>2, <2>3, <2>4, <2>5, <2>6, <2>7, <2>8 DEF Handler
<1> QED BY <1>1, <1>2, <1>3, <1>4, <1>5, <1>6, <1>7, <1>8, <1>9, <1>10, <1>11
      DEF Next, ApiServer

\* However the reviews interleave, the variables keep their types; a pod has a claim.
THEOREM TypeCorrect == Spec => []TypeOK
<1>1. TypedWays => TypeOK
  BY DEF TypedWays
<1> QED BY <1>1, TypedInit, TypedStep, PTL DEF Spec

-----------------------------------------------------------------------------
(* What the steps of SerialSpec keep, one part of the invariant after the other. *)

LEMMA InductiveInit == Init => Inductive
<1> SUFFICES ASSUME Init PROVE Inductive
  OBVIOUS
<1>1. TypeOK /\ Ways
  BY TypedInit DEF TypedWays
<1>2. SharedIsOwn /\ CreateKept /\ DeleteKept
  BY DEF Init, SharedIsOwn, CreateKept, DeleteKept, Reviews
<1>3. PodsGenuine /\ RetiredWithPod /\ ClaimGoesWithPod
  BY DEF Init, PodsGenuine, RetiredWithPod, ClaimGoesWithPod, Reviews
<1> QED BY <1>1, <1>2, <1>3 DEF Inductive

\* A pod is made with the names that the answer's patch has, if there is one.
LEMMA MadeNames ==
  ASSUME NEW r, patch[r] = None \/ patch[r] = [router |-> r, token |-> r]
  PROVE  /\ Made(r).uid = r /\ Made(r).terminating = FALSE
         /\ patch[r] = None => Made(r).router = NoName /\ Made(r).token = NoName
         /\ patch[r] # None => Made(r).router = r /\ Made(r).token = r
<1>1. CASE patch[r] = None
  BY <1>1 DEF Made
<1>2. CASE patch[r] # None
  <2>1. patch[r].router = r /\ patch[r].token = r
    BY <1>2
  <2> QED BY <1>2, <2>1 DEF Made
<1> QED BY <1>1, <1>2

\* Only these steps change a pod, or what a DELETE review knows of one.
LEMMA PodSteps ==
  ASSUME TypeOK, [Next]_vars
  PROVE  \/ UNCHANGED <<pod, old>> /\ \A d \in Deletes : about'[d] = about[d]
         \/ \E r \in Reviews : SettleCreate(r) \/ SettleDelete(r) \/ \E p \in Pods : ReviewDelete(r, p)
<1> USE ConstantsAssumption DEF cluster, calls, Reviews
<1> DEFINE Still == UNCHANGED <<pod, old>> /\ \A d \in Deletes : about'[d] = about[d]
<1>1. CASE UNCHANGED vars
  BY <1>1 DEF vars
<1>2. ASSUME NEW p \in Pods, CreateClaim(p) \/ ReleaseClaim(p) PROVE Still
  BY <1>2 DEF CreateClaim, ReleaseClaim
<1>3. CASE LabelNamespace \/ Crash
  BY <1>3 DEF LabelNamespace, Crash
<1>4. ASSUME NEW r \in Reviews, NEW p \in Pods, ReviewCreate(r, p) PROVE Still
  BY <1>4 DEF ReviewCreate, TypeOK
<1>5. ASSUME NEW r \in Reviews, Timeout(r) \/ Handler(r) PROVE Still
  BY <1>5 DEF Timeout, Handler, CallFails, UpdateRouter, GetToken, Marshal,
              DeleteRouter, GetPvc, CheckPvc, DeletePvc
<1> QED BY <1>1, <1>2, <1>3, <1>4, <1>5 DEF Next, ApiServer

\* A CREATE review that has been applied stays so, about its pod.
LEMMA AppliedStays ==
  ASSUME TypeOK, Ways, [Next]_vars, NEW c \in Creates, pc[c] = "applied"
  PROVE  pc'[c] = "applied" /\ about'[c] = about[c]
<1> USE ConstantsAssumption DEF cluster, calls, Reviews, Goto, Answer
<1>1. CASE UNCHANGED vars
  BY <1>1 DEF vars
<1>2. ASSUME NEW p \in Pods, CreateClaim(p) \/ ReleaseClaim(p) PROVE UNCHANGED <<pc, about>>
  BY <1>2 DEF CreateClaim, ReleaseClaim
<1>3. CASE LabelNamespace \/ Crash
  BY <1>3 DEF LabelNamespace, Crash, TypeOK, Serving
<1>4. ASSUME NEW r \in Reviews, NEW p \in Pods, ReviewCreate(r, p) \/ ReviewDelete(r, p)
      PROVE  pc'[c] = "applied" /\ about'[c] = about[c]
  <2>1. r # c
    BY <1>4 DEF ReviewCreate, ReviewDelete
  <2> QED BY <1>4, <2>1 DEF ReviewCreate, ReviewDelete, TypeOK
<1>5. ASSUME NEW r \in Reviews, Timeout(r) \/ SettleCreate(r) \/ SettleDelete(r)
      PROVE  pc'[c] = "applied" /\ about'[c] = about[c]
  BY <1>5 DEF Timeout, SettleCreate, SettleDelete, TypeOK
<1>6. ASSUME NEW r \in Reviews, Handler(r)
      PROVE  pc'[c] = "applied" /\ about'[c] = about[c]
  <2>1. pc[r] # "applied" /\ about' = about /\ \E label : pc' = [pc EXCEPT ![r] = label]
    BY <1>6 DEF Handler, CallFails, UpdateRouter, GetToken, Marshal,
                DeleteRouter, GetPvc, CheckPvc, DeletePvc
  <2> QED BY <2>1 DEF TypeOK
<1> QED BY <1>1, <1>2, <1>3, <1>4, <1>5, <1>6 DEF Next, ApiServer

LEMMA GenuineStep == Inductive /\ [Next]_vars => PodsGenuine'
<1> SUFFICES ASSUME Inductive, [Next]_vars PROVE PodsGenuine'
  OBVIOUS
<1>0. TypeOK /\ Ways /\ CreateKept /\ PodsGenuine
  BY DEF Inductive
<1> DEFINE Still(rp, p) == /\ pc'[rp.uid] = "applied" /\ about'[rp.uid] = p
                           /\ rp.router \in {NoName, rp.uid} /\ rp.token = rp.router
<1>1. ASSUME NEW rp \in RunningPods, NEW p, Genuine(rp, p) PROVE Still(rp, p)
  <2>1. rp.uid \in Creates /\ pc[rp.uid] = "applied" /\ about[rp.uid] = p
    BY <1>1, Terminated DEF Genuine
  <2>2. pc'[rp.uid] = "applied" /\ about'[rp.uid] = p
    BY <1>0, <2>1, AppliedStays
  <2> QED BY <1>1, <2>2 DEF Genuine
<1>2. \A p \in Pods : pod[p] # None => pod[p] \in RunningPods /\ Still(pod[p], p)
  BY <1>0, <1>1 DEF TypeOK, PodsGenuine
<1>3. \A d \in Deletes : old[d] # None => old[d] \in RunningPods /\ Still(old[d], about[d])
  BY <1>0, <1>1 DEF TypeOK, PodsGenuine, Reviews
<1>4. ASSUME \A p \in Pods : pod'[p] # None => Still(pod'[p], p),
             \A d \in Deletes : old'[d] # None => Still(old'[d], about'[d])
      PROVE  PodsGenuine'
  BY <1>4 DEF PodsGenuine, Genuine
<1> HIDE DEF Still
<1>5. CASE UNCHANGED <<pod, old>> /\ \A d \in Deletes : about'[d] = about[d]
  BY <1>2, <1>3, <1>5, <1>4
<1>6. ASSUME NEW r \in Reviews, SettleCreate(r) PROVE PodsGenuine'
  <2>1. /\ r \in Creates /\ about[r] \in Pods /\ UNCHANGED <<about, old>>
        /\ pod' = pod \/ (pod' = [pod EXCEPT ![about[r]] = Made(r)] /\ pc' = [pc EXCEPT ![r] = "applied"])
    BY <1>0, <1>6 DEF SettleCreate, Made, Goto, Ways
  <2>2. CASE pod' = pod
    BY <1>2, <1>3, <1>4, <2>1, <2>2
  <2>3. CASE pod' = [pod EXCEPT ![about[r]] = Made(r)] /\ pc' = [pc EXCEPT ![r] = "applied"]
    <3>1. Made(r).uid = r /\ Made(r).token = Made(r).router /\ Made(r).router \in {NoName, r}
      <4>1. patch[r] = None \/ patch[r] = [router |-> r, token |-> r]
        BY <1>0, <2>1 DEF CreateKept
      <4> QED BY <4>1, MadeNames
    <3>2. pc'[r] = "applied" /\ about'[r] = about[r]
      BY <1>0, <2>1, <2>3 DEF TypeOK
    <3>3. Still(Made(r), about[r])
      BY <2>1, <3>1, <3>2 DEF Still
    <3>4. \A p \in Pods : pod'[p] # None => Still(pod'[p], p)
      BY <1>0, <1>2, <2>1, <2>3, <3>3 DEF TypeOK
    <3> QED BY <1>3, <1>4, <2>1, <3>4
  <2> QED BY <2>1, <2>2, <2>3
<1>7. ASSUME NEW r \in Reviews, SettleDelete(r) PROVE PodsGenuine'
  <2>1. /\ r \in Deletes /\ about[r] \in Pods
        /\ old' = [old EXCEPT ![r] = None] /\ about' = [about EXCEPT ![r] = None]
    BY <1>0, <1>7 DEF SettleDelete, Ways
  <2>2. \A p \in Pods : pod'[p] # None =>
           /\ pod[p] # None
           /\ pod'[p] = pod[p] \/ pod'[p] = [pod[p] EXCEPT !.terminating = TRUE]
    <3>1. pod' = pod
          \/ (pod[about[r]] \in RunningPods /\ pod[about[r]] # None /\ pod' = [pod EXCEPT ![about[r]] = None])
          \/ (pod[about[r]] \in RunningPods /\ pod[about[r]] # None
              /\ pod' = [pod EXCEPT ![about[r]] = [pod[about[r]] EXCEPT !.terminating = TRUE]])
      BY <1>0, <1>7, <2>1, Distinct DEF SettleDelete, TypeOK, Ways
    <3> QED BY <1>0, <2>1, <3>1 DEF TypeOK
  <2>3. ASSUME NEW p \in Pods, pod'[p] # None PROVE Still(pod'[p], p)
    <3>1. pod[p] \in RunningPods /\ Still(pod[p], p)
      BY <1>2, <2>2, <2>3
    <3>2. pod'[p].uid = pod[p].uid /\ pod'[p].router = pod[p].router /\ pod'[p].token = pod[p].token
      BY <2>2, <2>3, <3>1, Terminated
    <3> QED BY <3>1, <3>2 DEF Still
  <2>4. \A d \in Deletes : old'[d] # None => old'[d] = old[d] /\ about'[d] = about[d]
    BY <1>0, <2>1 DEF TypeOK, Reviews
  <2> QED BY <1>3, <1>4, <2>3, <2>4
<1>8. ASSUME NEW r \in Reviews, NEW p \in Pods, ReviewDelete(r, p) PROVE PodsGenuine'
  <2>1. /\ r \in Deletes /\ pod' = pod /\ pod[p] # None
        /\ old' = [old EXCEPT ![r] = pod[p]] /\ about' = [about EXCEPT ![r] = p]
    BY <1>8 DEF ReviewDelete, cluster
  <2>2. \A d \in Deletes : (old'[d] = pod[p] /\ about'[d] = p) \/ (old'[d] = old[d] /\ about'[d] = about[d])
    BY <1>0, <2>1 DEF TypeOK, Reviews
  <2> QED BY <1>2, <1>3, <1>4, <2>1, <2>2
<1> QED BY <1>0, <1>5, <1>6, <1>7, <1>8, PodSteps

LEMMA SharedStep == Inductive /\ [Next /\ Serial]_vars => SharedIsOwn'
<1> SUFFICES ASSUME Inductive, [Next /\ Serial]_vars PROVE SharedIsOwn'
  OBVIOUS
<1>0. TypeOK /\ Ways /\ SharedIsOwn /\ CreateKept
  BY DEF Inductive
<1> USE ConstantsAssumption DEF cluster, calls, answers, shared, Goto, Answer, Reviews
<1>1. CASE UNCHANGED vars
  BY <1>0, <1>1 DEF vars, SharedIsOwn
<1>2. ASSUME Next, Serial PROVE SharedIsOwn'
  <2>1. ASSUME NEW c \in Creates, pc'[c] = "marshal"
        PROVE  jsonPatch' = [router |-> c, token |-> c]
    <3>1. CASE pc[c] = "marshal"
      BY <1>0, <1>2, <2>1, <3>1 DEF Serial, SharedIsOwn
    <3>2. CASE pc[c] # "marshal"
      <4>1. GetToken(c)
        <5> USE <1>0, <2>1, <3>2 DEF TypeOK
        <5>1. ASSUME NEW p \in Pods, CreateClaim(p) \/ ReleaseClaim(p) PROVE FALSE
          BY <5>1 DEF CreateClaim, ReleaseClaim
        <5>2. ~ LabelNamespace /\ ~ Crash
          BY DEF LabelNamespace, Crash
        <5>3. ASSUME NEW r \in Reviews, ApiServer(r) PROVE FALSE
          BY <5>3 DEF ApiServer, ReviewCreate, ReviewDelete, Timeout, SettleCreate, SettleDelete
        <5>4. ASSUME NEW r \in Reviews, Handler(r) PROVE GetToken(r) /\ r = c
          BY <5>4 DEF Handler, CallFails, UpdateRouter, GetToken, Marshal,
                      DeleteRouter, GetPvc, CheckPvc, DeletePvc
        <5> QED BY <1>2, <5>1, <5>2, <5>3, <5>4 DEF Next
      <4> QED BY <1>0, <4>1 DEF GetToken, CreateKept
    <3> QED BY <3>1, <3>2
  <2>2. ASSUME NEW d \in Deletes, pc'[d] \in {"checkPvc", "deletePvc"}
        PROVE  pvc' = about'[d]
    <3>1. CASE pc[d] \in {"checkPvc", "deletePvc"}
      <4>1. pvc' = pvc /\ pvc = about[d]
        BY <1>0, <1>2, <2>2, <3>1 DEF Serial, SharedIsOwn
      <4>2. about'[d] = about[d]
        <5> USE <1>0, <2>2, <3>1 DEF TypeOK
        <5>1. ASSUME NEW p \in Pods, CreateClaim(p) \/ ReleaseClaim(p) PROVE about' = about
          BY <5>1 DEF CreateClaim, ReleaseClaim
        <5>2. ASSUME LabelNamespace \/ Crash PROVE about' = about
          BY <5>2 DEF LabelNamespace, Crash
        <5>3. ASSUME NEW r \in Reviews, ApiServer(r) PROVE about'[d] = about[d]
          BY <5>3 DEF ApiServer, ReviewCreate, ReviewDelete, Timeout, SettleCreate, SettleDelete
        <5>4. ASSUME NEW r \in Reviews, Handler(r) PROVE about' = about
          BY <5>4 DEF Handler, CallFails, UpdateRouter, GetToken, Marshal,
                      DeleteRouter, GetPvc, CheckPvc, DeletePvc
        <5> QED BY <1>2, <5>1, <5>2, <5>3, <5>4 DEF Next
      <4> QED BY <4>1, <4>2
    <3>2. CASE pc[d] \notin {"checkPvc", "deletePvc"}
      <4>1. GetPvc(d) /\ pvc' = about[d]
        <5> USE <1>0, <2>2, <3>2 DEF TypeOK
        <5>1. ASSUME NEW p \in Pods, CreateClaim(p) \/ ReleaseClaim(p) PROVE FALSE
          BY <5>1 DEF CreateClaim, ReleaseClaim
        <5>2. ~ LabelNamespace /\ ~ Crash
          BY DEF LabelNamespace, Crash
        <5>3. ASSUME NEW r \in Reviews, ApiServer(r) PROVE FALSE
          BY <5>3 DEF ApiServer, ReviewCreate, ReviewDelete, Timeout, SettleCreate, SettleDelete
        <5>4. ASSUME NEW r \in Reviews, Handler(r) PROVE GetPvc(r) /\ r = d
          BY <5>4 DEF Handler, CallFails, UpdateRouter, GetToken, Marshal,
                      DeleteRouter, GetPvc, CheckPvc, DeletePvc
        <5>5. GetPvc(d)
          BY <1>2, <5>1, <5>2, <5>3, <5>4 DEF Next
        <5> QED BY <5>5 DEF GetPvc
      <4> QED BY <4>1 DEF GetPvc
    <3> QED BY <3>1, <3>2
  <2> QED BY <2>1, <2>2 DEF SharedIsOwn
<1> QED BY <1>1, <1>2

LEMMA CreateStep == Inductive /\ [Next /\ Serial]_vars => CreateKept'
<1> DEFINE Kept(c) ==
      /\ pc'[c] \in {"idle", "updateRouter"} => c \notin router'
      /\ pc'[c] \in {"getToken", "marshal"} => c \in router'
      /\ patch'[c] # None => patch'[c] = [router |-> c, token |-> c]
      /\ pc'[c] = "answered" /\ allowed'[c] /\ c \in router' => patch'[c] # None
      /\ patch'[c] # None /\ pc'[c] \notin {"refused", "applied"} => c \in router'
<1> SUFFICES ASSUME Inductive, [Next /\ Serial]_vars, NEW c \in Creates PROVE Kept(c)
  BY DEF CreateKept
<1>0. TypeOK /\ Ways /\ SharedIsOwn /\ CreateKept /\ PodsGenuine
  BY DEF Inductive
<1> USE ConstantsAssumption DEF cluster, calls, answers, shared, Goto, Answer, Reviews
<1>1. ASSUME UNCHANGED <<pc, router, patch, allowed>> PROVE Kept(c)
  BY <1>0, <1>1 DEF CreateKept
<1>2. CASE UNCHANGED vars
  BY <1>1, <1>2 DEF vars
<1>3. ASSUME NEW p \in Pods, CreateClaim(p) \/ ReleaseClaim(p) PROVE Kept(c)
  BY <1>1, <1>3 DEF CreateClaim, ReleaseClaim
<1>4. CASE LabelNamespace
  BY <1>1, <1>4 DEF LabelNamespace
<1>5. CASE Crash
  BY <1>0, <1>5 DEF Crash, Serving, TypeOK, CreateKept
<1>6. ASSUME NEW r \in Reviews, r # c, ApiServer(r) \/ Handler(r) PROVE Kept(c)
  <2>1. pc'[c] = pc[c] /\ allowed'[c] = allowed[c] /\ patch'[c] = patch[c]
    <3>1. ASSUME ApiServer(r) PROVE pc'[c] = pc[c] /\ allowed'[c] = allowed[c] /\ patch'[c] = patch[c]
      BY <1>0, <1>6, <3>1 DEF ApiServer, ReviewCreate, ReviewDelete, Timeout, SettleCreate,
                              SettleDelete, TypeOK
    <3>2. ASSUME Handler(r) PROVE pc'[c] = pc[c] /\ allowed'[c] = allowed[c] /\ patch'[c] = patch[c]
      BY <1>0, <1>6, <3>2 DEF Handler, CallFails, UpdateRouter, GetToken, Marshal,
                              DeleteRouter, GetPvc, CheckPvc, DeletePvc, TypeOK
    <3> QED BY <1>6, <3>1, <3>2
  <2>2. (c \in router' <=> c \in router) \/ pc[c] = "applied"
    <3>1. CASE DeleteRouter(r) /\ old[r].router = c
      <4>1. r \in Deletes /\ old[r] \in RunningPods
        BY <1>0, <3>1 DEF DeleteRouter, Ways
      <4>2. Genuine(old[r], about[r])
        BY <1>0, <4>1, Distinct DEF PodsGenuine
      <4> QED BY <3>1, <4>2 DEF Genuine
    <3>2. CASE DeleteRouter(r) /\ old[r].router # c
      BY <3>2 DEF DeleteRouter
    <3>3. ASSUME ApiServer(r) PROVE router' = router
      BY <3>3 DEF ApiServer, ReviewCreate, ReviewDelete, Timeout, SettleCreate, SettleDelete
    <3>4. ASSUME Handler(r), ~DeleteRouter(r) PROVE c \in router' <=> c \in router
      BY <1>6, <3>4 DEF Handler, CallFails, UpdateRouter, GetToken, Marshal,
                        GetPvc, CheckPvc, DeletePvc
    <3> QED BY <1>6, <3>1, <3>2, <3>3, <3>4
  <2> QED BY <1>0, <2>1, <2>2 DEF CreateKept
<1>7. CASE ApiServer(c)
  <2>1. ASSUME NEW p \in Pods, ReviewCreate(c, p) PROVE Kept(c)
    BY <1>0, <2>1 DEF ReviewCreate, CreateKept, TypeOK
  <2>2. CASE Timeout(c)
    BY <1>1, <2>2 DEF Timeout
  <2>3. CASE SettleCreate(c)
    BY <1>0, <2>3 DEF SettleCreate, CreateKept, TypeOK
  <2> QED BY <1>7, <2>1, <2>2, <2>3 DEF ApiServer, ReviewDelete, SettleDelete
<1>8. CASE Handler(c)
  <2>1. CASE CallFails(c)
    BY <1>0, <2>1 DEF CallFails, CreateKept, TypeOK
  <2>2. CASE UpdateRouter(c)
    BY <1>0, <2>2 DEF UpdateRouter, CreateKept, TypeOK
  <2>3. CASE GetToken(c)
    BY <1>0, <2>3 DEF GetToken, CreateKept, TypeOK
  <2>4. CASE Marshal(c)
    <3>1. patch'[c] = [router |-> c, token |-> c]
      BY <1>0, <2>4 DEF Marshal, SharedIsOwn, TypeOK
    <3>2. [router |-> c, token |-> c] # None
      BY Distinct DEF Patches
    <3> QED BY <1>0, <2>4, <3>1, <3>2 DEF Marshal, CreateKept, TypeOK
  <2> QED BY <1>0, <1>8, <2>1, <2>2, <2>3, <2>4
        DEF Handler, DeleteRouter, GetPvc, CheckPvc, DeletePvc, Ways
<1> QED BY <1>2, <1>3, <1>4, <1>5, <1>6, <1>7, <1>8 DEF Next

\* What a DELETE review was about, and had deleted, another step does not undo.
LEMMA DeleteStep == Inductive /\ [Next /\ Serial]_vars => DeleteKept'
<1> DEFINE RouterGone(d) ==
             (pc'[d] \in {"getPvc", "checkPvc", "deletePvc"} \/ (pc'[d] = "answered" /\ allowed'[d]))
                => old'[d].router \notin router'
           ClaimGoing(d) ==
             pc'[d] = "answered" /\ allowed'[d] /\ pod'[about'[d]] = old'[d]
                => claim'[about'[d]] = "terminating"
<1> SUFFICES ASSUME Inductive, [Next /\ Serial]_vars, NEW d \in Deletes
             PROVE  RouterGone(d) /\ ClaimGoing(d)
  BY DEF DeleteKept
<1>0. TypeOK /\ Ways /\ SharedIsOwn /\ CreateKept /\ PodsGenuine /\ DeleteKept
  BY DEF Inductive
<1> USE ConstantsAssumption DEF cluster, calls, answers, shared, Goto, Answer, Reviews
<1>1. ASSUME pc'[d] = "answered" \/ pc'[d] \in {"getPvc", "checkPvc", "deletePvc"},
             pc[d] # "idle"
      PROVE  /\ about[d] \in Pods /\ old[d] \in RunningPods /\ old[d] # None
             /\ pc[old[d].uid] = "applied" /\ old[d].router \in {NoName, old[d].uid}
  <2>1. about[d] \in Pods /\ old[d] \in RunningPods
    BY <1>0, <1>1 DEF Ways
  <2>2. old[d] # None
    BY <2>1, Distinct
  <2> QED BY <1>0, <2>1, <2>2 DEF PodsGenuine, Genuine
<1>2. ASSUME UNCHANGED <<pc, about, old, allowed, router, pod>>,
             about[d] \in Pods => claim'[about[d]] = claim[about[d]] \/ pod[about[d]] = None
      PROVE  RouterGone(d) /\ ClaimGoing(d)
  BY <1>0, <1>1, <1>2 DEF DeleteKept
<1>3. CASE UNCHANGED vars
  BY <1>2, <1>3 DEF vars
<1>4. ASSUME NEW p \in Pods, CreateClaim(p) \/ ReleaseClaim(p) PROVE RouterGone(d) /\ ClaimGoing(d)
  BY <1>0, <1>2, <1>4 DEF CreateClaim, ReleaseClaim, TypeOK
<1>5. CASE LabelNamespace
  BY <1>2, <1>5 DEF LabelNamespace
<1>6. CASE Crash
  BY <1>0, <1>6 DEF Crash, Serving, TypeOK, DeleteKept
<1>7. ASSUME NEW r \in Reviews, r # d, ApiServer(r) \/ Handler(r)
      PROVE  RouterGone(d) /\ ClaimGoing(d)
  <2>1. pc'[d] = pc[d] /\ allowed'[d] = allowed[d] /\ about'[d] = about[d] /\ old'[d] = old[d]
    <3>1. ASSUME ApiServer(r)
          PROVE  pc'[d] = pc[d] /\ allowed'[d] = allowed[d] /\ about'[d] = about[d] /\ old'[d] = old[d]
      BY <1>0, <1>7, <3>1 DEF ApiServer, ReviewCreate, ReviewDelete, Timeout, SettleCreate,
                              SettleDelete, TypeOK
    <3>2. ASSUME Handler(r)
          PROVE  pc'[d] = pc[d] /\ allowed'[d] = allowed[d] /\ about'[d] = about[d] /\ old'[d] = old[d]
      BY <1>0, <1>7, <3>2 DEF Handler, CallFails, UpdateRouter, GetToken, Marshal,
                              DeleteRouter, GetPvc, CheckPvc, DeletePvc, TypeOK
    <3> QED BY <1>7, <3>1, <3>2
  <2>2. RouterGone(d)
    <3>1. router' \subseteq router \/ (router' = router \union {r} /\ r \in Creates /\ pc[r] = "updateRouter")
      <4>1. ASSUME ApiServer(r) PROVE router' = router
        BY <4>1 DEF ApiServer, ReviewCreate, ReviewDelete, Timeout, SettleCreate, SettleDelete
      <4>2. CASE UpdateRouter(r)
        BY <1>0, <4>2 DEF UpdateRouter, Ways
      <4>3. ASSUME Handler(r), ~UpdateRouter(r) PROVE router' \subseteq router
        BY <4>3 DEF Handler, CallFails, GetToken, Marshal, DeleteRouter, GetPvc, CheckPvc, DeletePvc
      <4> QED BY <1>7, <4>1, <4>2, <4>3
    <3> QED BY <1>0, <1>1, <2>1, <3>1 DEF DeleteKept
  <2>3. ASSUME pc[d] = "answered", allowed[d], pod'[about[d]] = old[d]
        PROVE  claim'[about[d]] = "terminating"
    <3>0. about[d] \in Pods /\ old[d] \in RunningPods /\ old[d] # None /\ pc[old[d].uid] = "applied"
      BY <1>1, <2>1, <2>3
    <3>1. CASE SettleCreate(r)
      <4>1. r \in Creates /\ pc[r] = "answered" /\ claim' = claim
            /\ (pod' = pod \/ pod' = [pod EXCEPT ![about[r]] = Made(r)])
        BY <3>1 DEF SettleCreate, Made
      <4>2. Made(r) # old[d]
        BY <3>0, <4>1 DEF Made
      <4>3. pod[about[d]] = old[d]
        BY <1>0, <2>3, <3>0, <4>1, <4>2 DEF TypeOK
      <4> QED BY <1>0, <2>3, <4>1, <4>3 DEF DeleteKept
    <3>2. CASE SettleDelete(r)
      <4>1. r \in Deletes /\ pc[r] = "answered" /\ claim' = claim /\ about[r] \in Pods
            /\ (pod' = pod \/ (/\ allowed[r] /\ pod[about[r]] = old[r]
                               /\ \A p \in Pods \ {about[r]} : pod'[p] = pod[p]))
        BY <1>0, <3>2 DEF SettleDelete, TypeOK, Ways
      <4>2. CASE about[d] = about[r] /\ pod' # pod
        BY <1>0, <4>1, <4>2 DEF DeleteKept
      <4>3. CASE about[d] # about[r] \/ pod' = pod
        BY <1>0, <2>3, <3>0, <4>1, <4>3 DEF DeleteKept
      <4> QED BY <4>2, <4>3
    <3>3. CASE DeletePvc(r)
      <4>1. pod' = pod /\ claim[about[d]] = "terminating"
        BY <1>0, <2>3, <3>3 DEF DeletePvc, DeleteKept
      <4> QED BY <1>0, <2>3, <3>0, <3>3, <4>1 DEF DeletePvc, TypeOK
    <3>4. ASSUME UNCHANGED <<pod, claim>> PROVE claim'[about[d]] = "terminating"
      BY <1>0, <2>3, <3>4 DEF DeleteKept
    <3>5. ASSUME ApiServer(r), ~SettleCreate(r), ~SettleDelete(r) PROVE UNCHANGED <<pod, claim>>
      BY <3>5 DEF ApiServer, ReviewCreate, ReviewDelete, Timeout
    <3>6. ASSUME Handler(r), ~DeletePvc(r) PROVE UNCHANGED <<pod, claim>>
      BY <3>6 DEF Handler, CallFails, UpdateRouter, GetToken, Marshal, DeleteRouter, GetPvc, CheckPvc
    <3> QED BY <1>7, <3>1, <3>2, <3>3, <3>4, <3>5, <3>6
  <2> QED BY <2>1, <2>2, <2>3
<1>8. CASE ApiServer(d)
  <2>1. ASSUME NEW p \in Pods, ReviewDelete(d, p) PROVE pc'[d] = "deleteRouter"
    BY <1>0, <2>1 DEF ReviewDelete, TypeOK
  <2>2. CASE Timeout(d)
    BY <1>2, <2>2 DEF Timeout
  <2>3. ASSUME SettleDelete(d) PROVE pc'[d] = "idle"
    BY <1>0, <2>3 DEF SettleDelete, TypeOK
  <2> QED BY <1>8, <2>1, <2>2, <2>3 DEF ApiServer, ReviewCreate, SettleCreate
<1>9. CASE Handler(d)
  <2>0. pc[d] \in Serving /\ UNCHANGED <<pod, about, old>>
    BY <1>9 DEF Handler, CallFails, UpdateRouter, GetToken, Marshal, DeleteRouter, GetPvc,
                CheckPvc, DeletePvc, Serving
  <2>1. CASE CallFails(d)
    BY <1>0, <2>1 DEF CallFails, TypeOK
  <2>2. CASE DeleteRouter(d)
    BY <1>0, <2>2 DEF DeleteRouter, TypeOK
  <2>3. CASE GetPvc(d)
    BY <1>0, <2>3 DEF GetPvc, TypeOK, DeleteKept
  <2>4. CASE CheckPvc(d)
    <3>1. pvc # NoName
      BY <1>0, <2>4 DEF CheckPvc, SharedIsOwn, Ways
    <3> QED BY <1>0, <2>4, <3>1 DEF CheckPvc, TypeOK, DeleteKept
  <2>5. CASE DeletePvc(d)
    <3>1. RouterGone(d)
      BY <1>0, <2>0, <2>5 DEF DeletePvc, DeleteKept
    <3>2. pvc = about[d] /\ about[d] \in Pods /\ old[d] # None
      BY <1>0, <2>5, Distinct DEF DeletePvc, SharedIsOwn, Ways
    <3> QED BY <1>0, <2>0, <2>5, <3>1, <3>2 DEF DeletePvc, TypeOK
  <2> QED BY <1>0, <1>9, <2>1, <2>2, <2>3, <2>4, <2>5
        DEF Handler, UpdateRouter, GetToken, Marshal, Ways
<1> QED BY <1>3, <1>4, <1>5, <1>6, <1>7, <1>8, <1>9 DEF Next

\* The second and the last step of a deletion: only what a DELETE review knows is
\* marked, and then removed.
LEMMA SettleDeleteIs ==
  ASSUME Inductive, NEW d \in Reviews, SettleDelete(d)
  PROVE  /\ d \in Deletes /\ about[d] \in Pods /\ old[d] \in RunningPods /\ old[d] # None
         /\ UNCHANGED <<claim, router>>
         /\ \/ pod' = pod
            \/ /\ pc[d] = "answered" /\ allowed[d] /\ pod[about[d]] = old[d]
               /\ \A p \in Pods \ {about[d]} : pod'[p] = pod[p]
               /\ pod'[about[d]] = IF old[d].terminating THEN None
                                   ELSE [old[d] EXCEPT !.terminating = TRUE]
<1>0. TypeOK /\ Ways
  BY DEF Inductive
<1>1. d \in Deletes /\ about[d] \in Pods /\ old[d] \in RunningPods /\ old[d] # None
  BY <1>0, Distinct DEF SettleDelete, Ways
<1> QED BY <1>0, <1>1 DEF SettleDelete, TypeOK

LEMMA SettleCreateIs ==
  ASSUME Inductive, NEW r \in Reviews, SettleCreate(r)
  PROVE  /\ r \in Creates /\ about[r] \in Pods /\ Made(r) \in RunningPods /\ Made(r) # None
         /\ patch[r] = None \/ patch[r] = [router |-> r, token |-> r]
         /\ UNCHANGED <<claim, router>>
         /\ \/ pod' = pod /\ pc' = [pc EXCEPT ![r] = "refused"]
            \/ /\ allowed[r] /\ pc[r] = "answered" /\ pod[about[r]] = None
               /\ pod' = [pod EXCEPT ![about[r]] = Made(r)] /\ pc' = [pc EXCEPT ![r] = "applied"]
<1>0. TypeOK /\ Ways /\ CreateKept
  BY DEF Inductive
<1>1. r \in Creates /\ about[r] \in Pods
  BY <1>0 DEF SettleCreate, Ways
<1> QED BY <1>0, <1>1, MadeType DEF SettleCreate, CreateKept, Made, Goto

LEMMA ClaimStep == Inductive /\ [Next /\ Serial]_vars => ClaimGoesWithPod'
<1> SUFFICES ASSUME Inductive, [Next /\ Serial]_vars, NEW p \in Pods,
                    pod'[p] # None, pod'[p].terminating
             PROVE  claim'[p] = "terminating"
  BY DEF ClaimGoesWithPod
<1>0. TypeOK /\ Ways /\ DeleteKept /\ ClaimGoesWithPod
  BY DEF Inductive
<1> USE ConstantsAssumption DEF cluster, calls, answers, shared
<1>1. ASSUME pod'[p] = pod[p] PROVE claim[p] = "terminating" /\ claim[p] # "none" /\ pod[p] # None
  BY <1>0, <1>1 DEF ClaimGoesWithPod
<1>2. CASE UNCHANGED <<pod, claim>>
  BY <1>1, <1>2
<1>3. ASSUME NEW q \in Pods, CreateClaim(q) \/ ReleaseClaim(q) PROVE claim'[p] = "terminating"
  BY <1>0, <1>1, <1>3 DEF CreateClaim, ReleaseClaim, TypeOK
<1>4. ASSUME NEW r \in Reviews, SettleCreate(r) PROVE claim'[p] = "terminating"
  <2>1. Made(r).terminating = FALSE
    BY <1>4, SettleCreateIs, MadeNames
  <2>2. pod'[p] = pod[p]
    BY <1>0, <1>4, <2>1, SettleCreateIs DEF TypeOK
  <2> QED BY <1>1, <1>4, <2>2, SettleCreateIs
<1>5. ASSUME NEW r \in Reviews, SettleDelete(r) PROVE claim'[p] = "terminating"
  <2>1. CASE p = about[r] /\ pod' # pod
    <3>1. r \in Deletes /\ claim' = claim /\ pc[r] = "answered" /\ allowed[r] /\ pod[about[r]] = old[r]
      BY <1>5, <2>1, SettleDeleteIs
    <3> QED BY <1>0, <2>1, <3>1 DEF DeleteKept
  <2>2. CASE p # about[r] \/ pod' = pod
    BY <1>1, <1>5, <2>2, SettleDeleteIs
  <2> QED BY <2>1, <2>2
<1>6. ASSUME NEW r \in Reviews, DeletePvc(r) PROVE claim'[p] = "terminating"
  <2>1. pod' = pod
    BY <1>6 DEF DeletePvc
  <2> QED BY <1>0, <1>1, <1>6, <2>1 DEF DeletePvc, TypeOK
<1>7. ASSUME NEW r \in Reviews, ApiServer(r), ~SettleCreate(r), ~SettleDelete(r)
      PROVE  UNCHANGED <<pod, claim>>
  BY <1>7 DEF ApiServer, ReviewCreate, ReviewDelete, Timeout
<1>8. ASSUME NEW r \in Reviews, Handler(r), ~DeletePvc(r) PROVE UNCHANGED <<pod, claim>>
  BY <1>8 DEF Handler, CallFails, UpdateRouter, GetToken, Marshal, DeleteRouter, GetPvc, CheckPvc
<1>9. ASSUME LabelNamespace \/ Crash \/ UNCHANGED vars PROVE UNCHANGED <<pod, claim>>
  BY <1>9 DEF LabelNamespace, Crash, vars
<1> QED BY <1>2, <1>3, <1>4, <1>5, <1>6, <1>7, <1>8, <1>9 DEF Next

LEMMA RetiredStep == Inductive /\ [Next /\ Serial]_vars => RetiredWithPod'
<1> SUFFICES ASSUME Inductive, [Next /\ Serial]_vars, NEW c \in Creates,
                    pc'[c] = "applied", c \in router'
             PROVE  \E p \in Pods : pod'[p] # None /\ pod'[p].router = c
  BY DEF RetiredWithPod
<1>0. TypeOK /\ Ways /\ CreateKept /\ PodsGenuine /\ DeleteKept /\ RetiredWithPod
  BY DEF Inductive
<1> USE ConstantsAssumption DEF cluster, calls, answers, shared, Goto, Answer, Reviews
\* c has just been applied: its pod names it.
<1>1. ASSUME NEW r \in Reviews, SettleCreate(r), r = c
      PROVE  \E p \in Pods : pod'[p] # None /\ pod'[p].router = c
  <2>1. pod' = [pod EXCEPT ![about[c]] = Made(c)] /\ about[c] \in Pods /\ Made(c) # None
        /\ allowed[c] /\ pc[c] = "answered" /\ c \in router
    <3>1. /\ about[c] \in Pods /\ Made(c) # None /\ UNCHANGED router
          /\ \/ pc' = [pc EXCEPT ![c] = "refused"]
             \/ /\ allowed[c] /\ pc[c] = "answered"
                /\ pod' = [pod EXCEPT ![about[c]] = Made(c)]
      BY <1>1, SettleCreateIs
    <3>2. pc' # [pc EXCEPT ![c] = "refused"]
      BY <1>0 DEF TypeOK
    <3> QED BY <3>1, <3>2
  <2>2. patch[c] = [router |-> c, token |-> c] /\ patch[c] # None
    BY <1>0, <2>1 DEF CreateKept
  <2>3. Made(c).router = c
    BY <2>2, MadeNames
  <2> QED BY <1>0, <2>1, <2>3 DEF TypeOK
<1>2. ASSUME ~SettleCreate(c) PROVE pc[c] = "applied" /\ c \in router
  <2>1. ASSUME NEW p \in Pods, CreateClaim(p) \/ ReleaseClaim(p) PROVE UNCHANGED <<pc, router>>
    BY <2>1 DEF CreateClaim, ReleaseClaim
  <2>2. ASSUME LabelNamespace \/ Crash \/ UNCHANGED vars
        PROVE  pc[c] = "applied" /\ c \in router
    BY <1>0, <2>2 DEF LabelNamespace, Crash, vars, TypeOK
  <2>3. ASSUME NEW r \in Reviews, ApiServer(r) PROVE pc[c] = "applied" /\ c \in router
    BY <1>0, <1>2, <2>3 DEF ApiServer, ReviewCreate, ReviewDelete, Timeout, SettleCreate,
                            SettleDelete, TypeOK
  <2>4. ASSUME NEW r \in Reviews, Handler(r) PROVE pc[c] = "applied" /\ c \in router
    BY <1>0, <2>4 DEF Handler, CallFails, UpdateRouter, GetToken, Marshal, DeleteRouter,
                      GetPvc, CheckPvc, DeletePvc, TypeOK
  <2> QED BY <2>1, <2>2, <2>3, <2>4 DEF Next
<1>3. ASSUME pc[c] = "applied", c \in router
      PROVE  \E p \in Pods : pod'[p] # None /\ pod'[p].router = c
  <2>1. PICK p \in Pods : pod[p] # None /\ pod[p].router = c
    BY <1>0, <1>3 DEF RetiredWithPod
  <2>2. ASSUME NEW r \in Reviews, SettleCreate(r) PROVE pod'[p] = pod[p]
    <3>1. about[r] \in Pods
          /\ (pod' = pod \/ (pod[about[r]] = None /\ pod' = [pod EXCEPT ![about[r]] = Made(r)]))
      BY <2>2, SettleCreateIs
    <3> QED BY <1>0, <2>1, <3>1 DEF TypeOK
  <2>3. ASSUME NEW r \in Reviews, SettleDelete(r) PROVE pod'[p] # None /\ pod'[p].router = c
    <3>1. CASE pod' # pod /\ p = about[r]
      <4>1. old[r].router = c /\ old[r].router \notin router
        BY <1>0, <2>1, <2>3, <3>1, SettleDeleteIs DEF DeleteKept
      <4> QED BY <1>3, <4>1
    <3>2. CASE pod' = pod \/ p # about[r]
      BY <2>1, <2>3, <3>2, SettleDeleteIs
    <3> QED BY <3>1, <3>2
  <2>4. CASE UNCHANGED pod
    BY <2>1, <2>4
  <2> QED BY <1>0, <2>1, <2>2, <2>3, <2>4, PodSteps DEF ReviewDelete
<1> QED BY <1>1, <1>2, <1>3

-----------------------------------------------------------------------------
(* The theorems.                                                           *)

LEMMA Invariance == SerialSpec => []Inductive
<1>1. Inductive /\ [Next /\ Serial]_vars => Inductive'
  <2> SUFFICES ASSUME Inductive, [Next /\ Serial]_vars PROVE Inductive'
    OBVIOUS
  <2>1. [Next]_vars /\ TypedWays
    BY DEF TypedWays, Inductive
  <2>2. TypeOK' /\ Ways'
    BY <2>1, TypedStep DEF TypedWays
  <2>3. SharedIsOwn' /\ CreateKept' /\ PodsGenuine' /\ DeleteKept'
    BY <2>1, SharedStep, CreateStep, GenuineStep, DeleteStep
  <2>4. RetiredWithPod' /\ ClaimGoesWithPod'
    BY RetiredStep, ClaimStep
  <2> QED BY <2>2, <2>3, <2>4 DEF Inductive
<1> QED BY <1>1, InductiveInit, PTL DEF SerialSpec

\* As long as no review overwrites what another is still to read, a pod enrolls with
\* the token of the router that it names, and no two pods name one router.
THEOREM OwnRouterHolds == SerialSpec => []OwnRouter
<1>1. ASSUME Inductive PROVE OwnRouter
  <2> SUFFICES ASSUME NEW p \in Pods, pod[p] # None
               PROVE  /\ pod[p].token = pod[p].router
                      /\ \A q \in Pods \ {p} :
                            pod[q] # None /\ pod[p].router # NoName => pod[q].router # pod[p].router
    BY DEF OwnRouter
  <2>1. Genuine(pod[p], p) /\ \A q \in Pods : pod[q] # None => Genuine(pod[q], q)
    BY <1>1 DEF Inductive, PodsGenuine
  <2> QED BY <2>1 DEF Genuine
<1> QED BY <1>1, Invariance, PTL

\* The router that a pod was created with is gone from the Ziti controller when the
\* pod is, through every failed call, timeout, crash and repeated deletion.
THEOREM RetiredWithPodHolds == SerialSpec => []RetiredWithPod
BY Invariance, PTL DEF Inductive

\* The claim of a pod that terminates is being deleted: the next pod of that name does
\* not find the identity of the router that is gone.
THEOREM ClaimGoesWithPodHolds == SerialSpec => []ClaimGoesWithPod
BY Invariance, PTL DEF Inductive
-----------------------------------------------------------------------------
(* The refinement: every step of SerialSpec is a step of IdentityLifecycle *)
(* or leaves its variables alone.                                          *)

Early == {"idle", "updateRouter"}

Abstract == <<[c \in Creates |-> Stage(c)], [p \in Pods |-> Named(p)]>>

\* What changes of the stages and of the pods' names amount to.
LEMMA NothingChanged ==
  ASSUME \A c \in Creates : Stage(c)' = Stage(c), \A p \in Pods : Named(p)' = Named(p)
  PROVE  UNCHANGED Abstract
<1>1. [c \in Creates |-> Stage(c)]' = [c \in Creates |-> Stage(c)]
  OBVIOUS
<1>2. [p \in Pods |-> Named(p)]' = [p \in Pods |-> Named(p)]
  OBVIOUS
<1> QED BY <1>1, <1>2 DEF Abstract

\* Routers that never will be, one that is created, and one that is deleted.
LEMMA StageChanged ==
  ASSUME \A p \in Pods : Named(p)' = Named(p)
  PROVE  /\ \A S \in SUBSET Creates :
               /\ \A c \in S : Stage(c) = "fresh" /\ Stage(c)' = "spent"
               /\ \A c \in Creates \ S : Stage(c)' = Stage(c)
               => Lifecycle!Next
         /\ \A r \in Creates :
               /\ \/ Stage(r) = "fresh" /\ Stage(r)' = "live"
                  \/ Stage(r) = "live" /\ Stage(r)' = "spent" /\ \E p \in Pods : Named(p) = r
               /\ \A c \in Creates \ {r} : Stage(c)' = Stage(c)
               => Lifecycle!Next
<1>0. [p \in Pods |-> Named(p)]' = [p \in Pods |-> Named(p)]
  OBVIOUS
<1>1. ASSUME NEW S \in SUBSET Creates,
             \A c \in S : Stage(c) = "fresh" /\ Stage(c)' = "spent",
             \A c \in Creates \ S : Stage(c)' = Stage(c)
      PROVE  Lifecycle!Next
  <2>1. Lifecycle!Void(S)
    BY <1>0, <1>1 DEF Lifecycle!Void
  <2> QED BY <2>1 DEF Lifecycle!Next
<1>2. ASSUME NEW r \in Creates, Stage(r) = "fresh", Stage(r)' = "live",
             \A c \in Creates \ {r} : Stage(c)' = Stage(c)
      PROVE  Lifecycle!Next
  <2>1. Lifecycle!Issue(r)
    BY <1>0, <1>2 DEF Lifecycle!Issue
  <2> QED BY <2>1 DEF Lifecycle!Next
<1>3. ASSUME NEW r \in Creates, Stage(r) = "live", Stage(r)' = "spent",
             \E p \in Pods : Named(p) = r,
             \A c \in Creates \ {r} : Stage(c)' = Stage(c)
      PROVE  Lifecycle!Next
  <2>1. Lifecycle!Retire(r)
    BY <1>0, <1>3 DEF Lifecycle!Retire
  <2> QED BY <2>1 DEF Lifecycle!Next
<1> QED BY <1>1, <1>2, <1>3

\* A pod that gets the name of a router, and one that loses it.
LEMMA NamedChanged ==
  ASSUME \A c \in Creates : Stage(c)' = Stage(c),
         NEW p \in Pods, \A q \in Pods \ {p} : Named(q)' = Named(q)
  PROVE  /\ \A r \in Creates :
               /\ Stage(r) = "live" /\ Named(p) = None /\ Named(p)' = r
               /\ \A q \in Pods : Named(q) # r
               => Lifecycle!Next
         /\ Named(p) \in Creates /\ Stage(Named(p)) = "spent" /\ Named(p) # None /\ Named(p)' = None
               => Lifecycle!Next
<1>1. [c \in Creates |-> Stage(c)]' = [c \in Creates |-> Stage(c)]
  OBVIOUS
<1>2. ASSUME NEW h, Named(p)' = h
      PROVE  [q \in Pods |-> Named(q)]' = [[q \in Pods |-> Named(q)] EXCEPT ![p] = h]
  <2> DEFINE holder == [q \in Pods |-> Named(q)]
             next   == [q \in Pods |-> Named(q)']
  <2>1. \A q \in Pods : next[q] = IF q = p THEN h ELSE holder[q]
    BY <1>2
  <2>2. next = [holder EXCEPT ![p] = h]
    BY <2>1
  <2> QED BY <2>2
<1>3. ASSUME NEW r \in Creates, Stage(r) = "live", Named(p) = None, Named(p)' = r,
             \A q \in Pods : Named(q) # r
      PROVE  Lifecycle!Next
  <2>1. Lifecycle!Bind(r, p)
    BY <1>1, <1>2, <1>3 DEF Lifecycle!Bind
  <2> QED BY <2>1 DEF Lifecycle!Next
<1>4. ASSUME Named(p) \in Creates, Stage(Named(p)) = "spent", Named(p) # None, Named(p)' = None
      PROVE  Lifecycle!Next
  <2>1. Lifecycle!Release(p)
    BY <1>1, <1>2, <1>4 DEF Lifecycle!Release
  <2> QED BY <2>1 DEF Lifecycle!Next
<1> QED BY <1>3, <1>4
\* A review goes on to its next step, answers or ends.
LEMMA ReviewMoves ==
  ASSUME Inductive, NEW r \in Reviews, NEW label,
         r \in Deletes \/ (label \in Early => pc[r] \in Early),
         pc' = [pc EXCEPT ![r] = label], UNCHANGED <<pod, router>>
  PROVE  Lifecycle!Next \/ UNCHANGED Abstract
<1>0. TypeOK /\ CreateKept
  BY DEF Inductive
<1>1. \A p \in Pods : Named(p)' = Named(p)
  BY DEF Named
<1>2. pc'[r] = label /\ \A c \in Creates \ {r} : Stage(c)' = Stage(c)
  BY <1>0 DEF TypeOK, Reviews, Stage
<1>3. CASE r \in Creates /\ pc[r] \in Early /\ label \notin Early
  <2>1. Stage(r) = "fresh" /\ Stage(r)' = "spent"
    BY <1>0, <1>2, <1>3 DEF CreateKept, Stage, Early
  <2> QED BY <1>1, <1>2, <1>3, <2>1, StageChanged
<1>4. CASE r \in Creates /\ (pc[r] \in Early <=> label \in Early)
  <2>1. Stage(r)' = Stage(r)
    BY <1>2, <1>4 DEF Stage, Early
  <2> QED BY <1>1, <1>2, <2>1, NothingChanged
<1>5. CASE r \notin Creates
  BY <1>1, <1>2, <1>5, NothingChanged
<1> QED BY <1>3, <1>4, <1>5, ConstantsAssumption DEF Reviews

LEMMA HandlerRefines ==
  ASSUME Inductive, NEW r \in Reviews, Handler(r)
  PROVE  Lifecycle!Next \/ UNCHANGED Abstract
<1>0. TypeOK /\ Ways /\ CreateKept /\ PodsGenuine /\ RetiredWithPod
  BY DEF Inductive
<1> USE DEF cluster, Goto, Answer
<1>1. CASE CallFails(r)
  BY <1>1, ReviewMoves DEF CallFails, Early
<1>2. CASE UpdateRouter(r)
  <2>1. /\ r \in Creates /\ pc[r] = "updateRouter" /\ pc' = [pc EXCEPT ![r] = "getToken"]
        /\ router' = router \union {r} /\ pod' = pod
    BY <1>0, <1>2 DEF UpdateRouter, Ways, Reviews
  <2>2. Stage(r) = "fresh" /\ Stage(r)' = "live"
    BY <1>0, <2>1 DEF CreateKept, Stage
  <2>3. \A c \in Creates \ {r} : Stage(c)' = Stage(c)
    BY <1>0, <2>1 DEF TypeOK, Reviews, Stage
  <2>4. \A p \in Pods : Named(p)' = Named(p)
    BY <2>1 DEF Named
  <2> QED BY <2>1, <2>2, <2>3, <2>4, StageChanged
<1>3. CASE GetToken(r)
  BY <1>3, ReviewMoves DEF GetToken, Early
<1>4. CASE Marshal(r)
  BY <1>4, ReviewMoves DEF Marshal, Early
<1>5. CASE DeleteRouter(r)
  <2>1. /\ r \in Deletes /\ old[r] \in RunningPods /\ pod' = pod
        /\ pc' = [pc EXCEPT ![r] = "getPvc"] /\ router' = router \ {old[r].router}
    BY <1>0, <1>5 DEF DeleteRouter, Ways, Reviews
  <2>2. CASE old[r].router \notin router
    BY <2>1, <2>2, ReviewMoves
  <2>3. CASE old[r].router \in router
    <3>1. PICK c \in Creates : c = old[r].router
      BY <1>0, <2>3 DEF TypeOK
    <3>2. pc[c] = "applied"
      BY <1>0, <2>1, <3>1, Distinct DEF PodsGenuine, Genuine
    <3>3. \E p \in Pods : Named(p) = c
      BY <1>0, <2>3, <3>1, <3>2, Distinct DEF RetiredWithPod, Named
    <3>4. c # r /\ pc'[c] = "applied"
      BY <1>0, <1>5, <2>1, <3>2 DEF TypeOK, Reviews, DeleteRouter
    <3>5. Stage(c) = "live" /\ Stage(c)' = "spent"
      BY <2>1, <2>3, <3>1, <3>4 DEF Stage
    <3>6. \A b \in Creates \ {c} : Stage(b)' = Stage(b)
      BY <1>0, <2>1, <3>1, ConstantsAssumption DEF TypeOK, Reviews, Stage
    <3>7. \A p \in Pods : Named(p)' = Named(p)
      BY <2>1 DEF Named
    <3> QED BY <3>3, <3>5, <3>6, <3>7, StageChanged
  <2> QED BY <2>2, <2>3
<1>6. CASE GetPvc(r)
  <2>1. PICK label \in {"checkPvc", "answered"} : pc' = [pc EXCEPT ![r] = label]
    BY <1>6 DEF GetPvc
  <2>2. UNCHANGED <<pod, router>>
    BY <1>6 DEF GetPvc
  <2> QED BY <2>1, <2>2, ReviewMoves DEF Early
<1>7. CASE CheckPvc(r)
  <2>1. PICK label \in {"deletePvc", "answered"} : pc' = [pc EXCEPT ![r] = label]
    BY <1>7 DEF CheckPvc
  <2>2. UNCHANGED <<pod, router>>
    BY <1>7 DEF CheckPvc
  <2> QED BY <2>1, <2>2, ReviewMoves DEF Early
<1>8. CASE DeletePvc(r)
  BY <1>8, ReviewMoves DEF DeletePvc, Early
<1> QED BY <1>1, <1>2, <1>3, <1>4, <1>5, <1>6, <1>7, <1>8 DEF Handler

\* A pod is created with the router of its review, and goes when that is gone.
LEMMA ApiRefines ==
  ASSUME Inductive, NEW r \in Reviews, ApiServer(r)
  PROVE  Lifecycle!Next \/ UNCHANGED Abstract
<1>0. TypeOK /\ Ways /\ CreateKept /\ PodsGenuine /\ DeleteKept
  BY DEF Inductive
<1> USE DEF cluster, Goto, Answer
<1>1. ASSUME NEW p \in Pods, ReviewCreate(r, p) PROVE Lifecycle!Next \/ UNCHANGED Abstract
  <2>1. PICK label \in {"answered", "updateRouter"} : pc' = [pc EXCEPT ![r] = label]
    BY <1>1 DEF ReviewCreate
  <2>2. UNCHANGED <<pod, router>> /\ pc[r] \in Early
    BY <1>1 DEF ReviewCreate, Early
  <2> QED BY <2>1, <2>2, ReviewMoves
<1>2. ASSUME NEW p \in Pods, ReviewDelete(r, p) PROVE Lifecycle!Next \/ UNCHANGED Abstract
  BY <1>2, ReviewMoves DEF ReviewDelete
<1>3. CASE Timeout(r)
  BY <1>3, NothingChanged DEF Timeout, Stage, Named
<1>4. CASE SettleCreate(r)
  <2>1. CASE pod' = pod /\ pc' = [pc EXCEPT ![r] = "refused"]
    BY <1>4, <2>1, SettleCreateIs, ReviewMoves DEF Early
  <2>2. CASE /\ allowed[r] /\ pc[r] = "answered" /\ pod[about[r]] = None
             /\ pod' = [pod EXCEPT ![about[r]] = Made(r)] /\ pc' = [pc EXCEPT ![r] = "applied"]
    <3>0. PICK p \in Pods : p = about[r]
      BY <1>4, SettleCreateIs
    <3>1. /\ r \in Creates /\ Made(r) # None /\ router' = router
          /\ patch[r] = None \/ patch[r] = [router |-> r, token |-> r]
      BY <1>4, SettleCreateIs
    <3>2. pod'[p] = Made(r) /\ \A q \in Pods \ {p} : pod'[q] = pod[q]
      BY <1>0, <2>2, <3>0 DEF TypeOK
    <3>3. Named(p) = None /\ \A q \in Pods \ {p} : Named(q)' = Named(q)
      BY <2>2, <3>0, <3>2 DEF Named
    <3>4. \A c \in Creates : Stage(c)' = Stage(c)
      BY <1>0, <2>2, <3>1 DEF TypeOK, Reviews, Stage
    <3>5. CASE patch[r] = None
      <4>0. Made(r).router = NoName
        BY <3>5, MadeNames
      <4>1. Named(p)' = None
        BY <3>2, <4>0 DEF Named
      <4> QED BY <3>3, <3>4, <4>1, NothingChanged
    <3>6. CASE patch[r] # None
      <4>0. Made(r).router = r /\ r # NoName
        BY <3>1, <3>6, MadeNames, Distinct
      <4>1. Named(p)' = r
        BY <3>1, <3>2, <4>0 DEF Named
      <4>2. Stage(r) = "live"
        BY <1>0, <2>2, <3>1, <3>6 DEF CreateKept, Stage
      <4>3. \A q \in Pods : Named(q) # r
        BY <1>0, <2>2, <3>1, Distinct DEF PodsGenuine, Genuine, Named
      <4> QED BY <3>1, <3>3, <3>4, <4>1, <4>2, <4>3, NamedChanged
    <3> QED BY <3>5, <3>6
  <2> QED BY <1>4, <2>1, <2>2, SettleCreateIs
<1>5. CASE SettleDelete(r)
  <2>0. /\ r \in Deletes /\ about[r] \in Pods /\ old[r] \in RunningPods /\ old[r] # None
        /\ router' = router /\ pc' = [pc EXCEPT ![r] = "idle"]
    BY <1>5, SettleDeleteIs DEF SettleDelete
  <2>1. CASE pod' = pod
    BY <2>0, <2>1, ReviewMoves
  <2>2. CASE /\ pc[r] = "answered" /\ allowed[r] /\ pod[about[r]] = old[r]
             /\ \A q \in Pods \ {about[r]} : pod'[q] = pod[q]
             /\ pod'[about[r]] = IF old[r].terminating THEN None
                                 ELSE [old[r] EXCEPT !.terminating = TRUE]
    <3>0. PICK p \in Pods : p = about[r]
      BY <2>0
    <3>1. \A c \in Creates : Stage(c)' = Stage(c)
      BY <1>0, <2>0, ConstantsAssumption DEF TypeOK, Reviews, Stage
    <3>2. \A q \in Pods \ {p} : Named(q)' = Named(q)
      BY <2>2, <3>0 DEF Named
    <3>3. CASE ~old[r].terminating \/ old[r].router = NoName
      <4>0. /\ [old[r] EXCEPT !.terminating = TRUE].router = old[r].router
            /\ [old[r] EXCEPT !.terminating = TRUE] # None
        BY <2>0, Terminated, Distinct
      <4>1. Named(p)' = Named(p)
        BY <2>0, <2>2, <3>0, <3>3, <4>0 DEF Named
      <4> QED BY <3>1, <3>2, <4>1, NothingChanged
    <3>4. CASE old[r].terminating /\ old[r].router # NoName
      <4>1. Named(p) = old[r].router /\ Named(p)' = None
        BY <2>0, <2>2, <3>0, <3>4 DEF Named
      <4>2. PICK c \in Creates : c = old[r].router /\ pc[c] = "applied"
        BY <1>0, <2>0, <3>4, Terminated DEF PodsGenuine, Genuine
      <4>3. Stage(c) = "spent"
        BY <1>0, <2>0, <2>2, <4>2 DEF DeleteKept, Stage
      <4> QED BY <2>0, <3>1, <3>2, <4>1, <4>2, <4>3, NamedChanged, Distinct
    <3> QED BY <3>3, <3>4
  <2> QED BY <1>5, <2>1, <2>2, SettleDeleteIs
<1> QED BY <1>1, <1>2, <1>3, <1>4, <1>5 DEF ApiServer

LEMMA LifecycleStep == Inductive /\ [Next]_vars => Lifecycle!Next \/ UNCHANGED Abstract
<1> SUFFICES ASSUME Inductive, [Next]_vars PROVE Lifecycle!Next \/ UNCHANGED Abstract
  OBVIOUS
<1> USE DEF cluster
<1>1. ASSUME UNCHANGED <<pod, router, pc>> PROVE UNCHANGED Abstract
  BY <1>1, NothingChanged DEF Stage, Named
<1>2. CASE UNCHANGED vars
  BY <1>1, <1>2 DEF vars
<1>3. ASSUME NEW p \in Pods, CreateClaim(p) \/ ReleaseClaim(p) PROVE UNCHANGED Abstract
  BY <1>1, <1>3 DEF CreateClaim, ReleaseClaim
<1>4. CASE LabelNamespace
  BY <1>1, <1>4 DEF LabelNamespace
<1>5. CASE Crash
  <2> DEFINE lost == {c \in Creates : pc[c] = "updateRouter"}
  <2>1. /\ pc' = [r \in Reviews |-> IF pc[r] \in Serving THEN "answered" ELSE pc[r]]
        /\ UNCHANGED <<pod, router>>
    BY <1>5 DEF Crash
  <2>2. ASSUME NEW c \in lost PROVE Stage(c) = "fresh" /\ Stage(c)' = "spent"
    <3>1. c \in Creates /\ pc[c] = "updateRouter" /\ pc'[c] = "answered" /\ c \notin router
      BY <2>1 DEF Inductive, CreateKept, Serving, Reviews
    <3> QED BY <2>1, <3>1 DEF Stage
  <2>3. ASSUME NEW c \in Creates \ lost PROVE Stage(c)' = Stage(c)
    <3>1. pc'[c] = pc[c] \/ (pc[c] \notin Early /\ pc'[c] \notin Early)
      BY <2>1 DEF Serving, Reviews, Early
    <3> QED BY <2>1, <3>1 DEF Stage, Early
  <2>4. \A p \in Pods : Named(p)' = Named(p)
    BY <2>1 DEF Named
  <2> QED BY <2>2, <2>3, <2>4, StageChanged
<1>6. ASSUME NEW r \in Reviews, ApiServer(r) \/ Handler(r) PROVE Lifecycle!Next \/ UNCHANGED Abstract
  BY <1>6, ApiRefines, HandlerRefines
<1> QED BY <1>2, <1>3, <1>4, <1>5, <1>6 DEF Next

\* As long as no review overwrites what another is still to read, the webhook, the API
\* server and the Ziti controller together implement IdentityLifecycle: a router is
\* created once, given to one pod at most, deleted only as that of a pod, and such a pod
\* is removed only afterwards.
THEOREM ImplementsLifecycleHolds == SerialSpec => ImplementsLifecycle
<1>1. Init => Lifecycle!Init
  BY DEF Init, Lifecycle!Init, Stage, Named, Reviews
<1>2. Inductive /\ [Next /\ Serial]_vars
        => [Lifecycle!Next]_<<[c \in Creates |-> Stage(c)], [p \in Pods |-> Named(p)]>>
  <2>1. [Next /\ Serial]_vars => [Next]_vars
    OBVIOUS
  <2> QED BY <2>1, LifecycleStep DEF Abstract
<1> QED BY <1>1, <1>2, Invariance, PTL DEF SerialSpec, Lifecycle!Spec, ImplementsLifecycle
=============================================================================
