------------------------ MODULE TunnelWebhook_proofs ------------------------
(***************************************************************************)
(* Proofs about TunnelWebhook for any number of reviews, pods and webhook   *)
(* processes.                                                              *)
(***************************************************************************)
EXTENDS TunnelWebhook, TLAPS

-----------------------------------------------------------------------------
(* What a client can ask: the three Submit actions make a well-formed      *)
(* review of the pod as it is.                                             *)

Asked(rv) ==
    /\ rv \in Reviews /\ rv.op # "NONE" /\ rv.pod \in Pods
    /\ rv.op = "CREATE" => rv.old.sidecar = None /\ rv.new.sidecar = None
    /\ rv.op = "UPDATE" => rv.new.sidecar = rv.old.sidecar
    /\ rv.op = "DELETE" => rv.new.sidecar \in {rv.old.sidecar, None}
    /\ rv.new.phase = "absent" => rv.new.sidecar = None /\ rv.op # "CREATE"
    /\ PodShape => /\ rv.old.sidecar = None => rv.old.annot = None
                   /\ rv.new.sidecar = None => rv.new.annot = None

LEMMA ClientAsks ==
  ASSUME TypeOK, NEW r \in Requests, ClientStep(r)
  PROVE  \E rv : Asked(rv) /\ Submit(r, rv)
<1>1. NoPod \in PodObjects
  BY DEF NoPod, PodObjects, Ids, Annotations
<1>2. PICK p \in Pods, dry \in DryRuns, role \in Annotations :
        \/ SubmitCreate(r, p, role, dry)
        \/ \E annot \in Ids : SubmitUpdate(r, p, annot, role, dry)
        \/ \E graceful \in BOOLEAN : SubmitDelete(r, p, graceful, dry)
  BY DEF ClientStep
<1>3. pods[p] \in PodObjects /\ dry \in BOOLEAN
  BY ConstantsAssumption DEF TypeOK
<1>4. CASE SubmitCreate(r, p, role, dry)
  <2> DEFINE rv == [op |-> "CREATE", pod |-> p, dry |-> dry, old |-> NoPod,
                    new |-> [NoPod EXCEPT !.phase = "running", !.role = role]]
  <2>1. /\ rv.new \in PodObjects /\ rv.new.sidecar = None /\ rv.new.annot = None
        /\ rv.new.phase = "running"
    BY <1>1 DEF NoPod, PodObjects
  <2>2. rv.old.sidecar = None /\ rv.old.annot = None
    BY DEF NoPod
  <2>3. Asked(rv)
    BY <1>1, <1>3, <2>1, <2>2 DEF Asked, Reviews
  <2>4. Submit(r, rv)
    BY <1>4 DEF SubmitCreate
  <2> QED BY <2>3, <2>4
<1>5. ASSUME NEW annot \in Ids, SubmitUpdate(r, p, annot, role, dry)
      PROVE  \E rv : Asked(rv) /\ Submit(r, rv)
  <2> DEFINE rv == [op |-> "UPDATE", pod |-> p, dry |-> dry, old |-> pods[p],
                    new |-> [pods[p] EXCEPT !.annot = annot, !.role = role]]
  <2>1. /\ rv.new \in PodObjects /\ rv.new.sidecar = pods[p].sidecar
        /\ rv.new.annot = annot /\ rv.new.phase = pods[p].phase
    BY <1>3 DEF PodObjects
  <2>2. /\ pods[p].phase # "absent"
        /\ PodShape /\ pods[p].sidecar = None => pods[p].annot = None /\ annot = None
    BY <1>5 DEF SubmitUpdate, PodShape
  <2>3. Asked(rv)
    BY <1>3, <2>1, <2>2 DEF Asked, Reviews
  <2>4. Submit(r, rv)
    BY <1>5 DEF SubmitUpdate
  <2> QED BY <2>3, <2>4
<1>6. ASSUME NEW graceful \in BOOLEAN, SubmitDelete(r, p, graceful, dry)
      PROVE  \E rv : Asked(rv) /\ Submit(r, rv)
  <2> DEFINE rv == [op |-> "DELETE", pod |-> p, dry |-> dry, old |-> pods[p],
                    new |-> IF graceful THEN [pods[p] EXCEPT !.phase = "terminating"]
                            ELSE NoPod]
  <2>1. rv.new \in PodObjects
    BY <1>1, <1>3 DEF PodObjects
  <2>2. /\ rv.new.sidecar \in {pods[p].sidecar, None}
        /\ PodShape /\ rv.new.sidecar = None => rv.new.annot = None
        /\ rv.new.phase = "absent" => rv.new.sidecar = None
    BY <1>3 DEF PodObjects, PodShape, NoPod
  <2>3. Asked(rv)
    BY <1>3, <2>1, <2>2 DEF Asked, Reviews, PodShape
  <2>4. Submit(r, rv)
    BY <1>6 DEF SubmitDelete
  <2> QED BY <2>3, <2>4
<1> QED BY <1>2, <1>4, <1>5, <1>6

-----------------------------------------------------------------------------
(* Type correctness, of every schedule.                                    *)

LEMMA PatchedType ==
  ASSUME NEW obj \in PodObjects, NEW patch \in Patches
  PROVE  Patched(obj, patch) \in PodObjects
BY DEF Patched, PodObjects, Patches, Annotations

LEMMA OwnPatchIsPatch ==
  ASSUME NEW r \in Requests
  PROVE  OwnPatch(r) # NoPatch /\ OwnPatch(r) \in Patches
<1>1. OwnPatch(r).sidecar = r /\ NoPatch.sidecar = None
  BY DEF OwnPatch, NoPatch
<1> QED BY <1>1, ConstantsAssumption DEF OwnPatch, Patches, Ids

LEMMA TypeInit == Init => TypeOK
<1> SUFFICES ASSUME Init PROVE TypeOK
  OBVIOUS
<1>1. NoPod \in PodObjects /\ NoPatch \in Patches
  BY DEF NoPod, NoPatch, PodObjects, Patches, Ids, Annotations
<1>2. NoReview \in Reviews
  BY <1>1 DEF NoReview, Reviews
<1> QED
  BY <1>1, <1>2 DEF Init, TypeOK, Ids, Attributes

LEMMA TypeStep == TypeOK /\ [Next]_vars => TypeOK'
<1> SUFFICES ASSUME TypeOK, [Next]_vars PROVE TypeOK'
  OBVIOUS
<1> USE DEF apiserver, handler, edge
<1>1. CASE UNCHANGED vars
  BY <1>1 DEF vars, TypeOK
<1>2. ASSUME NEW r \in Requests, ClientStep(r) PROVE TypeOK'
  <2>1. PICK rv : Asked(rv) /\ Submit(r, rv)
    BY <1>2, ClientAsks
  <2> QED BY <2>1 DEF Asked, Submit, TypeOK, Serving
<1>3. ASSUME NEW r \in Requests, NEW patch \in Patches, Persist(r, patch), Waiting(r),
             UNCHANGED <<optedOut, review, handler, jsonPatch, edge>>
      PROVE  TypeOK'
  <2>1. review[r].new \in PodObjects
    BY DEF TypeOK, Reviews
  <2> QED BY <1>3, <2>1, PatchedType DEF Persist, TypeOK
<1>4. ASSUME NEW r \in Requests, ApiStep(r) PROVE TypeOK'
  <2>1. NoPatch \in Patches /\ reply[r] \in Patches
    BY DEF TypeOK, NoPatch, Patches, Ids
  <2>2. CASE Accept(r)
    BY <1>3, <2>1, <2>2 DEF Accept, TypeOK
  <2>3. CASE Refuse(r)
    BY <2>3 DEF Refuse, TypeOK
  <2>4. CASE CallFails(r)
    BY <1>3, <2>1, <2>4 DEF CallFails, TypeOK
  <2> QED BY <1>4, <2>2, <2>3, <2>4 DEF ApiStep
<1>5. ASSUME NEW r \in Requests, HandlerStep(r) PROVE TypeOK'
  <2> USE DEF Goto, Answer, Fails, Serving
  <2>1. CASE Dispatch(r)
    BY <2>1 DEF Dispatch, TypeOK
  <2>2. CASE CreateIdentity(r)
    <3>1. (IF review[r].new.role = None THEN "app" ELSE review[r].new.role) \in Attributes
      BY DEF TypeOK, Reviews, PodObjects, Annotations, Attributes
    <3> QED BY <2>2, <3>1 DEF CreateIdentity, TypeOK
  <2>3. CASE GetToken(r)
    BY <2>3 DEF GetToken, TypeOK
  <2>4. CASE WritePatch(r)
    BY <2>4 DEF WritePatch, TypeOK, Patches, Ids
  <2>5. CASE Annotate(r)
    BY <2>5, ConstantsAssumption DEF Annotate, TypeOK, Patches, Ids
  <2>6. CASE MarshalPatch(r)
    BY <2>6, ConstantsAssumption DEF MarshalPatch, TypeOK
  <2>7. CASE Lookup(r)
    BY <2>7 DEF Lookup, TypeOK, Ids
  <2>8. CASE DeleteIdentity(r)
    BY <2>8 DEF DeleteIdentity, TypeOK
  <2>9. CASE PatchIdentity(r)
    <3>1. NewAttributes(review[r].old, review[r].new) \in Attributes
      BY DEF NewAttributes, TypeOK, Reviews, PodObjects, Annotations, Attributes
    <3> QED BY <2>9, <3>1 DEF PatchIdentity, TypeOK
  <2> QED BY <1>5, <2>1, <2>2, <2>3, <2>4, <2>5, <2>6, <2>7, <2>8, <2>9
        DEF HandlerStep
<1>6. ASSUME NEW s \in Servers, Crash(s) PROVE TypeOK'
  BY <1>6 DEF Crash, TypeOK, NoPatch, Patches, Ids
<1>7. ASSUME NEW p \in Relabelled, Relabel(p) PROVE TypeOK'
  BY <1>7, ConstantsAssumption DEF Relabel, TypeOK
<1> QED BY <1>1, <1>2, <1>4, <1>5, <1>6, <1>7 DEF Next

\* TypeOK holds in every schedule, racing writes of jsonPatch included.
THEOREM TypeCorrect == Spec => []TypeOK
BY TypeInit, TypeStep, PTL DEF Spec

-----------------------------------------------------------------------------
(* The inductive invariant of SerialSpec, one lemma for each part.         *)

\* The patch with which the API server persists a request, if it does.
LEMMA PersistCases ==
  ASSUME Inductive, NEW r \in Requests, ApiStep(r)
  PROVE  /\ UNCHANGED <<optedOut, review, handler, jsonPatch, edge>>
         /\ Waiting(r)
         /\ \/ UNCHANGED pods /\ outcome'[r] # "persisted"
               /\ \A q \in Requests \ {r} : outcome'[q] = outcome[q]
            \/ Persist(r, NoPatch)
            \/ review[r].op = "CREATE" /\ reply[r] = OwnPatch(r) /\ Persist(r, OwnPatch(r))
<1>1. reply[r] = NoPatch \/ (reply[r] = OwnPatch(r) /\ review[r].op = "CREATE")
  BY DEF Inductive, PatchIsOwn
<1>2. outcome \in [Requests -> {"pending", "persisted", "refused", "discarded"}]
  BY DEF Inductive, TypeOK
<1>3. CASE Accept(r)
  BY <1>1, <1>2, <1>3 DEF Accept
<1>4. CASE Refuse(r)
  BY <1>2, <1>4 DEF Refuse
<1>5. CASE CallFails(r)
  BY <1>2, <1>5 DEF CallFails
<1> QED BY <1>3, <1>4, <1>5 DEF ApiStep

LEMMA InductiveInit == Init => Inductive
<1> SUFFICES ASSUME Init PROVE Inductive
  OBVIOUS
<1> USE DEF Init, NoReview, NoPod, NoPatch
<1>1. TypeOK
  BY TypeInit
<1>2. Exclusive /\ ReviewShape /\ PodShape
  BY DEF Exclusive, ReviewShape, PodShape
<1>3. PatchIsOwn /\ SidecarIsBound /\ FoundIsSidecar
  BY DEF PatchIsOwn, SidecarIsBound, FoundIsSidecar
<1>4. IssuedIsLive
  BY DEF IssuedIsLive, Issued
<1> QED BY <1>1, <1>2, <1>3, <1>4 DEF Inductive

LEMMA ReviewShapeStep == Inductive /\ [Next]_vars => ReviewShape'
<1> SUFFICES ASSUME Inductive, [Next]_vars PROVE ReviewShape'
  OBVIOUS
<1> USE DEF apiserver, handler, edge
<1>0. TypeOK /\ ReviewShape /\ PodShape
  BY DEF Inductive
<1>1. CASE UNCHANGED vars
  BY <1>0, <1>1 DEF vars, ReviewShape
<1>2. ASSUME NEW r \in Requests, ClientStep(r) PROVE ReviewShape'
  <2>1. PICK rv : Asked(rv) /\ Submit(r, rv)
    BY <1>0, <1>2, ClientAsks
  <2>2. /\ review' = [review EXCEPT ![r] = rv] /\ pc' = [pc EXCEPT ![r] = "dispatch"]
        /\ outcome' = outcome
    BY <2>1 DEF Submit
  <2> QED BY <1>0, <2>1, <2>2 DEF Asked, TypeOK, ReviewShape
<1>3. ASSUME NEW r \in Requests, ApiStep(r) PROVE ReviewShape'
  <2>1. UNCHANGED <<review, pc>> /\ pc[r] # "idle"
    BY <1>3, PersistCases DEF Waiting
  <2>2. \A q \in Requests \ {r} : outcome'[q] = outcome[q]
    BY <1>0, <1>3 DEF ApiStep, Accept, Refuse, CallFails, Persist, TypeOK
  <2> QED BY <1>0, <2>1, <2>2 DEF ReviewShape
<1>4. ASSUME NEW r \in Requests, HandlerStep(r) PROVE ReviewShape'
  <2> DEFINE makes == {"createIdentity", "getToken", "writePatch", "annotate", "marshal"}
             keeps(labels) == /\ UNCHANGED <<review, outcome>>
                              /\ \E label \in labels : pc' = [pc EXCEPT ![r] = label]
                              /\ pc[r] # "idle"
  <2>1. ASSUME keeps({"answered", "dead"}) PROVE ReviewShape'
    BY <1>0, <2>1 DEF ReviewShape, TypeOK
  <2>2. ASSUME keeps(makes), review[r].op = "CREATE" PROVE ReviewShape'
    BY <1>0, <2>2 DEF ReviewShape, TypeOK
  <2>3. ASSUME keeps({"lookup"}), review[r].op \in {"UPDATE", "DELETE"} PROVE ReviewShape'
    BY <1>0, <2>3 DEF ReviewShape, TypeOK
  <2>4. ASSUME keeps({"deleteIdentity"}), review[r].op = "DELETE" PROVE ReviewShape'
    BY <1>0, <2>4 DEF ReviewShape, TypeOK
  <2>5. ASSUME keeps({"patchIdentity"}), review[r].op = "UPDATE" PROVE ReviewShape'
    BY <1>0, <2>5 DEF ReviewShape, TypeOK
  <2>6. /\ pc[r] \in makes => review[r].op = "CREATE"
        /\ review[r].op \in {"NONE", "CREATE", "UPDATE", "DELETE"}
        /\ pc[r] # "idle" => review[r].op # "NONE"
    BY <1>0 DEF ReviewShape, TypeOK, Reviews
  <2> HIDE DEF keeps
  <2> USE DEF Goto, Answer, Fails
  <2>7. CASE Dispatch(r)
    <3>1. \/ keeps({"answered", "dead"})
          \/ keeps(makes) /\ review[r].op = "CREATE"
          \/ keeps({"lookup"}) /\ review[r].op # "CREATE" /\ pc[r] # "idle"
      BY <2>7 DEF Dispatch, keeps
    <3> QED BY <2>1, <2>2, <2>3, <2>6, <3>1
  <2>8. CASE CreateIdentity(r)
    BY <2>1, <2>2, <2>6, <2>8 DEF CreateIdentity, keeps
  <2>9. CASE GetToken(r)
    BY <2>1, <2>2, <2>6, <2>9 DEF GetToken, keeps
  <2>10. CASE WritePatch(r)
    BY <2>2, <2>6, <2>10 DEF WritePatch, keeps
  <2>11. CASE Annotate(r)
    BY <2>2, <2>6, <2>11 DEF Annotate, keeps
  <2>12. CASE MarshalPatch(r)
    BY <2>1, <2>12 DEF MarshalPatch, keeps
  <2>13. CASE Lookup(r)
    <3>1. \/ keeps({"answered", "dead"})
          \/ keeps({"deleteIdentity"}) /\ review[r].op = "DELETE"
          \/ keeps({"patchIdentity"}) /\ review[r].op = "UPDATE"
      BY <1>0, <2>13 DEF Lookup, keeps, ReviewShape
    <3> QED BY <2>1, <2>4, <2>5, <3>1
  <2>14. CASE DeleteIdentity(r)
    BY <2>1, <2>14 DEF DeleteIdentity, keeps
  <2>15. CASE PatchIdentity(r)
    BY <2>1, <2>15 DEF PatchIdentity, keeps
  <2> QED BY <1>4, <2>7, <2>8, <2>9, <2>10, <2>11, <2>12, <2>13, <2>14, <2>15
        DEF HandlerStep
<1>5. ASSUME NEW s \in Servers, Crash(s) PROVE ReviewShape'
  BY <1>0, <1>5 DEF Crash, ReviewShape, Serving, TypeOK
<1>6. ASSUME NEW p \in Relabelled, Relabel(p) PROVE ReviewShape'
  BY <1>0, <1>6 DEF Relabel, ReviewShape
<1> QED BY <1>1, <1>2, <1>3, <1>4, <1>5, <1>6 DEF Next

LEMMA PodShapeStep == Inductive /\ [Next]_vars => PodShape'
<1> SUFFICES ASSUME Inductive, [Next]_vars PROVE PodShape'
  OBVIOUS
<1> USE DEF apiserver, handler, edge
<1>0. TypeOK /\ ReviewShape /\ PodShape
  BY DEF Inductive
<1>1. ASSUME UNCHANGED pods PROVE PodShape'
  BY <1>0, <1>1 DEF PodShape
<1>2. ASSUME NEW r \in Requests, ApiStep(r) PROVE PodShape'
  <2> DEFINE rv == review[r]
  <2>1. /\ rv.new.sidecar = None => rv.new.annot = None
        /\ rv.new.phase = "absent" => rv.new.sidecar = None /\ rv.op # "CREATE"
    BY <1>0 DEF ReviewShape
  <2>2. ASSUME NEW patch, Persist(r, patch),
               patch = NoPatch \/ (rv.op = "CREATE" /\ patch = OwnPatch(r))
        PROVE  PodShape'
    <3>1. /\ Patched(rv.new, patch).sidecar = None => Patched(rv.new, patch).annot = None
          /\ Patched(rv.new, patch).phase = "absent" => Patched(rv.new, patch).sidecar = None
      BY <2>1, <2>2, ConstantsAssumption DEF Patched, NoPatch, OwnPatch
    <3> QED BY <1>0, <2>2, <3>1 DEF Persist, PodShape, TypeOK
  <2> QED BY <1>1, <1>2, <2>2, PersistCases
<1>3. ASSUME NEW r \in Requests, ClientStep(r) PROVE UNCHANGED pods
  BY <1>0, <1>3, ClientAsks DEF Submit
<1>4. ASSUME NEW r \in Requests, HandlerStep(r) PROVE UNCHANGED pods
  BY <1>4 DEF HandlerStep, Dispatch, CreateIdentity, GetToken, WritePatch,
              Annotate, MarshalPatch, Lookup, DeleteIdentity, PatchIdentity
<1> QED BY <1>1, <1>2, <1>3, <1>4 DEF Next, vars, Crash, Relabel

LEMMA PatchIsOwnStep == Inductive /\ [Next]_vars /\ Exclusive' => PatchIsOwn'
<1> SUFFICES ASSUME Inductive, [Next]_vars, Exclusive' PROVE PatchIsOwn'
  OBVIOUS
<1> USE DEF apiserver, handler, edge
<1>0. TypeOK /\ Exclusive /\ ReviewShape /\ PatchIsOwn
  BY DEF Inductive
<1>1. ASSUME UNCHANGED <<pc, reply, jsonPatch, review>> PROVE PatchIsOwn'
  BY <1>0, <1>1 DEF PatchIsOwn
<1>2. ASSUME NEW r \in Requests, ClientStep(r) PROVE PatchIsOwn'
  <2>1. PICK rv : Asked(rv) /\ Submit(r, rv)
    BY <1>0, <1>2, ClientAsks
  <2> QED BY <1>0, <2>1 DEF Submit, PatchIsOwn, TypeOK
<1>3. ASSUME NEW r \in Requests, ApiStep(r) PROVE PatchIsOwn'
  BY <1>1, <1>3, PersistCases
<1>4. ASSUME NEW r \in Requests, UNCHANGED <<reply, jsonPatch, review>>,
             NEW label, label \notin {"annotate", "marshal"},
             pc' = [pc EXCEPT ![r] = label], pc[r] # "answered"
      PROVE  PatchIsOwn'
  BY <1>0, <1>4 DEF PatchIsOwn, TypeOK
<1>5. ASSUME NEW r \in Requests, HandlerStep(r) PROVE PatchIsOwn'
  <2> USE DEF Goto, Answer, Fails
  <2>1. CASE WritePatch(r)
    <3>1. /\ pc' = [pc EXCEPT ![r] = "annotate"] /\ UNCHANGED <<reply, review>>
          /\ jsonPatch' = [jsonPatch EXCEPT ![ServerOf[r]] = [sidecar |-> r, annot |-> None]]
          /\ pc[r] = "writePatch"
      BY <2>1 DEF WritePatch
    <3>2. ASSUME NEW q \in Requests \ {r}, pc[q] \in {"annotate", "marshal"}
          PROVE  ServerOf[q] # ServerOf[r]
      BY <1>0, <3>1, <3>2 DEF Exclusive, TypeOK
    <3> QED BY <1>0, <3>1, <3>2, ConstantsAssumption DEF PatchIsOwn, TypeOK
  <2>2. CASE Annotate(r)
    <3>1. /\ pc' = [pc EXCEPT ![r] = "marshal"] /\ UNCHANGED <<reply, review>>
          /\ jsonPatch' = [jsonPatch EXCEPT ![ServerOf[r]].annot = r]
          /\ pc[r] = "annotate"
      BY <2>2 DEF Annotate
    <3>2. ASSUME NEW q \in Requests \ {r}, pc[q] \in {"annotate", "marshal"}
          PROVE  ServerOf[q] # ServerOf[r]
      BY <1>0, <3>1, <3>2 DEF Exclusive
    <3>3. jsonPatch'[ServerOf[r]] = OwnPatch(r)
      <4>1. jsonPatch[ServerOf[r]] = [sidecar |-> r, annot |-> None]
        BY <1>0, <3>1 DEF PatchIsOwn
      <4>2. jsonPatch'[ServerOf[r]] = [jsonPatch[ServerOf[r]] EXCEPT !.annot = r]
        BY <1>0, <3>1, ConstantsAssumption DEF TypeOK
      <4> QED BY <4>1, <4>2 DEF OwnPatch
    <3> QED BY <1>0, <3>1, <3>2, <3>3, ConstantsAssumption DEF PatchIsOwn, TypeOK
  <2>3. CASE MarshalPatch(r)
    <3>1. /\ pc' = [pc EXCEPT ![r] = "answered"] /\ UNCHANGED <<jsonPatch, review>>
          /\ reply' = [reply EXCEPT ![r] = OwnPatch(r)] /\ review[r].op = "CREATE"
      BY <1>0, <2>3 DEF MarshalPatch, PatchIsOwn, ReviewShape
    <3> QED BY <1>0, <3>1 DEF PatchIsOwn, TypeOK
  <2>4. CASE Dispatch(r)
    BY <1>4, <2>4 DEF Dispatch
  <2>5. CASE CreateIdentity(r)
    BY <1>4, <2>5 DEF CreateIdentity
  <2>6. CASE GetToken(r)
    BY <1>4, <2>6 DEF GetToken
  <2>7. CASE Lookup(r)
    BY <1>4, <2>7 DEF Lookup
  <2>8. CASE DeleteIdentity(r)
    BY <1>4, <2>8 DEF DeleteIdentity
  <2>9. CASE PatchIdentity(r)
    BY <1>4, <2>9 DEF PatchIdentity
  <2> QED BY <1>5, <2>1, <2>2, <2>3, <2>4, <2>5, <2>6, <2>7, <2>8, <2>9
        DEF HandlerStep
<1>6. ASSUME NEW s \in Servers, Crash(s) PROVE PatchIsOwn'
  <2>1. \A q \in Requests :
          /\ pc'[q] \in {"annotate", "marshal"} => pc'[q] = pc[q] /\ ServerOf[q] # s
          /\ pc[q] = "answered" => pc'[q] = "answered"
    BY <1>6 DEF Crash, Serving
  <2>2. UNCHANGED <<reply, review>> /\ jsonPatch' = [jsonPatch EXCEPT ![s] = NoPatch]
    BY <1>6 DEF Crash
  <2> QED BY <1>0, <2>1, <2>2, ConstantsAssumption DEF PatchIsOwn, TypeOK
<1>7. ASSUME NEW p \in Relabelled, Relabel(p) PROVE PatchIsOwn'
  BY <1>1, <1>7 DEF Relabel
<1> QED BY <1>1, <1>2, <1>3, <1>5, <1>6, <1>7 DEF Next, vars

LEMMA SidecarIsBoundStep == Inductive /\ [Next]_vars => SidecarIsBound'
<1> SUFFICES ASSUME Inductive, [Next]_vars PROVE SidecarIsBound'
  OBVIOUS
<1> USE DEF apiserver, handler, edge
<1>0. TypeOK /\ ReviewShape /\ PatchIsOwn /\ SidecarIsBound
  BY DEF Inductive
<1>1. ASSUME UNCHANGED <<pods, review>>, \A i, p : Bound(i, p) /\ i \in Requests => Bound(i, p)'
      PROVE  SidecarIsBound'
  BY <1>0, <1>1 DEF SidecarIsBound, TypeOK, Reviews, PodObjects, Ids
<1>2. ASSUME NEW r \in Requests, ClientStep(r) PROVE SidecarIsBound'
  <2>1. PICK rv : Asked(rv) /\ Submit(r, rv)
    BY <1>0, <1>2, ClientAsks
  <2>2. /\ UNCHANGED <<pods, outcome, reply>> /\ review' = [review EXCEPT ![r] = rv]
        /\ pc[r] = "idle" /\ rv.old = pods[rv.pod] /\ rv.pod \in Pods
    BY <2>1 DEF Submit, Asked
  <2>3. ASSUME NEW i \in Requests, NEW p, Bound(i, p) PROVE Bound(i, p)'
    <3>1. i # r
      BY <1>0, <2>2, <2>3 DEF Bound, ReviewShape
    <3> QED BY <1>0, <2>2, <2>3, <3>1 DEF Bound, TypeOK, OwnPatch
  <2>4. ASSUME NEW p \in Pods, pods[p].sidecar # None PROVE Bound(pods[p].sidecar, p)'
    <3>1. pods[p].sidecar \in Requests /\ Bound(pods[p].sidecar, p)
      BY <1>0, <2>4 DEF SidecarIsBound, TypeOK, PodObjects, Ids
    <3> QED BY <2>2, <2>3, <3>1 DEF Bound
  <2>5. ASSUME NEW q \in Requests, review[q].old.sidecar # None
        PROVE  Bound(review[q].old.sidecar, review[q].pod)'
    <3>1. q # r
      BY <1>0, <2>2, <2>5 DEF ReviewShape
    <3>2. review'[q] = review[q] /\ review[q].old.sidecar \in Requests
      BY <1>0, <2>2, <2>5, <3>1 DEF TypeOK, Reviews, PodObjects, Ids
    <3>3. Bound(review[q].old.sidecar, review[q].pod)
      BY <1>0, <2>5 DEF SidecarIsBound
    <3> QED BY <2>3, <3>2, <3>3 DEF Bound
  <2>6. review'[r] = rv
    BY <1>0, <2>2 DEF TypeOK
  <2>7. \A q \in Requests \ {r} : review'[q] = review[q]
    BY <1>0, <2>2 DEF TypeOK
  <2>8. ASSUME NEW q \in Requests, review'[q].old.sidecar # None
        PROVE  Bound(review[q].old.sidecar, review[q].pod)'
    <3>1. CASE q = r
      BY <2>2, <2>4, <2>6, <2>8, <3>1 DEF Bound
    <3>2. CASE q # r
      BY <2>5, <2>7, <2>8, <3>2 DEF Bound
    <3> QED BY <3>1, <3>2
  <2> QED BY <2>2, <2>4, <2>8 DEF SidecarIsBound, Bound
<1>3. ASSUME NEW r \in Requests, ApiStep(r) PROVE SidecarIsBound'
  <2>0. UNCHANGED <<review, reply>> /\ outcome[r] = "pending"
    BY <1>3, PersistCases DEF Waiting
  <2>1. \A q \in Requests \ {r} : outcome'[q] = outcome[q]
    BY <1>0, <1>3 DEF ApiStep, Accept, Refuse, CallFails, Persist, TypeOK
  <2>2. ASSUME NEW i, NEW p, Bound(i, p), i \in Requests PROVE Bound(i, p)'
    BY <2>0, <2>1, <2>2 DEF Bound, OwnPatch
  <2>3. ASSUME NEW patch, Persist(r, patch), pc[r] # "idle",
               \/ patch = NoPatch
               \/ review[r].op = "CREATE" /\ reply[r] = OwnPatch(r) /\ patch = OwnPatch(r)
        PROVE  SidecarIsBound'
    <3> DEFINE rv == review[r]
    <3>1. /\ rv.pod \in Pods /\ rv.old \in PodObjects /\ outcome'[r] = "persisted"
          /\ pods' = [pods EXCEPT ![rv.pod] = Patched(rv.new, patch)]
      BY <1>0, <2>3 DEF Persist, ReviewShape, TypeOK, Reviews
    <3>2. Patched(rv.new, patch).sidecar \in {None, r, rv.old.sidecar}
      BY <1>0, <2>3 DEF Patched, NoPatch, OwnPatch, ReviewShape, TypeOK, Reviews
    <3>3. Patched(rv.new, patch).sidecar = r => patch = OwnPatch(r) \/ rv.old.sidecar = r
      BY <1>0, <2>3, ConstantsAssumption DEF Patched, NoPatch, ReviewShape, TypeOK, Reviews
    <3>4. ASSUME rv.old.sidecar # None PROVE Bound(rv.old.sidecar, rv.pod)'
      <4>1. rv.old.sidecar \in Requests
        BY <3>1, <3>4 DEF PodObjects, Ids
      <4>2. Bound(rv.old.sidecar, rv.pod)
        BY <1>0, <3>4 DEF SidecarIsBound
      <4>3. Bound(rv.old.sidecar, rv.pod) => Bound(rv.old.sidecar, rv.pod)'
        BY <2>0, <2>1, <4>1 DEF Bound, OwnPatch
      <4> QED BY <4>2, <4>3
    <3>5. ASSUME patch = OwnPatch(r) PROVE Bound(r, rv.pod)'
      <4>1. patch # NoPatch
        BY <3>5, OwnPatchIsPatch
      <4> QED BY <2>0, <2>3, <3>1, <4>1 DEF Bound, OwnPatch
    <3>6. ASSUME NEW p \in Pods, pods'[p].sidecar # None PROVE Bound(pods[p].sidecar, p)'
      <4>1. CASE p = rv.pod
        <5>1. pods'[p] = Patched(rv.new, patch)
          BY <1>0, <3>1, <4>1 DEF TypeOK
        <5>2. CASE pods'[p].sidecar = rv.old.sidecar
          BY <2>0, <3>4, <3>6, <4>1, <5>2 DEF Bound
        <5>3. CASE pods'[p].sidecar = r /\ patch = OwnPatch(r)
          BY <2>0, <3>5, <4>1, <5>3 DEF Bound
        <5> QED BY <3>2, <3>3, <3>6, <5>1, <5>2, <5>3
      <4>2. CASE p # rv.pod
        <5>1. pods'[p] = pods[p] /\ pods[p].sidecar \in Requests
          BY <1>0, <3>1, <3>6, <4>2 DEF TypeOK, PodObjects, Ids
        <5>2. Bound(pods[p].sidecar, p)
          BY <1>0, <3>6, <5>1 DEF SidecarIsBound
        <5> QED BY <2>2, <5>1, <5>2 DEF Bound
      <4> QED BY <4>1, <4>2
    <3>7. ASSUME NEW q \in Requests, review'[q].old.sidecar # None
          PROVE  Bound(review[q].old.sidecar, review[q].pod)'
      <4>1. review[q].old.sidecar \in Requests /\ Bound(review[q].old.sidecar, review[q].pod)
        BY <1>0, <2>0, <3>7 DEF SidecarIsBound, TypeOK, Reviews, PodObjects, Ids
      <4> QED BY <2>0, <2>2, <4>1 DEF Bound
    <3> QED BY <3>6, <3>7 DEF SidecarIsBound
  <2> QED BY <1>1, <1>3, <2>0, <2>2, <2>3, PersistCases DEF Waiting
<1>4. ASSUME NEW r \in Requests, HandlerStep(r) PROVE SidecarIsBound'
  <2>1. UNCHANGED <<pods, review, outcome>>
    BY <1>4 DEF HandlerStep, Dispatch, CreateIdentity, GetToken, WritePatch,
                Annotate, MarshalPatch, Lookup, DeleteIdentity, PatchIdentity
  <2>2. UNCHANGED reply \/ (pc[r] = "marshal" /\ \E x : reply' = [reply EXCEPT ![r] = x])
    BY <1>4 DEF HandlerStep, Dispatch, CreateIdentity, GetToken, WritePatch,
                Annotate, MarshalPatch, Lookup, DeleteIdentity, PatchIdentity,
                Goto, Answer, Fails
  <2>3. ASSUME NEW i \in Requests, NEW p, Bound(i, p) PROVE Bound(i, p)'
    <3>1. pc[i] = "answered"
      BY <1>0, <2>3, OwnPatchIsPatch DEF Bound, PatchIsOwn
    <3>2. reply'[i] = reply[i]
      BY <1>0, <2>2, <3>1 DEF TypeOK
    <3> QED BY <2>1, <2>3, <3>2 DEF Bound, OwnPatch
  <2> QED BY <1>1, <2>1, <2>3
<1>5. ASSUME UNCHANGED <<pods, review, outcome, reply>> PROVE SidecarIsBound'
  BY <1>0, <1>5 DEF SidecarIsBound, Bound, OwnPatch
<1> QED BY <1>2, <1>3, <1>4, <1>5 DEF Next, vars, Crash, Relabel

\* A DELETE that looks an identity up looks up the one of the sidecar.
LEMMA DeleteNamesSidecar ==
  ASSUME Inductive, NEW r \in Requests, review[r].op = "DELETE", NamedBy(review[r]) \in live
  PROVE  NamedBy(review[r]) = review[r].old.sidecar /\ review[r].old.sidecar \in Requests
<1> DEFINE rv == review[r]
<1>1. rv.old \in PodObjects /\ live \subseteq Requests
  BY DEF Inductive, TypeOK, Reviews
<1>2. rv.old.sidecar = None => rv.old.annot = None
  BY DEF Inductive, ReviewShape
<1>3. NamedBy(rv) = IF rv.pod \in Shadowed THEN Unknown
                    ELSE IF rv.old.sidecar # None THEN rv.old.sidecar ELSE rv.old.annot
  BY DEF NamedBy, IdentityName
<1>4. rv.old.sidecar \in Ids /\ rv.old.annot \in Ids
  BY <1>1 DEF PodObjects
<1> HIDE DEF rv
<1>5. NamedBy(rv) # Unknown /\ NamedBy(rv) # None
  BY <1>1, ConstantsAssumption DEF rv
<1>6. NamedBy(rv) = rv.old.sidecar /\ rv.old.sidecar # None
  BY <1>2, <1>3, <1>5
<1> QED BY <1>4, <1>6 DEF Ids, rv

LEMMA FoundIsSidecarStep == Inductive /\ [Next]_vars => FoundIsSidecar'
<1> SUFFICES ASSUME Inductive, [Next]_vars PROVE FoundIsSidecar'
  OBVIOUS
<1> USE DEF apiserver, handler, edge
<1>0. TypeOK /\ ReviewShape /\ FoundIsSidecar
  BY DEF Inductive
<1>1. ASSUME UNCHANGED <<review, found>>,
             \A r \in Requests : pc'[r] \in {"deleteIdentity", "idle"} => pc'[r] = pc[r]
      PROVE  FoundIsSidecar'
  BY <1>0, <1>1 DEF FoundIsSidecar
<1>2. ASSUME NEW r \in Requests, ClientStep(r) PROVE FoundIsSidecar'
  <2>1. PICK rv : Asked(rv) /\ Submit(r, rv)
    BY <1>0, <1>2, ClientAsks
  <2>2. /\ review' = [review EXCEPT ![r] = rv] /\ pc' = [pc EXCEPT ![r] = "dispatch"]
        /\ found' = found /\ pc[r] = "idle"
    BY <2>1 DEF Submit
  <2>3. found[r] = None
    BY <1>0, <2>2 DEF FoundIsSidecar
  <2> QED BY <1>0, <2>2, <2>3 DEF FoundIsSidecar, TypeOK
<1>3. ASSUME NEW r \in Requests, ApiStep(r) PROVE FoundIsSidecar'
  BY <1>1, <1>3, PersistCases
<1>4. ASSUME NEW r \in Requests, Lookup(r) PROVE FoundIsSidecar'
  <2>1. UNCHANGED review
    BY <1>4 DEF Lookup
  <2>2. CASE (Fails(r) \/ Answer(r, "allow")) /\ UNCHANGED found
    BY <1>0, <1>1, <2>1, <2>2 DEF Fails, Answer, TypeOK
  <2>3. CASE /\ NamedBy(review[r]) \in live
             /\ found' = [found EXCEPT ![r] = NamedBy(review[r])]
             /\ Goto(r, IF review[r].op = "DELETE" THEN "deleteIdentity" ELSE "patchIdentity")
    <3>1. found'[r] # None /\ \A q \in Requests \ {r} : found'[q] = found[q] /\ pc'[q] = pc[q]
      BY <1>0, <2>3, ConstantsAssumption DEF TypeOK, Goto
    <3>2. review[r].op = "DELETE" => found'[r] = review[r].old.sidecar
      BY <1>0, <2>3, DeleteNamesSidecar DEF TypeOK
    <3>3. pc'[r] # "idle"
      BY <1>0, <2>3 DEF TypeOK, Goto
    <3> QED BY <1>0, <2>1, <3>1, <3>2, <3>3 DEF FoundIsSidecar
  <2> QED BY <1>4, <2>2, <2>3 DEF Lookup
<1>5. ASSUME NEW r \in Requests, HandlerStep(r), ~Lookup(r) PROVE FoundIsSidecar'
  <2>1. UNCHANGED <<review, found>>
    BY <1>5 DEF HandlerStep, Dispatch, CreateIdentity, GetToken, WritePatch,
                Annotate, MarshalPatch, DeleteIdentity, PatchIdentity
  <2>2. \E label : pc' = [pc EXCEPT ![r] = label] /\ label # "deleteIdentity" /\ label # "idle"
    BY <1>5 DEF HandlerStep, Dispatch, CreateIdentity, GetToken, WritePatch,
                Annotate, MarshalPatch, DeleteIdentity, PatchIdentity, Goto, Answer, Fails
  <2> QED BY <1>0, <1>1, <2>1, <2>2 DEF TypeOK, FoundIsSidecar
<1>6. ASSUME NEW s \in Servers, Crash(s) PROVE FoundIsSidecar'
  BY <1>0, <1>1, <1>6 DEF Crash, TypeOK
<1>7. ASSUME UNCHANGED <<review, found, pc>> PROVE FoundIsSidecar'
  BY <1>1, <1>7
<1> QED BY <1>2, <1>3, <1>4, <1>5, <1>6, <1>7 DEF Next, vars, Relabel

LEMMA IssuedIsLiveStep == Inductive /\ [Next]_vars => IssuedIsLive'
<1> SUFFICES ASSUME Inductive, [Next]_vars PROVE IssuedIsLive'
  OBVIOUS
<1> USE DEF apiserver, handler, edge
<1>0. /\ TypeOK /\ ReviewShape /\ PatchIsOwn /\ SidecarIsBound /\ FoundIsSidecar
      /\ IssuedIsLive
  BY DEF Inductive
<1> DEFINE Unborn == {"idle", "dispatch", "createIdentity"}
           Making == {"getToken", "writePatch", "annotate", "marshal"}
           Gone(i) == \E r \in Requests :
                        review[r].op = "DELETE" /\ review[r].pod = review[i].pod /\ found[r] = i
<1>1. ASSUME UNCHANGED <<review, found, live>>,
             \A i \in Requests :
                /\ pc'[i] \in Making \/ reply'[i] # NoPatch =>
                      pc[i] \in Making \/ reply[i] # NoPatch
                /\ pc'[i] \in Unborn => pc[i] \in Unborn
      PROVE  IssuedIsLive'
  <2>1. live \subseteq Requests /\ live' = live /\ review' = review /\ found' = found
    BY <1>0, <1>1 DEF TypeOK
  <2>2. ASSUME NEW i \in live' PROVE review'[i].op = "CREATE" /\ pc'[i] \notin Unborn
    <3>1. i \in live /\ i \in Requests
      BY <2>1
    <3>2. review[i].op = "CREATE" /\ pc[i] \notin Unborn
      BY <1>0, <3>1 DEF IssuedIsLive
    <3> QED BY <1>1, <2>1, <3>1, <3>2
  <2>3. ASSUME NEW i \in Requests, Issued(i)', i \notin live' PROVE Gone(i)'
    <3>1. Issued(i)
      BY <1>1, <2>3 DEF Issued, NoPatch
    <3>2. Gone(i)
      BY <1>0, <2>1, <2>3, <3>1 DEF IssuedIsLive
    <3> QED BY <2>1, <3>2
  <2> QED BY <2>2, <2>3 DEF IssuedIsLive
<1>2. ASSUME NEW r \in Requests, ClientStep(r) PROVE IssuedIsLive'
  <2>1. PICK rv : Asked(rv) /\ Submit(r, rv)
    BY <1>0, <1>2, ClientAsks
  <2>2. /\ review' = [review EXCEPT ![r] = rv] /\ pc' = [pc EXCEPT ![r] = "dispatch"]
        /\ UNCHANGED <<found, live, reply>> /\ pc[r] = "idle"
    BY <2>1 DEF Submit
  <2>3. review[r].op = "NONE" /\ r \notin live /\ reply[r] = NoPatch
    BY <1>0, <2>2 DEF ReviewShape, IssuedIsLive, PatchIsOwn
  <2>4. \A q \in Requests \ {r} : review'[q] = review[q] /\ pc'[q] = pc[q]
    BY <1>0, <2>2 DEF TypeOK
  <2>5. ~Issued(r)'
    BY <1>0, <2>2, <2>3 DEF Issued, TypeOK
  <2>6. ASSUME NEW i \in Requests, Issued(i)', i \notin live PROVE Gone(i)'
    <3>1. i # r /\ Issued(i)
      BY <2>2, <2>4, <2>5, <2>6 DEF Issued, NoPatch
    <3>2. PICK q \in Requests :
            review[q].op = "DELETE" /\ review[q].pod = review[i].pod /\ found[q] = i
      BY <1>0, <2>6, <3>1 DEF IssuedIsLive
    <3>3. q # r
      BY <2>3, <3>2
    <3> QED BY <2>2, <2>4, <3>1, <3>2, <3>3
  <2> QED BY <1>0, <2>2, <2>3, <2>4, <2>6 DEF IssuedIsLive
<1>3. ASSUME NEW r \in Requests, ApiStep(r) PROVE IssuedIsLive'
  BY <1>1, <1>3, PersistCases DEF Issued, NoPatch
<1>4. ASSUME NEW r \in Requests, HandlerStep(r) PROVE IssuedIsLive'
  <2> USE DEF Goto, Answer, Fails
  <2>1. ASSUME UNCHANGED <<review, found, live, reply>>,
               NEW label, pc' = [pc EXCEPT ![r] = label],
               label \in Unborn => pc[r] \in Unborn,
               label \in {"getToken", "writePatch", "annotate", "marshal"} =>
                  pc[r] \in {"getToken", "writePatch", "annotate", "marshal"}
        PROVE  IssuedIsLive'
    <3>1. \A q \in Requests \ {r} : pc'[q] = pc[q]
      BY <1>0, <2>1 DEF TypeOK
    <3>2. pc'[r] = label
      BY <1>0, <2>1 DEF TypeOK
    <3> QED BY <1>1, <2>1, <3>1, <3>2 DEF Issued, NoPatch
  <2>2. CASE Dispatch(r)
    BY <2>1, <2>2 DEF Dispatch
  <2>3. CASE CreateIdentity(r)
    <3>1. pc[r] = "createIdentity" /\ UNCHANGED <<review, found, reply>>
      BY <2>3 DEF CreateIdentity
    <3>2. CASE Fails(r) /\ UNCHANGED edge
      BY <2>1, <3>1, <3>2
    <3>3. CASE live' = live \union {r} /\ (Fails(r) \/ Goto(r, "getToken"))
      <4>1. /\ pc'[r] \in {"answered", "getToken"}
            /\ \A q \in Requests \ {r} : pc'[q] = pc[q]
        BY <1>0, <3>3 DEF TypeOK
      <4>2. review[r].op = "CREATE"
        BY <1>0, <3>1 DEF ReviewShape
      <4>3. ASSUME NEW i \in live' PROVE review'[i].op = "CREATE" /\ pc'[i] \notin Unborn
        BY <1>0, <3>1, <3>3, <4>1, <4>2, <4>3 DEF IssuedIsLive, TypeOK
      <4>4. ASSUME NEW i \in Requests, Issued(i)', i \notin live' PROVE Gone(i)'
        <5>1. i # r /\ i \notin live /\ Issued(i)
          BY <3>1, <3>3, <4>1, <4>4 DEF Issued, NoPatch
        <5>2. Gone(i)
          BY <1>0, <5>1 DEF IssuedIsLive
        <5> QED BY <3>1, <5>2
      <4> QED BY <4>3, <4>4 DEF IssuedIsLive
    <3> QED BY <2>3, <3>2, <3>3 DEF CreateIdentity
  <2>4. CASE GetToken(r)
    BY <2>1, <2>4 DEF GetToken
  <2>5. CASE WritePatch(r)
    BY <2>1, <2>5 DEF WritePatch
  <2>6. CASE Annotate(r)
    BY <2>1, <2>6 DEF Annotate
  <2>7. CASE MarshalPatch(r)
    <3>1. /\ pc[r] = "marshal" /\ pc' = [pc EXCEPT ![r] = "answered"]
          /\ UNCHANGED <<review, found, live>>
          /\ reply' = [reply EXCEPT ![r] = jsonPatch[ServerOf[r]]]
      BY <2>7 DEF MarshalPatch
    <3>2. \A q \in Requests \ {r} : pc'[q] = pc[q] /\ reply'[q] = reply[q]
      BY <1>0, <3>1 DEF TypeOK
    <3>3. Issued(r) /\ pc'[r] = "answered"
      BY <1>0, <3>1 DEF Issued, TypeOK
    <3> QED BY <1>1, <3>1, <3>2, <3>3 DEF Issued, NoPatch
  <2>8. CASE Lookup(r)
    <3>1. CASE UNCHANGED found
      BY <2>1, <2>8, <3>1 DEF Lookup
    <3>2. CASE /\ NamedBy(review[r]) \in live
               /\ found' = [found EXCEPT ![r] = NamedBy(review[r])]
               /\ Goto(r, IF review[r].op = "DELETE" THEN "deleteIdentity" ELSE "patchIdentity")
      <4>1. /\ UNCHANGED <<review, live, reply>>
            /\ pc[r] = "lookup" /\ pc'[r] \in {"deleteIdentity", "patchIdentity"}
            /\ \A q \in Requests \ {r} : pc'[q] = pc[q] /\ found'[q] = found[q]
        BY <1>0, <2>8, <3>2 DEF Lookup, TypeOK
      <4>2. review[r].op = "DELETE" /\ found[r] # None => found'[r] = found[r]
        BY <1>0, <3>2, DeleteNamesSidecar DEF FoundIsSidecar, TypeOK
      <4>3. ASSUME NEW i \in Requests, Gone(i) PROVE Gone(i)'
        BY <4>1, <4>2, <4>3, ConstantsAssumption
      <4>4. \A i \in Requests : Issued(i)' => Issued(i)
        BY <4>1 DEF Issued, NoPatch
      <4>5. \A i \in live : review'[i].op = "CREATE" /\ pc'[i] \notin Unborn
        BY <1>0, <4>1 DEF IssuedIsLive, TypeOK
      <4> HIDE DEF Gone
      <4>6. \A i \in Requests : Issued(i) /\ i \notin live => Gone(i)
        BY <1>0 DEF IssuedIsLive, Gone
      <4>7. \A i \in Requests : Issued(i)' /\ i \notin live' => Gone(i)'
        BY <4>1, <4>3, <4>4, <4>6
      <4> QED BY <4>1, <4>5, <4>7 DEF IssuedIsLive, Gone
    <3> QED BY <2>8, <3>1, <3>2 DEF Lookup
  <2>9. CASE DeleteIdentity(r)
    <3>1. /\ pc[r] = "deleteIdentity" /\ UNCHANGED <<review, found, reply>>
          /\ pc' = [pc EXCEPT ![r] = "answered"]
      BY <2>9 DEF DeleteIdentity
    <3>2. CASE UNCHANGED live
      BY <2>1, <3>1, <3>2
    <3>3. CASE live' = live \ {found[r]} /\ found[r] \in live
      <4>1. /\ pc'[r] = "answered"
            /\ \A q \in Requests \ {r} : pc'[q] = pc[q]
        BY <1>0, <3>1 DEF TypeOK
      <4>2. /\ review[r].op = "DELETE" /\ found[r] = review[r].old.sidecar
            /\ review[r].old.sidecar # None
        BY <1>0, <3>1, <3>3 DEF ReviewShape, FoundIsSidecar
      <4>3. review[found[r]].pod = review[r].pod
        BY <1>0, <4>2 DEF SidecarIsBound, Bound
      <4>4. \A i \in Requests : Issued(i)' => Issued(i)
        BY <3>1, <4>1 DEF Issued, NoPatch
      <4> QED BY <1>0, <3>1, <3>3, <4>1, <4>2, <4>3, <4>4 DEF IssuedIsLive, TypeOK
    <3> QED BY <2>9, <3>2, <3>3 DEF DeleteIdentity
  <2>10. CASE PatchIdentity(r)
    BY <2>1, <2>10 DEF PatchIdentity
  <2> QED BY <1>4, <2>2, <2>3, <2>4, <2>5, <2>6, <2>7, <2>8, <2>9, <2>10
        DEF HandlerStep
<1>5. ASSUME NEW s \in Servers, Crash(s) PROVE IssuedIsLive'
  BY <1>0, <1>1, <1>5 DEF Crash, Issued, NoPatch, TypeOK
<1>6. ASSUME UNCHANGED <<review, found, live, pc, reply>> PROVE IssuedIsLive'
  BY <1>1, <1>6 DEF Issued, NoPatch
<1> QED BY <1>2, <1>3, <1>4, <1>5, <1>6 DEF Next, vars, Relabel

THEOREM Invariance == SerialSpec => []Inductive
<1>1. Init => Inductive
  BY InductiveInit
<1>2. Inductive /\ [Next /\ Exclusive']_vars => Inductive'
  <2> SUFFICES ASSUME Inductive, [Next /\ Exclusive']_vars PROVE Inductive'
    OBVIOUS
  <2>1. [Next]_vars
    OBVIOUS
  <2>2. Exclusive'
    BY DEF Inductive, Exclusive, vars, handler
  <2> QED
    BY <2>1, <2>2, TypeStep, ReviewShapeStep, PodShapeStep, PatchIsOwnStep,
       SidecarIsBoundStep, FoundIsSidecarStep, IssuedIsLiveStep DEF Inductive
<1> QED BY <1>1, <1>2, PTL DEF SerialSpec

-----------------------------------------------------------------------------
(* What follows from it.                                                   *)

\* Without overlapping patch windows, every pod runs with the identity made for it,
\* whatever the failure policy, the other containers and the namespaces' labels.
THEOREM OwnIdentityHolds == SerialSpec => []OwnIdentity
<1>1. Inductive => OwnIdentity
  BY DEF Inductive, SidecarIsBound, Bound, OwnIdentity
<1> QED BY <1>1, Invariance, PTL

\* No pod loses its identity other than through a DELETE review of its own.
THEOREM KeptWhileRunningHolds == SerialSpec => []KeptWhileRunning
<1>1. ASSUME Inductive PROVE KeptWhileRunning
  <2> SUFFICES ASSUME NEW p \in Pods, pods[p].sidecar \notin live \union {None}
               PROVE  \E r \in Requests : /\ review[r].op = "DELETE" /\ review[r].pod = p
                                          /\ found[r] = pods[p].sidecar
    BY DEF KeptWhileRunning
  <2>1. pods[p].sidecar \in Requests /\ Bound(pods[p].sidecar, p)
    BY <1>1 DEF Inductive, TypeOK, SidecarIsBound, PodObjects, Ids
  <2>2. Issued(pods[p].sidecar)
    BY <2>1, OwnPatchIsPatch DEF Issued, Bound
  <2> QED BY <1>1, <2>1, <2>2 DEF Inductive, IssuedIsLive, Bound
<1> QED BY <1>1, Invariance, PTL

-----------------------------------------------------------------------------
(* With failurePolicy Fail, and no container but the sidecar with its      *)
(* prefix, an identity goes with its pod.                                  *)

Strict == FailurePolicy = "Fail" /\ Shadowed = {}

\* An identity that some pod or review carries was made by a CREATE whose handler
\* has answered: it is never made again.
LEMMA BoundIsAnswered ==
  ASSUME Inductive, NEW i \in Requests, NEW p, Bound(i, p)
  PROVE  pc[i] = "answered"
BY OwnPatchIsPatch DEF Inductive, PatchIsOwn, Bound

\* A DELETE without an identity to look up is of a pod without a sidecar.
LEMMA DeleteWithoutName ==
  ASSUME Inductive, Strict, NEW r \in Requests, review[r].op = "DELETE",
         NamedBy(review[r]) \notin live
  PROVE  review[r].old.sidecar \notin live
<1>1. NamedBy(review[r]) = IF review[r].old.sidecar # None THEN review[r].old.sidecar
                           ELSE review[r].old.annot
  BY DEF Strict, NamedBy, IdentityName
<1> QED BY <1>1, ConstantsAssumption DEF Inductive, TypeOK

LEMMA RetiredInit == Init => Retired
BY DEF Init, Retired, NoReview, NoPod

LEMMA RetiredStep == Strict /\ Inductive /\ Retired /\ [Next]_vars => Retired'
<1> SUFFICES ASSUME Strict, Inductive, Retired, [Next]_vars PROVE Retired'
  OBVIOUS
<1> USE DEF apiserver, handler, edge
<1>0. /\ TypeOK /\ ReviewShape /\ PatchIsOwn /\ SidecarIsBound /\ FoundIsSidecar
      /\ IssuedIsLive
  BY DEF Inductive
<1> DEFINE Meant(r) == /\ pc[r] = "answered"
                       /\ review[r].op = "DELETE" => review[r].old.sidecar \notin live
                       /\ review[r].op = "CREATE" /\ r \in live => reply[r] = OwnPatch(r)
<1>1. ASSUME NEW r \in Requests, ClientStep(r) PROVE Retired'
  <2>1. PICK rv : Asked(rv) /\ Submit(r, rv)
    BY <1>0, <1>1, ClientAsks
  <2>2. /\ UNCHANGED <<pods, outcome, answer, reply, live>> /\ pc[r] = "idle"
        /\ review' = [review EXCEPT ![r] = rv] /\ pc' = [pc EXCEPT ![r] = "dispatch"]
    BY <2>1 DEF Submit
  <2>3. answer[r] # "allow" /\ outcome[r] # "persisted" /\ r \notin live
    BY <1>0, <2>2 DEF Retired, IssuedIsLive
  <2>4. \A q \in Requests \ {r} : review'[q] = review[q] /\ pc'[q] = pc[q]
    BY <1>0, <2>2 DEF TypeOK
  <2> QED BY <1>0, <2>2, <2>3, <2>4 DEF Retired, OwnPatch, TypeOK
<1>2. ASSUME NEW r \in Requests, ApiStep(r) PROVE Retired'
  <2>1. UNCHANGED <<review, handler, live>> /\ Waiting(r)
    BY <1>2, PersistCases
  <2>2. \A q \in Requests \ {r} : outcome'[q] = outcome[q]
    BY <1>0, <1>2 DEF ApiStep, Accept, Refuse, CallFails, Persist, TypeOK
  <2>3. ASSUME UNCHANGED pods, outcome'[r] # "persisted" PROVE Retired'
    BY <1>0, <2>1, <2>2, <2>3 DEF Retired, OwnPatch, TypeOK
  <2>4. ASSUME Accept(r), Persist(r, reply[r]) PROVE Retired'
    <3> DEFINE rv == review[r]
    <3>1. /\ pc[r] = "answered" /\ answer[r] = "allow" /\ rv.op # "NONE" /\ rv.pod \in Pods
          /\ rv.op \in {"NONE", "CREATE", "UPDATE", "DELETE"}
          /\ rv.old = pods[rv.pod] /\ outcome'[r] = "persisted"
          /\ pods' = [pods EXCEPT ![rv.pod] = Patched(rv.new, reply[r])]
      BY <1>0, <2>4 DEF Accept, Persist, ReviewShape, TypeOK, Reviews
    <3>2. ASSUME NEW i \in live, outcome'[i] = "persisted"
          PROVE  pods'[review[i].pod].sidecar = i
      <4>1. i \in Requests /\ i # None /\ review[i].op = "CREATE" /\ review[i].pod \in Pods
        BY <1>0, ConstantsAssumption DEF IssuedIsLive, ReviewShape, TypeOK
      <4>2. CASE i = r
        <5>1. reply[r] = OwnPatch(r)
          BY <3>1, <4>1, <4>2 DEF Retired
        <5>2. Patched(rv.new, reply[r]).sidecar = r
          BY <4>1, <4>2, <5>1 DEF Patched, OwnPatch
        <5> QED BY <1>0, <3>1, <4>2, <5>2 DEF TypeOK
      <4>3. CASE i # r /\ review[i].pod # rv.pod
        BY <1>0, <2>2, <3>1, <3>2, <4>1, <4>3 DEF Retired, TypeOK
      <4>4. CASE i # r /\ review[i].pod = rv.pod
        <5>1. rv.old.sidecar = i
          BY <2>2, <3>1, <3>2, <4>1, <4>4 DEF Retired
        <5>2. rv.op = "UPDATE"
          BY <1>0, <3>1, <3>2, <4>1, <5>1 DEF Retired, ReviewShape
        <5>3. reply[r] = NoPatch /\ rv.new.sidecar = i
          BY <1>0, <5>1, <5>2 DEF PatchIsOwn, ReviewShape
        <5>4. Patched(rv.new, reply[r]).sidecar = i
          BY <5>3 DEF Patched, NoPatch
        <5> QED BY <1>0, <3>1, <4>4, <5>4 DEF TypeOK
      <4> QED BY <4>2, <4>3, <4>4
    <3>3. \A q \in Requests : outcome'[q] = "persisted" => pc'[q] = "answered"
      BY <2>1, <2>2, <3>1 DEF Retired
    <3>4. \A q \in Requests : answer'[q] = "allow" => Meant(q)'
      BY <2>1 DEF Retired, OwnPatch
    <3> QED BY <2>1, <3>2, <3>3, <3>4 DEF Retired
  <2>5. CASE Accept(r)
    BY <1>0, <2>3, <2>4, <2>5 DEF Accept, TypeOK
  <2>6. CASE Refuse(r)
    BY <1>0, <2>3, <2>6 DEF Refuse, TypeOK
  <2>7. CASE CallFails(r)
    BY <1>0, <2>3, <2>7 DEF CallFails, Strict, TypeOK
  <2> QED BY <1>2, <2>5, <2>6, <2>7 DEF ApiStep
<1>3. ASSUME NEW r \in Requests, HandlerStep(r) PROVE Retired'
  <2>1. UNCHANGED <<pods, review, outcome>> /\ pc[r] \in Serving
    BY <1>3 DEF HandlerStep, Dispatch, CreateIdentity, GetToken, WritePatch,
                Annotate, MarshalPatch, Lookup, DeleteIdentity, PatchIdentity, Serving
  <2>2. /\ answer[r] # "allow" /\ outcome[r] # "persisted"
        /\ \A i \in Requests, p \in Pods : Bound(i, p) => i # r
    BY <2>1, BoundIsAnswered DEF Retired, Serving
  <2> USE DEF Goto, Answer, Fails
  \* The cases below differ in what r answers, and in what they do to live.
  <2>3. ASSUME live' \subseteq live, \A q \in Requests \ {r} : reply'[q] = reply[q],
               NEW label, pc' = [pc EXCEPT ![r] = label],
               \A q \in Requests \ {r} : answer'[q] = answer[q],
               answer'[r] = "allow" => Meant(r)'
        PROVE  Retired'
    <3>1. \A q \in Requests \ {r} : pc'[q] = pc[q]
      BY <1>0, <2>3 DEF TypeOK
    <3>2. ASSUME NEW q \in Requests, answer'[q] = "allow" PROVE Meant(q)'
      BY <2>1, <2>3, <3>1, <3>2 DEF Retired, OwnPatch
    <3>3. \A q \in Requests : outcome'[q] = "persisted" => pc'[q] = "answered"
      BY <2>1, <2>2, <3>1 DEF Retired
    <3>4. \A i \in live' : outcome'[i] = "persisted" => pods'[review'[i].pod].sidecar = i
      BY <2>1, <2>3 DEF Retired
    <3> QED BY <3>2, <3>3, <3>4 DEF Retired
  <2>4. ASSUME live' \subseteq live, UNCHANGED reply,
               (\E label : Goto(r, label)) \/ Answer(r, "deny")
        PROVE  Retired'
    BY <1>0, <2>2, <2>3, <2>4 DEF TypeOK
  <2>5. CASE Dispatch(r)
    <3>1. ASSUME Answer(r, "allow") PROVE Meant(r)'
      <4>1. r \notin live /\ pc[r] = "dispatch" /\ live' = live /\ pc'[r] = "answered"
        BY <1>0, <2>5, <3>1 DEF Dispatch, IssuedIsLive, TypeOK
      <4>2. review[r].op = "DELETE" => NamedBy(review[r]) = None
        BY <1>0, <2>5, <3>1 DEF Dispatch, TypeOK
      <4>3. review[r].op = "DELETE" => review[r].old.sidecar \notin live
        BY <1>0, <4>2, DeleteWithoutName, ConstantsAssumption DEF TypeOK
      <4> QED BY <2>1, <4>1, <4>3
    <3> QED BY <1>0, <2>3, <2>4, <2>5, <3>1 DEF Dispatch, TypeOK
  <2>6. CASE CreateIdentity(r)
    <3>1. pc[r] = "createIdentity" /\ UNCHANGED reply
          /\ (Fails(r) \/ Goto(r, "getToken"))
          /\ (live' = live \/ live' = live \union {r})
      BY <2>6 DEF CreateIdentity
    <3>2. CASE live' = live
      BY <2>4, <3>1, <3>2
    <3>3. CASE live' = live \union {r}
      <4>1. /\ \A q \in Requests \ {r} : pc'[q] = pc[q] /\ answer'[q] = answer[q]
            /\ answer'[r] # "allow"
        BY <1>0, <2>2, <3>1 DEF TypeOK
      <4>2. ASSUME NEW q \in Requests, answer'[q] = "allow" PROVE Meant(q)'
        <5>1. q # r /\ answer[q] = "allow" /\ Meant(q)
          BY <4>1, <4>2 DEF Retired
        <5>2. review[q].op = "DELETE" => review[q].old.sidecar # r
          <6>1. ASSUME review[q].op = "DELETE", review[q].old.sidecar = r PROVE FALSE
            <7>1. Bound(r, review[q].pod)
              BY <1>0, <6>1, ConstantsAssumption DEF SidecarIsBound
            <7> QED BY <3>1, <7>1, BoundIsAnswered
          <6> QED BY <6>1
        <5> QED BY <2>1, <3>1, <3>3, <4>1, <5>1, <5>2 DEF OwnPatch
      <4>3. \A q \in Requests : outcome'[q] = "persisted" => pc'[q] = "answered"
        BY <2>1, <2>2, <4>1 DEF Retired
      <4>4. \A i \in live' : outcome'[i] = "persisted" => pods'[review'[i].pod].sidecar = i
        BY <2>1, <2>2, <3>3 DEF Retired
      <4> QED BY <4>2, <4>3, <4>4 DEF Retired
    <3> QED BY <3>1, <3>2, <3>3
  <2>7. CASE GetToken(r)
    BY <2>4, <2>7 DEF GetToken
  <2>8. CASE WritePatch(r)
    BY <2>4, <2>8 DEF WritePatch
  <2>9. CASE Annotate(r)
    BY <2>4, <2>9 DEF Annotate
  <2>10. CASE MarshalPatch(r)
    <3>1. /\ pc[r] = "marshal" /\ live' = live /\ pc' = [pc EXCEPT ![r] = "answered"]
          /\ answer' = [answer EXCEPT ![r] = "allow"]
          /\ reply' = [reply EXCEPT ![r] = jsonPatch[ServerOf[r]]]
      BY <2>10 DEF MarshalPatch
    <3>2. jsonPatch[ServerOf[r]] = OwnPatch(r) /\ review[r].op = "CREATE"
      BY <1>0, <3>1 DEF PatchIsOwn, ReviewShape
    <3>3. pc'[r] = "answered" /\ reply'[r] = OwnPatch(r)
      BY <1>0, <3>1, <3>2 DEF TypeOK
    <3>4. Meant(r)'
      BY <2>1, <3>2, <3>3 DEF OwnPatch
    <3>5. \A q \in Requests \ {r} : reply'[q] = reply[q] /\ answer'[q] = answer[q]
      BY <1>0, <3>1 DEF TypeOK
    <3> QED BY <2>3, <3>1, <3>4, <3>5
  <2>11. CASE Lookup(r)
    <3>1. ASSUME Answer(r, "allow") PROVE Meant(r)'
      <4>1. /\ pc[r] = "lookup" /\ NamedBy(review[r]) \notin live /\ live' = live
            /\ pc'[r] = "answered"
        BY <1>0, <2>11, <3>1 DEF Lookup, TypeOK
      <4>2. review[r].op # "CREATE"
        BY <1>0, <4>1 DEF ReviewShape
      <4> QED BY <2>1, <4>1, <4>2, DeleteWithoutName
    <3> QED BY <1>0, <2>3, <2>4, <2>11, <3>1 DEF Lookup, TypeOK
  <2>12. CASE DeleteIdentity(r)
    <3>1. /\ pc[r] = "deleteIdentity" /\ live' \subseteq live /\ UNCHANGED reply
          /\ review[r].op = "DELETE"
      BY <1>0, <2>12 DEF DeleteIdentity, ReviewShape
    <3>2. ASSUME Answer(r, "allow") PROVE Meant(r)'
      <4>1. live' = live \ {found[r]} /\ pc'[r] = "answered"
        BY <1>0, <2>12, <3>2 DEF DeleteIdentity, TypeOK
      <4>2. found[r] = review[r].old.sidecar
        BY <1>0, <3>1 DEF FoundIsSidecar
      <4> QED BY <2>1, <3>1, <4>1, <4>2
    <3> QED BY <1>0, <2>3, <2>4, <2>12, <3>1, <3>2 DEF DeleteIdentity, TypeOK
  <2>13. CASE PatchIdentity(r)
    <3>1. ASSUME Answer(r, "allow") PROVE Meant(r)'
      BY <1>0, <2>1, <2>13, <3>1 DEF PatchIdentity, TypeOK, ReviewShape
    <3> QED BY <1>0, <2>3, <2>4, <2>13, <3>1 DEF PatchIdentity, TypeOK
  <2> QED BY <1>3, <2>5, <2>6, <2>7, <2>8, <2>9, <2>10, <2>11, <2>12, <2>13
        DEF HandlerStep
<1>4. ASSUME NEW s \in Servers, Crash(s) PROVE Retired'
  BY <1>0, <1>4 DEF Crash, Retired, Serving, OwnPatch, TypeOK
<1>5. ASSUME UNCHANGED <<pods, review, outcome, pc, answer, reply, live>> PROVE Retired'
  BY <1>0, <1>5 DEF Retired, OwnPatch, TypeOK
<1> QED BY <1>1, <1>2, <1>3, <1>4, <1>5 DEF Next, vars, Relabel

LEMMA StrictInvariance == Strict => (SerialSpec => [](Inductive /\ Retired))
<1> SUFFICES ASSUME Strict PROVE SerialSpec => [](Inductive /\ Retired)
  OBVIOUS
<1>1. Strict /\ Inductive /\ Retired /\ [Next /\ Exclusive']_vars => Retired'
  <2>1. [Next /\ Exclusive']_vars => [Next]_vars
    OBVIOUS
  <2> QED BY <2>1, RetiredStep
<1> QED BY <1>1, RetiredInit, Invariance, PTL DEF SerialSpec

\* With failurePolicy Fail, the identity of every pod that was admitted with one is
\* off the edge controller by the time the pod is gone.
THEOREM RetiredWithPodHolds == Strict => (SerialSpec => []RetiredWithPod)
<1>1. ASSUME Inductive, Retired PROVE RetiredWithPod
  <2> SUFFICES ASSUME NEW i \in live, outcome[i] = "persisted"
               PROVE  \E p \in Pods : Present(p) /\ pods[p].sidecar = i
    BY DEF RetiredWithPod
  <2>1. i # None /\ review[i].pod \in Pods /\ pods[review[i].pod].sidecar = i
    BY <1>1, ConstantsAssumption
       DEF Inductive, Retired, TypeOK, IssuedIsLive, ReviewShape
  <2> QED BY <1>1, <2>1 DEF Inductive, PodShape, Present
<1> QED BY <1>1, StrictInvariance, PTL

-----------------------------------------------------------------------------
(* The refinement: under the same conditions every step is a step of       *)
(* IdentityLifecycle or leaves its variables alone.                        *)

Early == {"idle", "dispatch", "createIdentity"}

Abstract == <<[i \in Requests |-> Stage(i)], [p \in Pods |-> pods[p].sidecar]>>

\* What changes of the stages and the holders amount to.
LEMMA StagesKept ==
  ASSUME \A i \in Requests : Stage(i)' = Stage(i), \A p \in Pods : pods'[p].sidecar = pods[p].sidecar
  PROVE  UNCHANGED Abstract
<1>1. [i \in Requests |-> Stage(i)]' = [i \in Requests |-> Stage(i)]
  OBVIOUS
<1>2. [p \in Pods |-> pods[p].sidecar]' = [p \in Pods |-> pods[p].sidecar]
  OBVIOUS
<1> QED BY <1>1, <1>2 DEF Abstract

LEMMA Voided ==
  ASSUME NEW S \in SUBSET Requests, UNCHANGED pods,
         \A i \in S : Stage(i) = "fresh" /\ Stage(i)' = "spent",
         \A i \in Requests \ S : Stage(i)' = Stage(i)
  PROVE  Lifecycle!Next
<1>1. Lifecycle!Void(S)
  BY DEF Lifecycle!Void
<1> QED BY <1>1 DEF Lifecycle!Next

LEMMA Issuance ==
  ASSUME NEW r \in Requests, UNCHANGED pods, Stage(r) = "fresh", Stage(r)' = "live",
         \A i \in Requests \ {r} : Stage(i)' = Stage(i)
  PROVE  Lifecycle!Next
<1>1. Lifecycle!Issue(r)
  BY DEF Lifecycle!Issue
<1> QED BY <1>1 DEF Lifecycle!Next

LEMMA Retirement ==
  ASSUME NEW r \in Requests, UNCHANGED pods, Stage(r) = "live", Stage(r)' = "spent",
         NEW p \in Pods, pods[p].sidecar = r,
         \A i \in Requests \ {r} : Stage(i)' = Stage(i)
  PROVE  Lifecycle!Next
<1>1. Lifecycle!Retire(r)
  BY DEF Lifecycle!Retire
<1> QED BY <1>1 DEF Lifecycle!Next

LEMMA Binding ==
  ASSUME \A i \in Requests : Stage(i)' = Stage(i),
         NEW r \in Requests, Stage(r) = "live",
         NEW p \in Pods, pods[p].sidecar = None, pods'[p].sidecar = r,
         \A q \in Pods : pods[q].sidecar # r,
         \A q \in Pods \ {p} : pods'[q] = pods[q]
  PROVE  Lifecycle!Next
<1>1. [q \in Pods |-> pods[q].sidecar]' = [[q \in Pods |-> pods[q].sidecar] EXCEPT ![p] = r]
  <2> DEFINE holder == [q \in Pods |-> pods[q].sidecar]
             next   == [q \in Pods |-> pods'[q].sidecar]
  <2>1. \A q \in Pods : next[q] = IF q = p THEN r ELSE holder[q]
    OBVIOUS
  <2>2. next = [holder EXCEPT ![p] = r]
    BY <2>1
  <2> QED BY <2>2
<1>2. [i \in Requests |-> Stage(i)]' = [i \in Requests |-> Stage(i)]
  OBVIOUS
<1>3. Lifecycle!Bind(r, p)
  BY <1>1, <1>2 DEF Lifecycle!Bind
<1> QED BY <1>3 DEF Lifecycle!Next

LEMMA Releasing ==
  ASSUME \A i \in Requests : Stage(i)' = Stage(i),
         NEW p \in Pods, pods[p].sidecar \in Requests, Stage(pods[p].sidecar) = "spent",
         pods[p].sidecar # None, pods'[p].sidecar = None,
         \A q \in Pods \ {p} : pods'[q] = pods[q]
  PROVE  Lifecycle!Next
<1>1. [q \in Pods |-> pods[q].sidecar]' = [[q \in Pods |-> pods[q].sidecar] EXCEPT ![p] = None]
  <2> DEFINE holder == [q \in Pods |-> pods[q].sidecar]
             next   == [q \in Pods |-> pods'[q].sidecar]
  <2>1. \A q \in Pods : next[q] = IF q = p THEN None ELSE holder[q]
    OBVIOUS
  <2>2. next = [holder EXCEPT ![p] = None]
    BY <2>1
  <2> QED BY <2>2
<1>2. [i \in Requests |-> Stage(i)]' = [i \in Requests |-> Stage(i)]
  OBVIOUS
<1>3. Lifecycle!Release(p)
  BY <1>1, <1>2 DEF Lifecycle!Release
<1> QED BY <1>3 DEF Lifecycle!Next

\* An identity that its handler has not made yet, or has failed to make.
LEMMA EarlyIsFresh ==
  ASSUME Inductive, NEW i \in Requests
  PROVE  /\ Stage(i) \in {"fresh", "live", "spent"}
         /\ pc[i] \in Early => i \notin live /\ Stage(i) = "fresh"
         /\ pc[i] \notin Early /\ i \notin live => Stage(i) = "spent"
BY DEF Inductive, IssuedIsLive, Stage, Early

\* A goroutine that goes on to its next call, answers or dies.
LEMMA HandlerMoves ==
  ASSUME Inductive, NEW r \in Requests, NEW label, label \in Early => pc[r] \in Early,
         pc' = [pc EXCEPT ![r] = label], UNCHANGED <<pods, live>>
  PROVE  Lifecycle!Next \/ UNCHANGED Abstract
<1>0. TypeOK
  BY DEF Inductive
<1>1. \A i \in Requests \ {r} : Stage(i)' = Stage(i)
  BY <1>0 DEF TypeOK, Stage
<1>2. pc'[r] = label
  BY <1>0 DEF TypeOK
<1>3. CASE pc[r] \in Early /\ label \notin Early
  <2>1. Stage(r) = "fresh" /\ r \notin live
    BY <1>3, EarlyIsFresh
  <2>2. Stage(r)' = "spent"
    BY <1>2, <1>3, <2>1 DEF Stage, Early
  <2> QED BY <1>1, <2>1, <2>2, Voided
<1>4. CASE (pc[r] \in Early) = (label \in Early)
  <2>1. Stage(r)' = Stage(r)
    BY <1>2, <1>4 DEF Stage, Early
  <2> QED BY <1>1, <2>1, StagesKept
<1> QED BY <1>3, <1>4

LEMMA HandlerRefines ==
  ASSUME Strict, Inductive, Retired, NEW r \in Requests, HandlerStep(r)
  PROVE  Lifecycle!Next \/ UNCHANGED Abstract
<1> USE DEF apiserver, handler, edge, Goto, Answer, Fails
<1>0. TypeOK /\ ReviewShape /\ SidecarIsBound /\ FoundIsSidecar /\ IssuedIsLive
  BY DEF Inductive
<1>1. CASE Dispatch(r)
  BY <1>1, HandlerMoves DEF Dispatch, Early
<1>2. CASE CreateIdentity(r)
  <2>1. /\ pc[r] = "createIdentity" /\ UNCHANGED pods
        /\ live' = live \/ live' = live \union {r}
    BY <1>2 DEF CreateIdentity
  <2>2. PICK label \in {"answered", "getToken"} : pc' = [pc EXCEPT ![r] = label]
    BY <1>2 DEF CreateIdentity
  <2>3. CASE live' = live
    BY <2>1, <2>2, <2>3, HandlerMoves DEF Early
  <2>4. CASE live' = live \union {r}
    <3>1. Stage(r) = "fresh" /\ Stage(r)' = "live"
      BY <2>1, <2>4, EarlyIsFresh DEF Stage, Early
    <3>2. \A i \in Requests \ {r} : Stage(i)' = Stage(i)
      BY <1>0, <2>2, <2>4 DEF Stage, TypeOK
    <3> QED BY <2>1, <3>1, <3>2, Issuance
  <2> QED BY <2>1, <2>3, <2>4
<1>3. CASE GetToken(r)
  BY <1>3, HandlerMoves DEF GetToken, Early
<1>4. CASE WritePatch(r)
  BY <1>4, HandlerMoves DEF WritePatch, Early
<1>5. CASE Annotate(r)
  BY <1>5, HandlerMoves DEF Annotate, Early
<1>6. CASE MarshalPatch(r)
  BY <1>6, HandlerMoves DEF MarshalPatch, Early
<1>7. CASE Lookup(r)
  <2>1. PICK label \in {"answered", "deleteIdentity", "patchIdentity"} :
          pc' = [pc EXCEPT ![r] = label]
    BY <1>7 DEF Lookup
  <2>2. UNCHANGED <<pods, live>>
    BY <1>7 DEF Lookup
  <2> QED BY <2>1, <2>2, HandlerMoves DEF Early
<1>8. CASE DeleteIdentity(r)
  <2>1. /\ pc[r] = "deleteIdentity" /\ review[r].op = "DELETE" /\ UNCHANGED pods
        /\ pc' = [pc EXCEPT ![r] = "answered"]
        /\ live' = live \/ (found[r] \in live /\ live' = live \ {found[r]})
    BY <1>0, <1>8 DEF DeleteIdentity, ReviewShape
  <2>2. CASE live' = live
    BY <2>1, <2>2, HandlerMoves DEF Early
  <2>3. CASE found[r] \in live /\ live' = live \ {found[r]}
    <3>1. PICK i \in Requests : i = found[r] /\ i # None
      BY <1>0, <2>3, ConstantsAssumption DEF TypeOK
    <3>2. PICK p \in Pods : p = review[r].pod
      BY <1>0, <2>1 DEF ReviewShape
    <3>3. review[i].pod = p /\ outcome[i] = "persisted" /\ pc[i] = "answered"
      <4>1. i = review[r].old.sidecar
        BY <1>0, <2>1, <3>1 DEF FoundIsSidecar
      <4>2. Bound(i, p)
        BY <1>0, <3>1, <3>2, <4>1 DEF SidecarIsBound
      <4> QED BY <3>1, <4>2, BoundIsAnswered DEF Bound
    <3>4. pods[p].sidecar = i
      BY <2>3, <3>1, <3>3 DEF Retired
    <3>5. i # r /\ pc'[i] = "answered"
      BY <1>0, <2>1, <3>1, <3>3 DEF TypeOK
    <3>6. Stage(i) = "live" /\ Stage(i)' = "spent"
      BY <2>3, <3>1, <3>5 DEF Stage
    <3>7. \A j \in Requests \ {i} : Stage(j)' = Stage(j)
      BY <1>0, <2>1, <2>3, <3>1 DEF Stage, TypeOK
    <3> QED BY <2>1, <3>4, <3>6, <3>7, Retirement
  <2> QED BY <2>1, <2>2, <2>3
<1>9. CASE PatchIdentity(r)
  BY <1>9, HandlerMoves DEF PatchIdentity, Early
<1> QED BY <1>1, <1>2, <1>3, <1>4, <1>5, <1>6, <1>7, <1>8, <1>9 DEF HandlerStep

\* An answer that binds an identity to its pod, or lets a pod go whose identity is gone.
LEMMA ApiRefines ==
  ASSUME Strict, Inductive, Retired, NEW r \in Requests, ApiStep(r)
  PROVE  Lifecycle!Next \/ UNCHANGED Abstract
<1> USE DEF apiserver, handler, edge
<1>0. TypeOK /\ ReviewShape /\ PatchIsOwn /\ SidecarIsBound /\ IssuedIsLive
  BY DEF Inductive
<1>1. UNCHANGED <<review, pc, live, reply>> /\ Waiting(r)
  BY PersistCases
<1>2. \A i \in Requests : Stage(i)' = Stage(i)
  BY <1>1 DEF Stage
<1>3. CASE UNCHANGED pods
  BY <1>2, <1>3, StagesKept
<1>4. CASE Accept(r) /\ Persist(r, reply[r])
  <2> DEFINE rv == review[r]
             p  == rv.pod
             new == Patched(rv.new, reply[r])
  <2>1. /\ p \in Pods /\ pods[p] = rv.old /\ answer[r] = "allow"
        /\ rv.op \in {"CREATE", "UPDATE", "DELETE"}
        /\ pods' = [pods EXCEPT ![p] = new] /\ outcome[r] # "persisted"
    BY <1>0, <1>1, <1>4 DEF Accept, Persist, Waiting, ReviewShape, TypeOK, Reviews
  <2>2. pods'[p] = new /\ \A q \in Pods \ {p} : pods'[q] = pods[q]
    BY <1>0, <2>1 DEF TypeOK
  <2>3. ASSUME new.sidecar = rv.old.sidecar PROVE UNCHANGED Abstract
    BY <1>2, <2>1, <2>2, <2>3, StagesKept
  <2>4. reply[r] = NoPatch => new.sidecar = rv.new.sidecar
    BY DEF Patched, NoPatch
  <2>5. CASE rv.op = "CREATE"
    <3>1. CASE reply[r] = NoPatch
      BY <1>0, <2>3, <2>4, <2>5, <3>1 DEF ReviewShape
    <3>2. CASE reply[r] = OwnPatch(r)
      <4>1. pods[p].sidecar = None /\ new.sidecar = r
        BY <1>0, <2>1, <2>5, <3>2, ConstantsAssumption DEF ReviewShape, Patched, OwnPatch
      <4>2. \A q \in Pods : pods[q].sidecar # r
        BY <1>0, <2>1, ConstantsAssumption DEF SidecarIsBound, Bound
      <4>3. r \in live
        <5>1. ASSUME r \notin live PROVE FALSE
          <6>1. PICK d \in Requests : review[d].op = "DELETE" /\ found[d] = r
            BY <1>0, <3>2, <5>1, OwnPatchIsPatch DEF IssuedIsLive, Issued
          <6>2. review[d].old.sidecar = r /\ r # None
            BY <6>1, ConstantsAssumption DEF Inductive, FoundIsSidecar
          <6> QED BY <1>0, <2>1, <6>2 DEF SidecarIsBound, Bound
        <5> QED BY <5>1
      <4>4. Stage(r) = "live"
        BY <4>3 DEF Stage
      <4> QED BY <1>2, <2>1, <2>2, <4>1, <4>2, <4>4, Binding
    <3> QED BY <1>0, <3>1, <3>2 DEF PatchIsOwn
  <2>6. CASE rv.op = "UPDATE"
    BY <1>0, <2>3, <2>4, <2>6 DEF PatchIsOwn, ReviewShape
  <2>7. CASE rv.op = "DELETE"
    <3>1. new.sidecar \in {rv.old.sidecar, None}
      BY <1>0, <2>4, <2>7 DEF PatchIsOwn, ReviewShape
    <3>2. CASE new.sidecar = rv.old.sidecar
      BY <2>3, <3>2
    <3>3. CASE new.sidecar = None /\ rv.old.sidecar # None
      <4> DEFINE i == pods[p].sidecar
      <4>1. i \in Requests /\ i # None /\ i \notin live
        BY <1>0, <2>1, <2>7, <3>3 DEF Retired, TypeOK, PodObjects, Ids
      <4>2. pc[i] = "answered"
        BY <1>0, <2>1, <4>1, BoundIsAnswered DEF SidecarIsBound
      <4>3. Stage(i) = "spent"
        BY <4>1, <4>2, EarlyIsFresh DEF Early
      <4> QED BY <1>2, <2>1, <2>2, <3>3, <4>1, <4>3, Releasing
    <3> QED BY <3>1, <3>2, <3>3
  <2> QED BY <2>1, <2>5, <2>6, <2>7
<1>5. CASE Accept(r)
  BY <1>3, <1>4, <1>5 DEF Accept
<1>6. CASE Refuse(r)
  BY <1>3, <1>6 DEF Refuse
<1>7. CASE CallFails(r)
  BY <1>3, <1>7 DEF CallFails, Strict
<1> QED BY <1>5, <1>6, <1>7 DEF ApiStep

LEMMA LifecycleStep ==
  Strict /\ Inductive /\ Retired /\ [Next]_vars => Lifecycle!Next \/ UNCHANGED Abstract
<1> SUFFICES ASSUME Strict, Inductive, Retired, [Next]_vars
             PROVE  Lifecycle!Next \/ UNCHANGED Abstract
  OBVIOUS
<1> USE DEF apiserver, handler, edge
<1>0. TypeOK
  BY DEF Inductive
<1>1. CASE UNCHANGED vars
  <2>1. UNCHANGED <<pods, pc, live>>
    BY <1>1 DEF vars
  <2> QED BY <2>1, StagesKept DEF Stage
<1>2. ASSUME NEW r \in Requests, ClientStep(r) PROVE Lifecycle!Next \/ UNCHANGED Abstract
  <2>1. PICK rv : Submit(r, rv)
    BY <1>0, <1>2, ClientAsks
  <2>2. pc[r] \in Early /\ pc' = [pc EXCEPT ![r] = "dispatch"] /\ UNCHANGED <<pods, live>>
    BY <2>1 DEF Submit, Early
  <2> QED BY <2>2, HandlerMoves
<1>3. ASSUME NEW r \in Requests, ApiStep(r) PROVE Lifecycle!Next \/ UNCHANGED Abstract
  BY <1>3, ApiRefines
<1>4. ASSUME NEW r \in Requests, HandlerStep(r) PROVE Lifecycle!Next \/ UNCHANGED Abstract
  BY <1>4, HandlerRefines
<1>5. ASSUME NEW s \in Servers, Crash(s) PROVE Lifecycle!Next \/ UNCHANGED Abstract
  <2> DEFINE hit  == {r \in Requests : ServerOf[r] = s /\ pc[r] \in Serving}
             lost == {r \in hit : pc[r] \in Early}
  <2>1. /\ pc' = [r \in Requests |-> IF r \in hit THEN "dead" ELSE pc[r]]
        /\ UNCHANGED <<pods, live>>
    BY <1>5 DEF Crash
  <2>2. ASSUME NEW i \in lost PROVE Stage(i) = "fresh" /\ Stage(i)' = "spent"
    <3>1. i \in Requests /\ Stage(i) = "fresh" /\ i \notin live' /\ pc'[i] = "dead"
      BY <2>1, EarlyIsFresh
    <3> QED BY <3>1 DEF Stage
  <2>3. ASSUME NEW i \in Requests \ lost PROVE Stage(i)' = Stage(i)
    <3>1. pc'[i] = pc[i] \/ (pc[i] \notin Early /\ pc'[i] = "dead")
      BY <2>1
    <3> QED BY <2>1, <3>1 DEF Stage, Early
  <2> QED BY <2>1, <2>2, <2>3, Voided
<1>6. ASSUME NEW p \in Relabelled, Relabel(p) PROVE Lifecycle!Next \/ UNCHANGED Abstract
  <2>1. UNCHANGED <<pods, pc, live>>
    BY <1>6 DEF Relabel
  <2> QED BY <2>1, StagesKept DEF Stage
<1> QED BY <1>1, <1>2, <1>3, <1>4, <1>5, <1>6 DEF Next

\* With failurePolicy Fail and no overlapping patch windows the webhook, the API server
\* and the edge controller together implement IdentityLifecycle: an identity is issued
\* once, bound to one pod at most, retired only as that of a pod, and released by the
\* pod only afterwards.
THEOREM ImplementsLifecycleHolds == Strict => (SerialSpec => ImplementsLifecycle)
<1> SUFFICES ASSUME Strict PROVE SerialSpec => Lifecycle!Spec
  BY DEF ImplementsLifecycle
<1>1. Init => Lifecycle!Init
  BY DEF Init, Lifecycle!Init, Stage, NoPod
<1>2. Strict /\ Inductive /\ Retired /\ [Next /\ Exclusive']_vars
        => [Lifecycle!Next]_<<[i \in Requests |-> Stage(i)], [p \in Pods |-> pods[p].sidecar]>>
  <2>1. [Next /\ Exclusive']_vars => [Next]_vars
    OBVIOUS
  <2> QED BY <2>1, LifecycleStep DEF Abstract
<1> QED BY <1>1, <1>2, StrictInvariance, PTL DEF SerialSpec, Lifecycle!Spec

=============================================================================
