------------------------- MODULE AgentBootstrap_proofs -------------------------
(***************************************************************************)
(* That the configuration which makes the API server ask the agent goes    *)
(* before anything the agent needs, unless the ZitiWebhook is deleted in   *)
(* the foreground, and what reviews wait for, for any deployer, any number *)
(* of agents and pods, of certificates and of interruptions.               *)
(***************************************************************************)
EXTENDS AgentBootstrap, TLAPS

Configuration == "MutatingWebhookConfiguration"

\* Of a ZitiWebhook that is deleted in the background the finalizer is done with the
\* configuration once it is past its last deletion, no pass is under way then, and none
\* begins any more: the strengthening of AskedLast.
Finalized ==
    /\ next \in Nat \ {0}
    /\ next > 1 => deployed = "deleting" /\ turn = 0
    /\ deployed = "finalized" => foreground # "no"
    /\ foreground = "no" /\ deployed = "deleting" /\ next > 4 => Configuration \notin objects
    /\ foreground = "no" /\ deployed = "gone" => turn = 0 /\ Configuration \notin objects

Removals == {"Service", "Deployment", "ServiceAccount", "Issuer", "Certificate"}

\* A step of a deletion in the background, or before one, takes away nothing of Removals
\* while the configuration is there.
LastStep ==
    foreground = "no" =>
        \A k \in Removals : k \in objects \ objects' => Configuration \notin objects

LEMMA InitFinalized == Init => Finalized
  BY DEF Init, Finalized

\* What finalizeZitiWebhook deletes, by its position.
LEMMA FinalizeOrderFacts ==
    /\ Len(FinalizeOrder) = 4
    /\ FinalizeOrder[1] = "ClusterRole" /\ FinalizeOrder[2] = "ClusterRoleBinding"
    /\ FinalizeOrder[3] = "Secret" /\ FinalizeOrder[4] = Configuration
  BY DEF FinalizeOrder, Configuration

\* Every step keeps Finalized, and is one that AskedLast allows.
LEMMA NextFinalized == Finalized /\ [Next]_vars => Finalized' /\ (LastStep \/ UNCHANGED vars)
  <1> SUFFICES ASSUME Finalized, [Next]_vars
               PROVE  Finalized' /\ (LastStep \/ UNCHANGED vars)
    OBVIOUS
  <1> USE DEF Finalized, LastStep
  <1>1. CASE Deploy
    BY <1>1 DEF Deploy
  <1>2. CASE Begin \/ Apply
    BY <1>2 DEF Begin, Apply
  <1>3. CASE Delete
    BY <1>3 DEF Delete
  <1>4. CASE Finalize
    <2>1. /\ deployed = "deleting" /\ deployed' = "deleting" /\ next \in 1..4
          /\ foreground' = foreground /\ turn = 0 /\ turn' = 0
          /\ next' = next + 1 /\ objects' = objects \ {FinalizeOrder[next]}
      BY <1>4, FinalizeOrderFacts DEF Finalize
    <2>2. FinalizeOrder[next] \notin Removals
      BY <2>1, FinalizeOrderFacts DEF Removals, Configuration
    <2>3. next' > 4 => Configuration \notin objects'
      BY <2>1, FinalizeOrderFacts
    <2> QED BY <2>1, <2>2, <2>3
  <1>5. CASE RemoveFinalizer
    BY <1>5, FinalizeOrderFacts DEF RemoveFinalizer
  <1>6. CASE Interrupt
    BY <1>6 DEF Interrupt
  <1>7. CASE \E k \in Kinds : Collect(k)
    <2>1. PICK k \in Kinds : Collect(k)
      BY <1>7
    <2> QED BY <2>1 DEF Collect
  <1>8. CASE Issue \/ Renew \/ InjectBundle
    BY <1>8 DEF Issue, Renew, Issued, InjectBundle, manifests
  <1>9. CASE \E p \in Pods : Want(p) \/ Leave(p) \/ Admit(p)
    BY <1>9 DEF Want, Leave, Admit, manifests
  <1>10. CASE \E a \in Agents : CreatePod(a) \/ Start(a) \/ Die(a) \/ CollectPod(a)
    BY <1>10 DEF CreatePod, Start, Die, CollectPod, manifests
  <1>11. CASE UNCHANGED vars
    BY <1>11 DEF vars, manifests
  <1>12. CASE CollectDone
    BY <1>12 DEF CollectDone
  <1> QED
    BY <1>1, <1>2, <1>3, <1>4, <1>5, <1>6, <1>7, <1>8, <1>9, <1>10, <1>11, <1>12 DEF Next

\* How many objects each deployer brings.
LEMMA OrderFacts ==
    ASSUME TypeOK
    PROVE  Len(Order) \in {8, 9} /\ \A i \in 1..Len(Order) : Order[i] \in Kinds
<1>1. Len(HelmOrder) = 9 /\ Len(OperatorOrder) = 8
  BY DEF HelmOrder, OperatorOrder
<1> QED BY <1>1 DEF Order, Kinds

\* Every step keeps the types, the certificates among them: none is served or trusted
\* that was not issued, and exactly the processes that serve have read one.
LEMMA NextTypeOK == TypeOK /\ [Next]_vars => TypeOK'
  <1> SUFFICES ASSUME TypeOK, [Next]_vars
               PROVE  TypeOK'
    OBVIOUS
  <1> USE ConstantsAssumption DEF TypeOK
  <1>0. Len(Order) \in {8, 9} /\ \A i \in 1..Len(Order) : Order[i] \in Kinds
    BY OrderFacts
  <1>15. deployer' = deployer => Order' = Order
    BY DEF Order
  <1>1. CASE Deploy \/ Begin
    <2>1. turn' \in {0, 1} /\ deployer' = deployer
      BY <1>1 DEF Deploy, Begin
    <2>2. \A n \in {8, 9} : {0, 1} \subseteq 0..n
      OBVIOUS
    <2>3. turn' \in 0..Len(Order')
      BY <1>0, <1>15, <2>1, <2>2
    <2> QED BY <1>1, <2>3 DEF Deploy, Begin, keys
  <1>2. CASE Apply
    <2>1. turn \in 1..Len(Order) /\ Order[turn] \in Kinds
      BY <1>0, <1>2 DEF Apply
    <2>2. turn' \in 0..Len(Order)
      BY <1>0, <1>2, <2>1 DEF Apply
    <2> QED BY <1>15, <1>2, <2>1, <2>2 DEF Apply, keys
  <1>3. CASE Delete
    BY <1>15, <1>3 DEF Delete, keys
  <1>4. CASE Finalize
    <2>1. next \in 1..4
      BY <1>4, FinalizeOrderFacts DEF Finalize
    <2> QED BY <1>15, <1>4, <2>1 DEF Finalize
  <1>5. CASE RemoveFinalizer
    BY <1>15, <1>5 DEF RemoveFinalizer, keys
  <1>6. CASE Interrupt
    BY <1>0, <1>15, <1>6 DEF Interrupt, keys
  <1>7. CASE \E k \in Kinds : Collect(k)
    <2>1. PICK k \in Kinds : Collect(k)
      BY <1>7
    <2> QED BY <1>15, <2>1 DEF Collect, keys
  <1>8. CASE Issue \/ Renew
    <2>1. Issued
      BY <1>8 DEF Issue, Renew
    <2>2. cert' \in [Agents -> 0..issued'] /\ bundle' \in 0..issued'
      BY <2>1 DEF Issued
    <2> QED BY <1>15, <2>1, <2>2 DEF Issued, manifests
  <1>9. CASE InjectBundle
    BY <1>15, <1>9 DEF InjectBundle, manifests
  <1>10. CASE \E p \in Pods : Want(p) \/ Leave(p) \/ Admit(p)
    <2>1. PICK p \in Pods : Want(p) \/ Leave(p) \/ Admit(p)
      BY <1>10
    <2>2. pod' \in [Pods -> {"absent", "wanted", "present", "leaving"}]
      BY <2>1 DEF Want, Leave, Admit
    <2> QED BY <1>15, <2>1, <2>2 DEF Want, Leave, Admit, manifests, keys
  <1>11. CASE \E a \in Agents : CreatePod(a) \/ Start(a) \/ Die(a) \/ CollectPod(a)
    <2>1. PICK a \in Agents : CreatePod(a) \/ Start(a) \/ Die(a) \/ CollectPod(a)
      BY <1>11
    <2>2. CASE CreatePod(a)
      BY <1>15, <2>2 DEF CreatePod, manifests, keys
    <2>3. CASE Start(a)
      BY <1>15, <2>3 DEF Start, manifests, keys
    <2>4. CASE Die(a)
      BY <1>15, <2>4 DEF Die, manifests, keys
    <2>5. CASE CollectPod(a)
      BY <1>15, <2>5 DEF CollectPod, manifests, keys
    <2> QED BY <2>1, <2>2, <2>3, <2>4, <2>5
  <1>12. CASE UNCHANGED vars
    BY <1>15, <1>12 DEF vars, manifests, keys
  <1>13. CASE CollectDone
    BY <1>15, <1>13 DEF CollectDone, keys
  <1> QED
    BY <1>1, <1>2, <1>3, <1>4, <1>5, <1>6, <1>7, <1>8, <1>9, <1>10, <1>11, <1>12, <1>13 DEF Next

\* Type correctness, of any deployer (webhook.go:313-353, zitiwebhook_controller.go:703-738).
THEOREM TypeCorrect == Spec => []TypeOK
  <1>1. Init => TypeOK
    <2>1. Len(HelmOrder) = 9 /\ Len(OperatorOrder) = 8
      BY DEF HelmOrder, OperatorOrder
    <2> QED BY <2>1, ConstantsAssumption DEF Init, TypeOK, Order
  <1> QED BY <1>1, NextTypeOK, PTL DEF Spec

\* As long as the API server asks, nothing that an agent needs to be reached and to come
\* up again is taken away from a ZitiWebhook that is not deleted in the foreground, whatever
\* pass of Reconcile was under way and whatever interrupts the finalizer
\* (zitiwebhook_controller.go:102-120, :703-738).
THEOREM AskedLastHolds == Spec => AskedLast
  <1>1. Spec => []Finalized
    BY InitFinalized, NextFinalized, PTL DEF Spec
  <1>2. Finalized /\ [Next]_vars =>
          [foreground = "no" =>
              \A k \in {"Service", "Deployment", "ServiceAccount", "Issuer", "Certificate"} :
                  k \in objects \ objects' => "MutatingWebhookConfiguration" \notin objects]_vars
    BY NextFinalized DEF LastStep, Removals, Configuration
  <1> QED
    BY <1>1, <1>2, PTL DEF Spec, AskedLast

-----------------------------------------------------------------------------
(* What can keep the API server waiting: the safety part of PodsServed and *)
(* of RemovalUnblocks.                                                     *)

\* The chart's configuration comes after the objects that lead to an agent, and Helm
\* takes none of them away; its agents exit only by dying.
Prepared ==
    deployer = "helm" =>
        /\ deployed \in {"no", "yes"} /\ foreground = "no" /\ next = 1
        /\ turn > 3 => "ClusterRole" \in objects
        /\ turn > 4 => "ClusterRoleBinding" \in objects
        /\ turn > 5 => "Service" \in objects
        /\ Configuration \in objects => {"ClusterRole", "ClusterRoleBinding", "Service"} \subseteq objects
        /\ faults = 0 => \A a \in Agents : agent[a] # "exited"

\* With the chart a review waits only for an agent to come up, which none fails to do at
\* its start, or for the first certificate to be injected, until that is renewed; of an
\* operator whose ZitiWebhook was deleted in the background and is gone no review waits.
WaitsForAgentOnly ==
    /\ deployer = "helm" /\ issued <= 1 /\ bundle # 0 /\ (\E a \in Agents : agent[a] = "serving")
          => Passes
    /\ deployer = "helm" /\ faults = 0 => \A a \in Agents : agent[a] # "exited"
    /\ deployed = "gone" /\ foreground = "no" => Passes

\* What Helm has installed when it comes to the configuration.
LEMMA HelmOrderFacts ==
    /\ Len(HelmOrder) = 9
    /\ HelmOrder[3] = "ClusterRole" /\ HelmOrder[4] = "ClusterRoleBinding"
    /\ HelmOrder[5] = "Service" /\ HelmOrder[7] = Configuration
    /\ \A i \in 1..9 : HelmOrder[i] = Configuration => i = 7
<1>1. Len(HelmOrder) = 9 /\ HelmOrder[3] = "ClusterRole" /\ HelmOrder[4] = "ClusterRoleBinding"
      /\ HelmOrder[5] = "Service" /\ HelmOrder[7] = Configuration
  BY DEF HelmOrder, Configuration
<1>2. HelmOrder[1] # Configuration /\ HelmOrder[2] # Configuration /\ HelmOrder[6] # Configuration
      /\ HelmOrder[8] # Configuration /\ HelmOrder[9] # Configuration
  BY DEF HelmOrder, Configuration
<1>3. HelmOrder[3] # Configuration /\ HelmOrder[4] # Configuration /\ HelmOrder[5] # Configuration
  BY DEF HelmOrder, Configuration
<1>4. \A i \in 1..9 : i \in {1, 2, 3, 4, 5, 6, 7, 8, 9}
  OBVIOUS
<1> QED BY <1>1, <1>2, <1>3, <1>4

LEMMA NextPrepared == TypeOK /\ Prepared /\ [Next]_vars => Prepared'
  <1> SUFFICES ASSUME TypeOK, Prepared, [Next]_vars, deployer' = "helm"
               PROVE  Prepared'
    BY DEF Prepared
  <1>0. deployer = "helm"
    BY DEF vars, manifests, Next, Deploy, Begin, Apply, Delete, Finalize, RemoveFinalizer, Interrupt,
           Collect, CollectDone, Issue, Renew, Issued, InjectBundle, Want, Leave, Admit, CreatePod,
           Start, Die, CollectPod
  <1>1. /\ deployed \in {"no", "yes"} /\ foreground = "no" /\ next = 1
        /\ turn > 3 => "ClusterRole" \in objects
        /\ turn > 4 => "ClusterRoleBinding" \in objects
        /\ turn > 5 => "Service" \in objects
        /\ Configuration \in objects => {"ClusterRole", "ClusterRoleBinding", "Service"} \subseteq objects
        /\ faults = 0 => \A a \in Agents : agent[a] # "exited"
    BY <1>0 DEF Prepared
  <1>2. /\ ~Begin /\ ~Delete /\ ~Finalize /\ ~RemoveFinalizer /\ ~Interrupt /\ ~CollectDone
        /\ \A k \in Kinds : ~Collect(k)
    BY <1>0, <1>1 DEF Begin, Delete, Finalize, RemoveFinalizer, Interrupt, CollectDone, Collect
  <1>3. CASE Deploy
    <2>1. turn' = 1 /\ deployed' = "yes" /\ UNCHANGED <<foreground, next, objects, faults, agent>>
      BY <1>0, <1>3 DEF Deploy
    <2> QED BY <1>1, <2>1 DEF Prepared
  <1>4. CASE Apply
    <2>0. Order = HelmOrder /\ Len(Order) = 9
      BY <1>0, HelmOrderFacts DEF Order
    <2>1. /\ UNCHANGED <<deployed, foreground, next, faults, agent>>
          /\ objects' = objects \union {HelmOrder[turn]}
          /\ turn \in 1..9 /\ turn' \in {0, turn + 1}
      BY <1>4, <2>0 DEF Apply, TypeOK
    <2>2. /\ turn' > 3 => "ClusterRole" \in objects'
          /\ turn' > 4 => "ClusterRoleBinding" \in objects'
          /\ turn' > 5 => "Service" \in objects'
      BY <1>1, <2>1, HelmOrderFacts
    <2>3. HelmOrder[turn] = Configuration => {"ClusterRole", "ClusterRoleBinding", "Service"} \subseteq objects
      BY <1>1, <2>1, HelmOrderFacts
    <2> QED BY <1>1, <2>1, <2>2, <2>3 DEF Prepared
  <1>6. CASE Issue \/ Renew \/ InjectBundle \/ \E p \in Pods : Want(p) \/ Leave(p) \/ Admit(p)
    BY <1>1, <1>6 DEF Issue, Renew, Issued, InjectBundle, Want, Leave, Admit, manifests, Prepared
  <1>7. ASSUME NEW a \in Agents, CreatePod(a) PROVE Prepared'
    BY <1>1, <1>7 DEF CreatePod, manifests, Prepared, TypeOK
  <1>8. ASSUME NEW a \in Agents, Start(a) PROVE Prepared'
    <2>1. Required \subseteq Given
      BY <1>0 DEF Required, Given
    <2>2. agent' = [agent EXCEPT ![a] = "serving"]
      BY <1>8, <2>1 DEF Start
    <2> QED BY <1>1, <1>8, <2>2 DEF Start, manifests, Prepared, TypeOK
  <1>9. ASSUME NEW a \in Agents, Die(a) PROVE Prepared'
    <2>1. faults' # 0
      BY <1>9 DEF Die, TypeOK
    <2> QED BY <1>1, <1>9, <2>1 DEF Die, manifests, Prepared
  <1>10. ASSUME NEW a \in Agents, CollectPod(a) PROVE Prepared'
    BY <1>1, <1>10 DEF CollectPod, manifests, Prepared, TypeOK
  <1>11. CASE UNCHANGED vars
    BY <1>1, <1>11 DEF vars, manifests, Prepared
  <1> QED BY <1>2, <1>3, <1>4, <1>6, <1>7, <1>8, <1>9, <1>10, <1>11 DEF Next

\* Nothing but an agent that is not up, or the bundle that is not there, keeps the API
\* server from an answer of the chart's agent before the first renewal
\* (charts/ziti-webhook/templates/webhook.yaml), and nothing of a ZitiWebhook that was
\* deleted in the background and is gone (zitiwebhook_controller.go:102-120, :703-738).  PodsServed adds that agents come up.
THEOREM WaitsForAgentOnlyHolds == Spec => []WaitsForAgentOnly
  <1>1. Init => Prepared
    BY DEF Init, Prepared, Configuration
  <1>2. TypeOK /\ Prepared /\ Finalized => WaitsForAgentOnly
    <2> SUFFICES ASSUME TypeOK, Prepared, Finalized PROVE WaitsForAgentOnly
      OBVIOUS
    <2>1. ASSUME deployer = "helm", issued <= 1, bundle # 0, NEW a \in Agents, agent[a] = "serving"
          PROVE  Passes
      <3>1. cert[a] = 1 /\ bundle = 1
        BY <2>1, ConstantsAssumption DEF TypeOK
      <3>2. Configuration \in objects => {"ClusterRole", "ClusterRoleBinding", "Service"} \subseteq objects
        BY <2>1 DEF Prepared
      <3> QED BY <2>1, <3>1, <3>2 DEF Passes, Answered, Configuration
    <2>2. deployed = "gone" /\ foreground = "no" => Passes
      BY DEF Finalized, Passes, Configuration
    <2> QED BY <2>1, <2>2 DEF WaitsForAgentOnly, Prepared
  <1> QED
    BY <1>1, <1>2, TypeCorrect, NextPrepared, InitFinalized, NextFinalized, PTL DEF Spec
=============================================================================
