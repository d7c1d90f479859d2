-------------------------- MODULE IdentityLifecycle --------------------------
(***************************************************************************)
(* What the tunnel webhook promises (README.md of the repository: "the     *)
(* agent will manage the life cycle of a Ziti identity"): an identity is   *)
(* issued once, bound to one pod at most, retired, and only then released  *)
(* by that pod.  An identity whose pod was never admitted stays issued.    *)
(*                                                                         *)
(* The router webhook promises the same of the routers that it creates for *)
(* the pods of a StatefulSet: RouterWebhook implements this one too.       *)
(***************************************************************************)
CONSTANTS Identities, Pods, None

VARIABLES
    stage,      \* "fresh", "live" on the edge controller, or "spent"
    holder      \* holder[p]: the identity pod p runs with

Init ==
    /\ stage = [i \in Identities |-> "fresh"]
    /\ holder = [p \in Pods |-> None]

Issue(i) ==
    /\ stage[i] = "fresh"
    /\ stage' = [stage EXCEPT ![i] = "live"]
    /\ UNCHANGED holder

\* Names that will never be those of an identity.
Void(S) ==
    /\ \A i \in S : stage[i] = "fresh"
    /\ stage' = [i \in Identities |-> IF i \in S THEN "spent" ELSE stage[i]]
    /\ UNCHANGED holder

\* A pod is admitted with an identity that no pod had before it.
Bind(i, p) ==
    /\ stage[i] = "live"
    /\ holder[p] = None /\ \A q \in Pods : holder[q] # i
    /\ holder' = [holder EXCEPT ![p] = i]
    /\ UNCHANGED stage

\* Only the identity of a pod is ever removed.
Retire(i) ==
    /\ stage[i] = "live" /\ \E p \in Pods : holder[p] = i
    /\ stage' = [stage EXCEPT ![i] = "spent"]
    /\ UNCHANGED holder

Release(p) ==
    /\ holder[p] # None /\ stage[holder[p]] = "spent"
    /\ holder' = [holder EXCEPT ![p] = None]
    /\ UNCHANGED stage

Next ==
    \/ \E i \in Identities : Issue(i) \/ Retire(i)
    \/ \E S \in SUBSET Identities : Void(S)
    \/ \E i \in Identities, p \in Pods : Bind(i, p)
    \/ \E p \in Pods : Release(p)

Spec == Init /\ [][Next]_<<stage, holder>>
=============================================================================
