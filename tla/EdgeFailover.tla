----------------------------- MODULE EdgeFailover -----------------------------
(***************************************************************************)
(* How the agent finds an edge controller: the management endpoints it     *)
(* infers from its configuration when it starts (cmd/webhook/config.go),   *)
(* and the failover over them at the beginning of every review             *)
(* (createZitiClientWithFailover of cmd/webhook/webhook.go, Client of      *)
(* pkg/ziti-edge/client.go).                                               *)
(*                                                                         *)
(* Nothing is remembered from one review to the next: each starts at the   *)
(* first endpoint again, with the time the API server grants it.  Reviews  *)
(* share nothing here, so there is one at a time; a handler that goes on   *)
(* after the API server has given up changes nothing and is left out.      *)
(***************************************************************************)
EXTENDS Naturals, Sequences, SequencesExt, FiniteSets

CONSTANTS
    Urls,           \* the URLs there are in configurations, see Parsed
    Unparsable,     \* a text that url.Parse refuses
    Mgmts,          \* values of controller.mgmtApi, None among them
    MaxApis,        \* bound: the length of ztAPIs
    Patience,       \* how many calls may hang before the API server gives up
    MaxChanges,     \* bound: changes of the controllers' states and crashes
    None

\* A URL has the controller whose address it is, its host name may be the private one
\* of the controller (the suffix -p), and its path that of an API or none.
Parsed == [controller : {u.controller : u \in Urls}, private : BOOLEAN,
           path : {"client", "management", "base"}]
Texts  == Urls \union {Unparsable}

Controllers == {u.controller : u \in Urls}

ASSUME ConstantsAssumption ==
    /\ \A u \in Urls : u = [controller |-> u.controller, private |-> u.private,
                            path |-> u.path] /\ u \in Parsed
    /\ None \notin Controllers \union Parsed /\ None # "noClient"
    /\ Unparsable \notin Parsed \union {None}
    /\ Mgmts \subseteq Parsed \union {Unparsable, None}
    /\ MaxApis \in Nat /\ Patience \in Nat \ {0} /\ MaxChanges \in Nat

\* What may be wrong with the rest of the configuration: no image in the file, a part
\* of the identity or of the TLS pair missing, an identity that is no key pair.
Setups == {"good", "noImage", "noIdentity", "noTls", "garbled"}

VARIABLES
    config,     \* the configuration: mgmtApi, ztAPI, ztAPIs and the rest
    endpoints,  \* runtimeConfig.Controller.MgmtAPIEndpoints
    process,    \* is the agent down, serving, or did it exit in its start-up?
    state,      \* state[c]: is the controller up, down, or does it hang?
    changes,    \* changes and crashes so far
    at,         \* the next call of the review
    turn,       \* the endpoint it tries or has chosen
    patience,   \* what is left of the API server's patience
    outcome,    \* the answer to the last review
    steady      \* ghost: the controllers up ever since the review began

agent  == <<config, endpoints, process>>
world  == <<state, changes>>
review == <<at, turn, patience, outcome>>
vars   == <<agent, world, review, steady>>

Apis == UNION {[1..n -> Texts] : n \in 0..MaxApis}

TypeOK ==
    /\ config \in [mgmt : Mgmts, ztAPI : Texts \union {None}, ztAPIs : Apis, rest : Setups]
    /\ \A i \in 1..Len(endpoints) : endpoints[i] \in Parsed \union {Unparsable}
    /\ process \in {"down", "serving", "exited"}
    /\ state \in [Controllers -> {"up", "down", "hung"}]
    /\ changes \in 0..MaxChanges /\ patience \in 0..Patience
    /\ at \in {"idle", "verify", "authenticate", "handle"}
    /\ turn \in 1..Len(endpoints) + 1
    /\ outcome \in {None, "admitted", "noClient", "failed", "timeout"}
    /\ steady \subseteq Controllers
    /\ at # "idle" => process = "serving" /\ turn <= Len(endpoints) /\ patience > 0

Init ==
    /\ config \in [mgmt : Mgmts, ztAPI : Texts \union {None}, ztAPIs : Apis, rest : Setups]
    /\ endpoints = <<>> /\ process = "down"
    /\ state \in [Controllers -> {"up", "down", "hung"}] /\ changes = 0
    /\ at = "idle" /\ turn = 1 /\ patience = 0 /\ outcome = None /\ steady = {}

-----------------------------------------------------------------------------
(* The start-up.                                                           *)

\* Whatever its path, a URL that parses is turned into that of the management API.
convertToMgmtAPI(u) == [u EXCEPT !.path = "management"]

\* One that does not parse is passed over.
EndpointOf(u) == IF u = Unparsable THEN <<>> ELSE <<convertToMgmtAPI(u)>>

Primary(c) == IF c.ztAPI = None THEN <<>> ELSE EndpointOf(c.ztAPI)

\* Mutant of Listed: the fallbacks are only looked at when there is no primary.
ListedEither(c) ==
    LET listed[n \in 0..Len(c.ztAPIs)] ==
          IF n = 0 \/ c.ztAPI # None THEN Primary(c)
          ELSE listed[n - 1] \o EndpointOf(c.ztAPIs[n])
    IN  listed

\* What turn n of the loop over ztAPIs appends: nothing for the text of ztAPI.
Appended(c, n) == IF c.ztAPIs[n] = c.ztAPI THEN <<>> ELSE EndpointOf(c.ztAPIs[n])

\* The endpoints after n turns.
Listed(c) ==
    LET listed[n \in 0..Len(c.ztAPIs)] ==
          IF n = 0 THEN Primary(c) ELSE listed[n - 1] \o Appended(c, n)
    IN  listed

inferMgmtAPIEndpoints(c) == Listed(c)[Len(c.ztAPIs)]

MgmtAPIEndpoints(c) ==
    IF c.mgmt = None THEN inferMgmtAPIEndpoints(c) ELSE <<c.mgmt>>

\* klog.Fatal at the first thing that is missing; what is there is not parsed, but for
\* the TLS pair.
Start ==
    /\ process = "down"
    /\ endpoints' = MgmtAPIEndpoints(config)
    /\ process' = IF endpoints' = <<>> \/ config.rest \in {"noImage", "noIdentity", "noTls"}
                  THEN "exited" ELSE "serving"
    /\ UNCHANGED <<config, world, review, steady>>

-----------------------------------------------------------------------------
(* A review.                                                               *)

\* Client throws the path away and takes the public host name.
Contacted(e) == IF e = Unparsable THEN None ELSE e.controller
StateOf(i)   == IF Contacted(endpoints[i]) = None THEN "down" ELSE state[Contacted(endpoints[i])]

Answer(o) == at' = "idle" /\ turn' = 1 /\ patience' = 0 /\ outcome' = o

\* The request comes in; the key pair of the identity is parsed only here.
Begin ==
    /\ process = "serving" /\ at = "idle"
    /\ steady' = {c \in Controllers : state[c] = "up"}
    /\ \/ /\ config.rest = "garbled"
          /\ Answer("failed")
       \/ /\ config.rest # "garbled"
          /\ at' = "verify" /\ turn' = 1 /\ patience' = Patience /\ outcome' = None
    /\ UNCHANGED <<agent, world>>

\* Mutant of NextEndpoint: only the first two are tried.
NextEndpointTwo(left) ==
    IF turn >= 2 \/ turn = Len(endpoints)
    THEN Answer("noClient")
    ELSE at' = "verify" /\ turn' = turn + 1 /\ patience' = left /\ UNCHANGED outcome
\* Mutant of NextEndpoint: off by one at the end of the list.
NextEndpointPast(left) ==
    IF turn > Len(endpoints)
    THEN Answer("noClient")
    ELSE at' = "verify" /\ turn' = turn + 1 /\ patience' = left /\ UNCHANGED outcome

\* The loop of createZitiClientWithFailover goes on to the next endpoint.
NextEndpoint(left) ==
    IF turn = Len(endpoints)
    THEN Answer("noClient")
    ELSE at' = "verify" /\ turn' = turn + 1 /\ patience' = left /\ UNCHANGED outcome

\* VerifyController gets the certificates of the controller, Authenticate a session.
\* One that is down refuses at once, one that hangs makes the client time out.
TryUp ==
    /\ at \in {"verify", "authenticate"} /\ StateOf(turn) = "up"
    /\ at' = IF at = "verify" THEN "authenticate" ELSE "handle"
    /\ UNCHANGED <<agent, world, turn, patience, outcome, steady>>

TryDown ==
    /\ at \in {"verify", "authenticate"} /\ StateOf(turn) = "down"
    /\ NextEndpoint(patience)
    /\ UNCHANGED <<agent, world, steady>>

\* Mutant of TryHung: a client without a timeout.
TryHungForever ==
    /\ at \in {"verify", "authenticate"} /\ StateOf(turn) = "hung"
    /\ Answer("timeout")
    /\ UNCHANGED <<agent, world, steady>>

TryHung ==
    /\ at \in {"verify", "authenticate"} /\ StateOf(turn) = "hung"
    /\ IF patience = 1 THEN Answer("timeout") ELSE NextEndpoint(patience - 1)
    /\ UNCHANGED <<agent, world, steady>>

\* The handler's calls go to the endpoint that was chosen, and to no other one.
Handle ==
    /\ at = "handle"
    /\ \/ StateOf(turn) = "up" /\ Answer("admitted")
       \/ StateOf(turn) = "down" /\ Answer("failed")
       \/ StateOf(turn) = "hung" /\ Answer("timeout")
    /\ UNCHANGED <<agent, world, steady>>

Review == TryUp \/ TryDown \/ TryHung \/ Handle

-----------------------------------------------------------------------------
(* The world.                                                              *)

Change(c) ==
    /\ changes < MaxChanges
    /\ changes' = changes + 1
    /\ \E s \in {"up", "down", "hung"} \ {state[c]} : state' = [state EXCEPT ![c] = s]
    /\ steady' = steady \ {c}
    /\ UNCHANGED <<agent, review>>

\* The process dies and is started anew; the API server sees a broken connection.
Crash ==
    /\ process = "serving" /\ changes < MaxChanges
    /\ changes' = changes + 1
    /\ process' = "down" /\ endpoints' = <<>>
    /\ IF at = "idle" THEN UNCHANGED review ELSE Answer("failed")
    /\ UNCHANGED <<config, state, steady>>

\* The kubelet starts a container that has exited again.
Restart ==
    /\ process = "exited"
    /\ process' = "down" /\ endpoints' = <<>>
    /\ UNCHANGED <<config, world, review, steady>>

Next ==
    \/ Start \/ Begin \/ Review
    \/ \E c \in Controllers : Change(c)
    \/ Crash \/ Restart

\* The container is started, the handler runs, and whoever makes the pod tries again.
Fairness == WF_vars(Start) /\ WF_vars(Begin) /\ WF_vars(Review) /\ WF_vars(Restart)

Spec == Init /\ [][Next]_vars /\ Fairness

-----------------------------------------------------------------------------
(* Properties.                                                             *)

Named(c) == {c.ztAPI} \union ToSet(c.ztAPIs)

\* What the agent serves with: without an explicit endpoint, every controller that a
\* readable URL of the identity names can be reached, and no other one, and that of
\* ztAPI comes first; with an explicit one there is that one (config.go:77-84, 182-222).
EndpointsComplete ==
    process = "serving" =>
        IF config.mgmt # None
        THEN endpoints = <<config.mgmt>>
        ELSE /\ {Contacted(endpoints[i]) : i \in DOMAIN endpoints}
                  = {u.controller : u \in Named(config) \ {None, Unparsable}}
             /\ config.ztAPI \notin {None, Unparsable} =>
                    Contacted(endpoints[1]) = config.ztAPI.controller

\* A review that ends without a client has found no controller although it went through
\* all of them: none of its endpoints was up from its beginning to its end
\* (webhook.go:197-219).
NoGiveUp ==
    outcome = "noClient" /\ process = "serving" =>
        \A i \in 1..Len(endpoints) : Contacted(endpoints[i]) \notin steady

\* An endpoint that is up can be reached when those before it that hang do not exhaust
\* the patience of the API server.
Reachable ==
    /\ process = "serving" /\ config.rest # "garbled"
    /\ \E i \in DOMAIN endpoints :
          /\ StateOf(i) = "up"
          /\ Cardinality({j \in 1..i - 1 : StateOf(j) = "hung"}) < Patience

\* Once an endpoint can be reached and stays so, reviews are admitted again and again,
\* whatever happened before (webhook.go:197-219: nothing is carried over).
Admitted == <>[]Reachable => []<>(outcome = "admitted")

\* "Avoid duplicates" (config.go:203): no controller is tried twice in a review.
NoEndpointTwice ==
    \A i, j \in DOMAIN endpoints :
        i # j => Contacted(endpoints[i]) # Contacted(endpoints[j])
=============================================================================
