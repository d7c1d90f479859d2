------------------------- MODULE EdgeFailover_proofs -------------------------
(***************************************************************************)
(* What the agent infers from its configuration is complete; a review that *)
(* finds no client has tried every endpoint, and none of them was up       *)
(* throughout; and one that can reach an endpoint is admitted if nothing   *)
(* changes: for every list of endpoints and every patience.                *)
(***************************************************************************)
EXTENDS EdgeFailover, WellFoundedInduction, FiniteSetTheorems, TLAPS

-----------------------------------------------------------------------------
(* Induction over the turns of a loop.  The induction principles of the     *)
(* library speak of any operator; this one speaks of sets, and follows from *)
(* the order of the naturals being well founded.                           *)

LEMMA LeastElement ==
  ASSUME NEW T \in SUBSET Nat, T # {}
  PROVE  \E x \in T : \A y \in T : ~(y < x)
<1> DEFINE R == OpToRel(<, Nat)
<1>1. IsWellFoundedOn(R, Nat)
  BY NatLessThanWellFounded
<1>2. \A x, y \in Nat : <<y, x>> \in R <=> y < x
  BY DEF OpToRel
<1> HIDE DEF R
<1>3. \E x \in T : \A y \in T : ~(<<y, x>> \in R)
  BY <1>1, WFMin
<1> QED BY <1>2, <1>3

LEMMA SetInduction ==
  ASSUME NEW T, 0 \in T, \A n \in Nat : n \in T => n + 1 \in T
  PROVE  Nat \subseteq T
<1> SUFFICES ASSUME Nat \ T # {} PROVE FALSE
  OBVIOUS
<1>1. PICK x \in Nat \ T : \A y \in Nat \ T : ~(y < x)
  BY LeastElement
<1>2. x # 0 /\ x - 1 \in Nat /\ x - 1 < x
  OBVIOUS
<1> QED BY <1>1, <1>2

-----------------------------------------------------------------------------
(* The loop that infers the endpoints.                                     *)

\* The recursive definition defines something: each turn adds to the one before.
LEMMA ListedByTurns ==
  ASSUME NEW c, Len(c.ztAPIs) \in Nat
  PROVE  Listed(c) = [n \in 0..Len(c.ztAPIs) |->
                        IF n = 0 THEN Primary(c) ELSE Listed(c)[n - 1] \o Appended(c, n)]
<1> DEFINE Is(g, n) == g = [i \in 0..n |-> IF i = 0 THEN Primary(c) ELSE g[i - 1] \o Appended(c, i)]
           T == {n \in Nat : \E g : Is(g, n)}
<1>1. 0 \in T
  <2>1. Is([i \in 0..0 |-> Primary(c)], 0)
    OBVIOUS
  <2> QED BY <2>1
<1>2. ASSUME NEW n \in Nat, n \in T PROVE n + 1 \in T
  <2>1. PICK g : Is(g, n)
    BY <1>2
  <2> DEFINE h == [i \in 0..n + 1 |-> IF i = n + 1 THEN g[n] \o Appended(c, i) ELSE g[i]]
  <2>2. ASSUME NEW i \in 0..n + 1
        PROVE  h[i] = IF i = 0 THEN Primary(c) ELSE h[i - 1] \o Appended(c, i)
    <3>1. CASE i = n + 1
      <4>1. i - 1 = n /\ n \in 0..n + 1 /\ n # n + 1 /\ i # 0
        BY <3>1
      <4>2. h[i - 1] = g[n] /\ h[i] = g[n] \o Appended(c, i)
        BY <3>1, <4>1
      <4> HIDE DEF h
      <4> QED BY <4>1, <4>2
    <3>2. CASE i \in 0..n
      <4>1. h[i] = g[i] /\ (i # 0 => h[i - 1] = g[i - 1])
        BY <3>2
      <4> HIDE DEF h
      <4> QED BY <2>1, <3>2, <4>1
    <3> QED BY <3>1, <3>2
  <2>3. h = [i \in 0..n + 1 |-> h[i]]
    OBVIOUS
  <2> HIDE DEF h
  <2>4. Is(h, n + 1)
    BY <2>2, <2>3
  <2>5. n + 1 \in Nat
    OBVIOUS
  <2> QED BY <2>4, <2>5
<1>3. PICK g : Is(g, Len(c.ztAPIs))
  <2> HIDE DEF T
  <2>1. Nat \subseteq T
    BY <1>1, <1>2, SetInduction
  <2> USE DEF T
  <2> QED BY <2>1
<1> QED BY <1>3 DEF Listed

LEMMA ListedTurn ==
  ASSUME NEW c, Len(c.ztAPIs) \in Nat, NEW n \in 0..Len(c.ztAPIs)
  PROVE  Listed(c)[n] = IF n = 0 THEN Primary(c) ELSE Listed(c)[n - 1] \o Appended(c, n)
<1> DEFINE listed == Listed(c)
<1>1. listed = [m \in 0..Len(c.ztAPIs) |->
                  IF m = 0 THEN Primary(c) ELSE listed[m - 1] \o Appended(c, m)]
  BY ListedByTurns
<1> HIDE DEF listed
<1>2. listed[n] = IF n = 0 THEN Primary(c) ELSE listed[n - 1] \o Appended(c, n)
  BY <1>1
<1> QED BY <1>2 DEF listed

Configs == [mgmt : Mgmts, ztAPI : Texts \union {None}, ztAPIs : Apis, rest : Setups]

\* The controllers behind endpoints, and those that URLs of a configuration name.
Behind(es) == {Contacted(es[i]) : i \in DOMAIN es}
Known(S)   == {u.controller : u \in S \ {None, Unparsable}}

LEMMA ApisAreSequences ==
  ASSUME NEW c \in Configs
  PROVE  c.ztAPIs \in Seq(Texts) /\ Len(c.ztAPIs) \in Nat
<1>1. PICK n \in 0..MaxApis : c.ztAPIs \in [1..n -> Texts]
  BY DEF Configs, Apis
<1>2. n \in Nat
  BY <1>1, ConstantsAssumption
<1> QED BY <1>1, <1>2

LEMMA EndpointOfText ==
  ASSUME NEW u \in Texts
  PROVE  /\ u # None /\ EndpointOf(u) \in Seq(Parsed)
         /\ u = Unparsable => EndpointOf(u) = <<>>
         /\ u # Unparsable => /\ Len(EndpointOf(u)) = 1
                              /\ EndpointOf(u)[1] \in Parsed
                              /\ Contacted(EndpointOf(u)[1]) = u.controller
<1>1. CASE u = Unparsable
  BY <1>1, ConstantsAssumption DEF EndpointOf
<1>2. CASE u # Unparsable
  <2>1. u \in Urls /\ u \in Parsed
    BY <1>2, ConstantsAssumption DEF Texts
  <2> DEFINE e == convertToMgmtAPI(u)
  <2>2. e \in Parsed /\ e.controller = u.controller
    BY <2>1 DEF convertToMgmtAPI, Parsed
  <2> HIDE DEF e
  <2>3. Contacted(e) = u.controller
    BY <2>2, ConstantsAssumption DEF Contacted
  <2>4. EndpointOf(u) = <<e>>
    BY <1>2 DEF EndpointOf, e
  <2>5. <<e>> \in Seq(Parsed) /\ Len(<<e>>) = 1 /\ <<e>>[1] = e
    BY <2>2
  <2> QED BY <1>2, <2>1, <2>2, <2>3, <2>4, <2>5, ConstantsAssumption
<1> QED BY <1>1, <1>2

LEMMA BehindEndpointOf ==
  ASSUME NEW u \in Texts
  PROVE  Behind(EndpointOf(u)) = Known({u})
<1>1. CASE u = Unparsable
  BY <1>1, EndpointOfText DEF Behind, Known
<1>2. CASE u # Unparsable
  <2>1. DOMAIN EndpointOf(u) = {1}
    BY <1>2, EndpointOfText
  <2>2. Behind(EndpointOf(u)) = {u.controller}
    BY <1>2, <2>1, EndpointOfText DEF Behind
  <2>3. Known({u}) = {u.controller}
    BY <1>2, EndpointOfText DEF Known
  <2> QED BY <2>2, <2>3
<1> QED BY <1>1, <1>2

LEMMA BehindBoth ==
  ASSUME NEW s \in Seq(Parsed), NEW t \in Seq(Parsed)
  PROVE  Behind(s \o t) = Behind(s) \union Behind(t)
<1>1. /\ DOMAIN (s \o t) = 1..Len(s) + Len(t) /\ Len(s) \in Nat /\ Len(t) \in Nat
      /\ \A i \in 1..Len(s) + Len(t) :
            (s \o t)[i] = IF i <= Len(s) THEN s[i] ELSE t[i - Len(s)]
  OBVIOUS
<1>2. \A i \in DOMAIN s : i \in DOMAIN (s \o t) /\ (s \o t)[i] = s[i]
  BY <1>1
<1>3. \A i \in DOMAIN t : i + Len(s) \in DOMAIN (s \o t) /\ (s \o t)[i + Len(s)] = t[i]
  BY <1>1
<1>4. \A i \in DOMAIN (s \o t) :
        \/ i \in DOMAIN s /\ (s \o t)[i] = s[i]
        \/ i - Len(s) \in DOMAIN t /\ (s \o t)[i] = t[i - Len(s)]
  BY <1>1
<1> QED BY <1>2, <1>3, <1>4 DEF Behind

LEMMA KnownBoth == ASSUME NEW S, NEW T PROVE Known(S \union T) = Known(S) \union Known(T)
BY DEF Known

\* After any number of turns there is an endpoint for every readable URL so far and for
\* nothing else, that of ztAPI first.
SoFar(c, n) ==
    /\ Listed(c)[n] \in Seq(Parsed)
    /\ Behind(Listed(c)[n]) = Known({c.ztAPI} \union {c.ztAPIs[j] : j \in 1..n})
    /\ c.ztAPI \notin {None, Unparsable} =>
          Listed(c)[n] # <<>> /\ Contacted(Listed(c)[n][1]) = c.ztAPI.controller

LEMMA SoFarAtFirst ==
  ASSUME NEW c \in Configs
  PROVE  SoFar(c, 0)
<1>1. Listed(c)[0] = Primary(c)
  <2>1. Len(c.ztAPIs) \in Nat /\ 0 \in 0..Len(c.ztAPIs)
    BY ApisAreSequences
  <2> QED BY <2>1, ListedTurn
<1>2. {c.ztAPI} \union {c.ztAPIs[j] : j \in 1..0} = {c.ztAPI}
  OBVIOUS
<1>3. CASE c.ztAPI = None
  <2>1. Listed(c)[0] = <<>>
    BY <1>1, <1>3 DEF Primary
  <2>2. Behind(Listed(c)[0]) = {} /\ Known({c.ztAPI}) = {}
    BY <1>3, <2>1 DEF Behind, Known
  <2>3. Listed(c)[0] \in Seq(Parsed)
    BY <2>1
  <2> QED BY <1>2, <1>3, <2>2, <2>3 DEF SoFar
<1>4. CASE c.ztAPI # None
  <2>1. c.ztAPI \in Texts /\ Listed(c)[0] = EndpointOf(c.ztAPI)
    BY <1>1, <1>4 DEF Primary, Configs
  <2>2. Behind(Listed(c)[0]) = Known({c.ztAPI}) /\ Listed(c)[0] \in Seq(Parsed)
    BY <2>1, EndpointOfText, BehindEndpointOf
  <2>3. ASSUME c.ztAPI # Unparsable
        PROVE  Listed(c)[0] # <<>> /\ Contacted(Listed(c)[0][1]) = c.ztAPI.controller
    BY <2>1, <2>3, EndpointOfText
  <2> QED BY <1>2, <2>2, <2>3 DEF SoFar
<1> QED BY <1>3, <1>4

LEMMA SoFarNext ==
  ASSUME NEW c \in Configs, NEW n \in Nat, n + 1 \in 0..Len(c.ztAPIs), SoFar(c, n)
  PROVE  SoFar(c, n + 1)
<1> DEFINE before == Listed(c)[n]
           u == c.ztAPIs[n + 1]
           all(m) == {c.ztAPI} \union {c.ztAPIs[j] : j \in 1..m}
<1>1. Listed(c)[n + 1] = before \o Appended(c, n + 1)
  <2>1. Len(c.ztAPIs) \in Nat /\ n + 1 # 0 /\ (n + 1) - 1 = n
    BY ApisAreSequences
  <2> QED BY <2>1, ListedTurn
<1>2. u \in Texts
  BY ApisAreSequences
<1>3. all(n + 1) = all(n) \union {u}
  <2>1. 1..n + 1 = (1..n) \union {n + 1}
    OBVIOUS
  <2> QED BY <2>1
<1>4. Known(all(n + 1)) = Known(all(n)) \union Known({u})
  BY <1>3, KnownBoth
<1>5. /\ Appended(c, n + 1) \in Seq(Parsed)
      /\ Behind(before) \union Behind(Appended(c, n + 1)) = Behind(before) \union Known({u})
  <2>1. CASE u = c.ztAPI
    <3>1. /\ Appended(c, n + 1) = <<>> /\ Behind(Appended(c, n + 1)) = {}
          /\ Appended(c, n + 1) \in Seq(Parsed)
      BY <2>1 DEF Appended, Behind
    <3>2. Known({u}) \subseteq Behind(before)
      BY <2>1 DEF SoFar, Known
    <3> QED BY <3>1, <3>2
  <2>2. CASE u # c.ztAPI
    BY <1>2, <2>2, EndpointOfText, BehindEndpointOf DEF Appended
  <2> QED BY <2>1, <2>2
<1>6. before \in Seq(Parsed) /\ Behind(before) = Known(all(n))
      /\ (c.ztAPI \notin {None, Unparsable} =>
            before # <<>> /\ Contacted(before[1]) = c.ztAPI.controller)
  BY DEF SoFar
<1> HIDE DEF before, all, u
<1>7. Behind(Listed(c)[n + 1]) = Known(all(n + 1))
  BY <1>1, <1>4, <1>5, <1>6, BehindBoth
<1>8. Listed(c)[n + 1] \in Seq(Parsed)
      /\ (before # <<>> => Listed(c)[n + 1] # <<>> /\ Listed(c)[n + 1][1] = before[1])
  <2> DEFINE more == Appended(c, n + 1)
  <2>1. before \in Seq(Parsed) /\ more \in Seq(Parsed)
    BY <1>5, <1>6
  <2> HIDE DEF more
  <2>2. before \o more \in Seq(Parsed)
        /\ (before # <<>> => before \o more # <<>> /\ (before \o more)[1] = before[1])
    BY <2>1
  <2> QED BY <1>1, <2>2 DEF more
<1> QED BY <1>6, <1>7, <1>8 DEF SoFar, all

LEMMA SoFarAlways ==
  ASSUME NEW c \in Configs, NEW n \in 0..Len(c.ztAPIs)
  PROVE  SoFar(c, n)
<1> DEFINE T == {m \in Nat : m \in 0..Len(c.ztAPIs) => SoFar(c, m)}
<1>0. Len(c.ztAPIs) \in Nat
  BY ApisAreSequences
<1>1. 0 \in T
  BY SoFarAtFirst
<1>2. ASSUME NEW m \in Nat, m \in T PROVE m + 1 \in T
  <2>1. m + 1 \in 0..Len(c.ztAPIs) => m \in 0..Len(c.ztAPIs)
    BY <1>0
  <2> QED BY <1>2, <2>1, SoFarNext
<1>3. n \in Nat
  BY <1>0
<1> HIDE DEF T
<1>4. n \in T
  BY <1>1, <1>2, <1>3, SetInduction
<1> QED BY <1>4 DEF T

\* What the agent gets to serve with.
LEMMA EndpointsOfConfig ==
  ASSUME NEW c \in Configs
  PROVE  /\ MgmtAPIEndpoints(c) \in Seq(Parsed \union {Unparsable})
         /\ c.mgmt # None => MgmtAPIEndpoints(c) = <<c.mgmt>>
         /\ c.mgmt = None =>
               /\ Behind(MgmtAPIEndpoints(c)) = Known(Named(c))
               /\ c.ztAPI \notin {None, Unparsable} =>
                     Contacted(MgmtAPIEndpoints(c)[1]) = c.ztAPI.controller
<1>1. CASE c.mgmt # None
  <2>1. c.mgmt \in Parsed \union {Unparsable} /\ MgmtAPIEndpoints(c) = <<c.mgmt>>
    BY <1>1, ConstantsAssumption DEF MgmtAPIEndpoints, Configs
  <2> QED BY <1>1, <2>1
<1>2. CASE c.mgmt = None
  <2> DEFINE N == Len(c.ztAPIs)
             found == MgmtAPIEndpoints(c)
  <2>1. found = Listed(c)[N]
    BY <1>2 DEF MgmtAPIEndpoints, inferMgmtAPIEndpoints
  <2>2. N \in 0..N /\ c.ztAPIs \in Seq(Texts)
    BY ApisAreSequences
  <2>3. SoFar(c, N)
    BY <2>2, SoFarAlways
  <2>4. Named(c) = {c.ztAPI} \union {c.ztAPIs[j] : j \in 1..N}
    BY <2>2 DEF Named, ToSet
  <2>5. found \in Seq(Parsed)
    BY <2>1, <2>3 DEF SoFar
  <2> HIDE DEF found
  <2>6. found \in Seq(Parsed \union {Unparsable})
    BY <2>5
  <2> USE DEF found
  <2> QED BY <1>2, <2>1, <2>3, <2>4, <2>6 DEF SoFar
<1> QED BY <1>1, <1>2

-----------------------------------------------------------------------------
(* The failover.                                                           *)

\* What the agent serves with, however often it has been started.
Inferred == MgmtAPIEndpoints(config)

Configured == process = "serving" => endpoints = Inferred

\* The ghost is what it says it is, and a review only goes on while the agent serves.
Witnessed ==
    /\ steady \subseteq Controllers
    /\ \A c \in steady : state[c] = "up"
    /\ at # "idle" => process = "serving"

\* The endpoints a review has passed were not up all the time.
Passed ==
    /\ turn \in Nat \ {0}
    /\ at # "idle" => \A i \in 1..turn - 1 : Contacted(Inferred[i]) \notin steady

\* Nor were those of a review that gave up, also when the agent has died since.
GaveUp ==
    outcome = "noClient" =>
        \A i \in 1..Len(Inferred) : Contacted(Inferred[i]) \notin steady

IInv == Configured /\ Witnessed /\ Passed /\ GaveUp

\* An endpoint that is down or hangs when it is tried has not been up all the time.
LEMMA NotUpNotSteady ==
  ASSUME IInv, at # "idle", StateOf(turn) # "up"
  PROVE  endpoints = Inferred /\ Contacted(Inferred[turn]) \notin steady
<1>1. endpoints = Inferred
  BY DEF IInv, Configured, Witnessed
<1>2. None \notin steady
  BY ConstantsAssumption DEF IInv, Witnessed
<1>3. Contacted(Inferred[turn]) \notin steady
  <2>1. CASE Contacted(Inferred[turn]) = None
    BY <2>1, <1>2
  <2>2. CASE Contacted(Inferred[turn]) # None
    BY <2>2, <1>1 DEF IInv, Witnessed, StateOf
  <2> QED BY <2>1, <2>2
<1> QED BY <1>1, <1>3

\* The answer that ends a review says "noClient" only if the loop does.
LEMMA AnswerKeeps ==
  ASSUME IInv, NEW o, Answer(o), o # "noClient",
         UNCHANGED <<agent, world, steady>>
  PROVE  IInv'
BY DEF IInv, Configured, Witnessed, Passed, GaveUp, Inferred, Answer, agent, world

LEMMA NextEndpointKeeps ==
  ASSUME IInv, NEW left, at # "idle", StateOf(turn) # "up", NextEndpoint(left),
         UNCHANGED <<agent, world, steady>>
  PROVE  IInv'
<1>1. endpoints = Inferred /\ Inferred' = Inferred
  BY NotUpNotSteady DEF Inferred, agent
<1>2. \A i \in 1..turn : Contacted(Inferred[i]) \notin steady
  BY NotUpNotSteady DEF IInv, Passed
<1>3. (Configured /\ Witnessed)'
  BY <1>1 DEF IInv, Configured, Witnessed, NextEndpoint, Answer, agent, world
<1>4. CASE turn = Len(endpoints)
  <2>1. at' = "idle" /\ turn' = 1 /\ outcome' = "noClient"
    BY <1>4 DEF NextEndpoint, Answer
  <2> QED BY <2>1, <1>1, <1>2, <1>3, <1>4 DEF IInv, Passed, GaveUp
<1>5. CASE turn # Len(endpoints)
  <2>1. at' = "verify" /\ turn' = turn + 1 /\ outcome' = outcome
    BY <1>5 DEF NextEndpoint
  <2>2. Passed'
    BY <2>1, <1>1, <1>2 DEF IInv, Passed
  <2>3. GaveUp'
    BY <2>1, <1>1 DEF IInv, GaveUp
  <2> QED BY <2>2, <2>3, <1>3 DEF IInv
<1> QED BY <1>4, <1>5

LEMMA Initially == Init => IInv
BY DEF Init, IInv, Configured, Witnessed, Passed, GaveUp

LEMMA Inductive == IInv /\ [Next]_vars => IInv'
<1> SUFFICES ASSUME IInv, [Next]_vars PROVE IInv'
  OBVIOUS
<1> USE DEF IInv, Configured, Witnessed, Passed, GaveUp
<1>0. Inferred' = Inferred
  BY DEF Inferred, Next, Start, Begin, Review, TryUp, TryDown, TryHung, Handle, Change, Crash,
         Restart, vars, agent
<1>1. CASE Start
  BY <1>1, <1>0 DEF Start, Inferred, world, review
<1>2. CASE Begin
  <2>1. Configured' /\ Witnessed'
    BY <1>2, <1>0 DEF Begin, Answer, agent, world
  <2>2. turn' = 1 /\ outcome' # "noClient"
    BY <1>2, ConstantsAssumption DEF Begin, Answer
  <2> QED BY <2>1, <2>2
<1>3. CASE TryUp
  BY <1>3, <1>0 DEF TryUp, agent, world
<1>4. CASE TryDown
  BY <1>4, NextEndpointKeeps DEF TryDown
<1>5. CASE TryHung
  BY <1>5, NextEndpointKeeps, AnswerKeeps DEF TryHung
<1>6. CASE Handle
  BY <1>6, AnswerKeeps DEF Handle
<1>7. ASSUME NEW c \in Controllers, Change(c) PROVE IInv'
  BY <1>7, <1>0 DEF Change, agent, review
<1>8. CASE Crash
  BY <1>8, <1>0 DEF Crash, review, Answer
<1>9. CASE Restart
  BY <1>9, <1>0 DEF Restart, world, review
<1>10. CASE UNCHANGED vars
  BY <1>10, <1>0 DEF vars, agent, world, review
<1> QED
  BY <1>1, <1>2, <1>3, <1>4, <1>5, <1>6, <1>7, <1>8, <1>9, <1>10 DEF Next, Review

\* No review gives up on an agent while one of its endpoints has been up all the time
\* (createZitiClientWithFailover, webhook.go:197-219).
THEOREM TriedThemAll == Spec => []NoGiveUp
<1>1. IInv => NoGiveUp
  BY DEF IInv, Configured, GaveUp, NoGiveUp
<1> QED BY <1>1, Initially, Inductive, PTL DEF Spec

-----------------------------------------------------------------------------
(* Type correctness.                                                       *)

\* The agent serves with some endpoint, and a review always has one before it.
Typed ==
    /\ TypeOK
    /\ endpoints \in Seq(Parsed \union {Unparsable})
    /\ process = "serving" => endpoints # <<>>
    /\ at = "idle" => turn = 1

LEMMA TypedAnswer ==
  ASSUME Typed, NEW o \in {"admitted", "noClient", "failed", "timeout"}, Answer(o),
         UNCHANGED <<agent, world, steady>>
  PROVE  Typed'
<1>1. Len(endpoints) \in Nat /\ 0 \in 0..Patience
  BY ConstantsAssumption DEF Typed
<1>2. turn' \in 1..Len(endpoints') + 1
  BY <1>1 DEF Answer, agent
<1> QED BY <1>1, <1>2 DEF Answer, Typed, TypeOK, agent, world

LEMMA TypedNextEndpoint ==
  ASSUME Typed, NEW left \in 1..Patience, NextEndpoint(left), at # "idle",
         UNCHANGED <<agent, world, steady>>
  PROVE  Typed'
<1>1. Len(endpoints) \in Nat /\ Patience \in Nat /\ turn \in 1..Len(endpoints)
  BY ConstantsAssumption DEF Typed, TypeOK
<1>2. CASE turn = Len(endpoints)
  BY <1>2, TypedAnswer DEF NextEndpoint
<1>3. CASE turn # Len(endpoints)
  <2>1. /\ at' = "verify" /\ turn' = turn + 1 /\ patience' = left /\ outcome' = outcome
        /\ endpoints' = endpoints
    BY <1>3 DEF NextEndpoint, agent
  <2>2. turn' \in 1..Len(endpoints') + 1 /\ turn' <= Len(endpoints')
    BY <1>1, <1>3, <2>1
  <2>3. left \in 0..Patience /\ left > 0
    BY <1>1
  <2> QED BY <2>1, <2>2, <2>3 DEF Typed, TypeOK, agent, world
<1> QED BY <1>2, <1>3

LEMMA TypedInit == Init => Typed
<1> SUFFICES ASSUME Init PROVE Typed
  OBVIOUS
<1>1. 0 \in 0..MaxChanges /\ 0 \in 0..Patience /\ 1 \in 1..Len(<<>>) + 1
  BY ConstantsAssumption
<1>2. \A i \in 1..Len(endpoints) : endpoints[i] \in Parsed \union {Unparsable}
  BY DEF Init
<1> QED BY <1>1, <1>2 DEF Init, Typed, TypeOK

LEMMA TypedStep == Typed /\ [Next]_vars => Typed'
<1> SUFFICES ASSUME Typed, [Next]_vars PROVE Typed'
  OBVIOUS
<1>0. /\ Len(endpoints) \in Nat /\ Patience \in Nat \ {0} /\ MaxChanges \in Nat
      /\ patience \in 0..Patience /\ changes \in 0..MaxChanges
      /\ config \in Configs
  BY ConstantsAssumption DEF Typed, TypeOK, Configs
<1>1. CASE Start
  <2>1. /\ endpoints' \in Seq(Parsed \union {Unparsable})
        /\ endpoints' = MgmtAPIEndpoints(config)
    BY <1>0, <1>1, EndpointsOfConfig DEF Start
  <2>2. Len(endpoints') \in Nat
        /\ \A i \in 1..Len(endpoints') : endpoints'[i] \in Parsed \union {Unparsable}
    BY <2>1
  <2>3. /\ process' \in {"exited", "serving"} /\ (process' = "serving" => endpoints' # <<>>)
        /\ at = "idle" /\ turn = 1 /\ UNCHANGED <<config, world, review, steady>>
    BY <1>1 DEF Start, Typed, TypeOK
  <2>4. turn' \in 1..Len(endpoints') + 1 /\ at' = "idle" /\ turn' = 1
    BY <2>2, <2>3 DEF review
  <2> QED BY <2>1, <2>2, <2>3, <2>4 DEF Typed, TypeOK, world, review
<1>2. CASE Begin
  <2>1. steady' \subseteq Controllers /\ UNCHANGED <<agent, world>> /\ process = "serving"
    BY <1>2 DEF Begin
  <2>2. turn' = 1 /\ patience' \in 0..Patience /\ 1 <= Len(endpoints)
        /\ at' \in {"idle", "verify"} /\ (at' = "verify" => patience' > 0)
        /\ outcome' \in {None, "failed"}
    BY <1>0, <1>2 DEF Begin, Answer, Typed
  <2>3. turn' \in 1..Len(endpoints') + 1 /\ turn' <= Len(endpoints')
    BY <1>0, <2>1, <2>2 DEF agent
  <2> QED BY <2>1, <2>2, <2>3 DEF Typed, TypeOK, agent, world
<1>3. CASE TryUp
  BY <1>3 DEF TryUp, Typed, TypeOK, agent, world
<1>4. CASE TryDown
  <2>1. patience \in 1..Patience /\ at # "idle"
    BY <1>0, <1>4 DEF TryDown, Typed, TypeOK
  <2> QED BY <1>4, <2>1, TypedNextEndpoint DEF TryDown
<1>5. CASE TryHung
  <2>1. patience \in 1..Patience /\ at # "idle"
    BY <1>0, <1>5 DEF TryHung, Typed, TypeOK
  <2>2. CASE patience = 1
    BY <1>5, <2>2, TypedAnswer DEF TryHung
  <2>3. CASE patience # 1
    <3>1. patience - 1 \in 1..Patience
      BY <1>0, <2>1, <2>3
    <3> QED BY <1>5, <2>1, <2>3, <3>1, TypedNextEndpoint DEF TryHung
  <2> QED BY <2>2, <2>3
<1>6. CASE Handle
  BY <1>6, TypedAnswer DEF Handle
<1>7. ASSUME NEW c \in Controllers, Change(c) PROVE Typed'
  <2>1. changes' \in 0..MaxChanges /\ UNCHANGED <<agent, review>>
    BY <1>0, <1>7 DEF Change
  <2>2. state' \in [Controllers -> {"up", "down", "hung"}] /\ steady' \subseteq Controllers
    BY <1>7 DEF Change, Typed, TypeOK
  <2> QED BY <2>1, <2>2 DEF Typed, TypeOK, agent, review
<1>8. CASE Crash
  <2>1. /\ changes' \in 0..MaxChanges /\ process' = "down" /\ endpoints' = <<>>
        /\ UNCHANGED <<config, state, steady>>
    BY <1>0, <1>8 DEF Crash
  <2>2. at' = "idle" /\ turn' = 1 /\ patience' \in 0..Patience
        /\ outcome' \in {None, "admitted", "noClient", "failed", "timeout"}
    BY <1>0, <1>8 DEF Crash, Answer, review, Typed, TypeOK
  <2>3. /\ turn' \in 1..Len(endpoints') + 1
        /\ \A i \in 1..Len(endpoints') : endpoints'[i] \in Parsed \union {Unparsable}
    BY <2>1, <2>2
  <2> QED BY <2>1, <2>2, <2>3 DEF Typed, TypeOK
<1>9. CASE Restart
  <2>1. /\ process' = "down" /\ endpoints' = <<>>
        /\ UNCHANGED <<config, world, review, steady>> /\ at = "idle" /\ turn = 1
    BY <1>9 DEF Restart, Typed, TypeOK
  <2>2. /\ turn' \in 1..Len(endpoints') + 1 /\ turn' = 1 /\ at' = "idle"
        /\ \A i \in 1..Len(endpoints') : endpoints'[i] \in Parsed \union {Unparsable}
    BY <2>1 DEF review
  <2> QED BY <2>1, <2>2 DEF Typed, TypeOK, world, review
<1>10. CASE UNCHANGED vars
  BY <1>10 DEF vars, agent, world, review, Typed, TypeOK
<1> QED
  BY <1>1, <1>2, <1>3, <1>4, <1>5, <1>6, <1>7, <1>8, <1>9, <1>10 DEF Next, Review

\* Every variable has its type, and a review never runs past the last endpoint nor past
\* the patience of the API server.
THEOREM TypeCorrect == Spec => []TypeOK
<1>1. Typed => TypeOK
  BY DEF Typed
<1> QED BY <1>1, TypedInit, TypedStep, PTL DEF Spec

\* However long ztAPIs is: without an explicit endpoint an agent that serves can reach
\* exactly the controllers that the readable URLs of its identity name, that of ztAPI
\* first; with an explicit one it has that one (inferMgmtAPIEndpoints, config.go:182-222).
THEOREM EndpointsCompleteHolds == Spec => []EndpointsComplete
<1>1. ASSUME Typed, IInv PROVE EndpointsComplete
  <2> SUFFICES ASSUME process = "serving"
               PROVE  IF config.mgmt # None
                      THEN endpoints = <<config.mgmt>>
                      ELSE /\ Behind(endpoints) = Known(Named(config))
                           /\ config.ztAPI \notin {None, Unparsable} =>
                                  Contacted(endpoints[1]) = config.ztAPI.controller
    BY DEF EndpointsComplete, Behind, Known
  <2>1. endpoints = MgmtAPIEndpoints(config) /\ config \in Configs
    BY <1>1 DEF IInv, Configured, Inferred, Typed, TypeOK, Configs
  <2> QED BY <2>1, EndpointsOfConfig
<1> QED BY <1>1, TypedInit, TypedStep, Initially, Inductive, PTL DEF Spec

-----------------------------------------------------------------------------
(* One review is enough: the safety part of Admitted.                       *)

\* The endpoints before the i-th that hang, each of which costs one call.
HungBefore(i) == {j \in 1..i - 1 : StateOf(j) = "hung"}
Cost(i)       == Cardinality(HungBefore(i))

\* Where a review is that nobody disturbs: none of the endpoints that it has passed is up,
\* and it has lost patience only with those that hang.
OnItsWay ==
    /\ Reachable
    /\ at # "idle" => /\ \A j \in 1..turn - 1 : StateOf(j) # "up"
                     /\ patience + Cost(turn) = Patience
    /\ at \in {"authenticate", "handle"} => StateOf(turn) = "up"

EndsAdmitted == at # "idle" /\ at' = "idle" => outcome' = "admitted"

LEMMA CostOfTurn ==
  ASSUME NEW i \in Nat \ {0}
  PROVE  /\ Cost(i) \in Nat /\ Cost(1) = 0
         /\ Cost(i + 1) = IF StateOf(i) = "hung" THEN Cost(i) + 1 ELSE Cost(i)
<1>1. IsFiniteSet(1..i - 1) /\ HungBefore(i) \in SUBSET (1..i - 1)
  BY FS_Interval DEF HungBefore
<1>2. IsFiniteSet(HungBefore(i))
  BY <1>1, FS_Subset
<1>3. HungBefore(1) = {}
  BY DEF HungBefore
<1>4. 1..(i + 1) - 1 = (1..i - 1) \union {i} /\ i \notin 1..i - 1
  OBVIOUS
<1>5. /\ i \notin HungBefore(i)
      /\ HungBefore(i + 1) = IF StateOf(i) = "hung" THEN HungBefore(i) \union {i} ELSE HungBefore(i)
  BY <1>4 DEF HungBefore
<1>6. Cardinality(HungBefore(i) \union {i}) = Cardinality(HungBefore(i)) + 1
  BY <1>2, <1>5, FS_AddElement
<1>7. Cost(i) \in Nat /\ Cost(1) = 0
  BY <1>2, <1>3, FS_CardinalityType, FS_EmptySet DEF Cost
<1>8. Cost(i + 1) = IF StateOf(i) = "hung" THEN Cost(i) + 1 ELSE Cost(i)
  BY <1>5, <1>6 DEF Cost
<1> QED BY <1>7, <1>8

LEMMA CostGrows ==
  ASSUME NEW i \in Nat \ {0}, NEW k \in Nat, i < k, StateOf(i) = "hung"
  PROVE  Cost(i) + 1 <= Cost(k)
<1>1. HungBefore(i + 1) \in SUBSET HungBefore(k)
  BY DEF HungBefore
<1>2. IsFiniteSet(1..k - 1) /\ HungBefore(k) \in SUBSET (1..k - 1)
  BY FS_Interval DEF HungBefore
<1>3. Cost(i + 1) <= Cost(k)
  BY <1>1, <1>2, FS_Subset DEF Cost
<1> QED BY <1>3, CostOfTurn

\* The next endpoint is there, and patience for it.
LEMMA GoesOn ==
  ASSUME Typed, OnItsWay, at \in {"verify", "authenticate"}, StateOf(turn) # "up"
  PROVE  /\ turn \in 1..Len(endpoints) /\ turn # Len(endpoints)
         /\ StateOf(turn) = "hung" => patience # 1
<1>1. PICK i \in DOMAIN endpoints : StateOf(i) = "up" /\ Cost(i) < Patience
  BY DEF OnItsWay, Reachable, HungBefore, Cost
<1>2. /\ DOMAIN endpoints = 1..Len(endpoints) /\ Len(endpoints) \in Nat
      /\ turn \in 1..Len(endpoints) /\ patience \in Nat /\ Patience \in Nat
  BY ConstantsAssumption DEF Typed, TypeOK
<1>3. i \in Nat \ {0} /\ turn < i /\ i <= Len(endpoints)
  BY <1>1, <1>2 DEF OnItsWay
<1>4. turn # Len(endpoints)
  <2>1. turn \in Nat /\ Len(endpoints) \in Nat
    BY <1>2
  <2> QED BY <1>3, <2>1
<1>5. ASSUME StateOf(turn) = "hung" PROVE patience # 1
  <2>1. Cost(turn) + 1 <= Cost(i)
    BY <1>2, <1>3, <1>5, CostGrows
  <2>2. patience + Cost(turn) = Patience
    BY DEF OnItsWay
  <2>3. Cost(turn) \in Nat /\ Cost(i) \in Nat
    BY <1>2, <1>3, CostOfTurn
  <2> QED BY <1>1, <1>2, <2>1, <2>2, <2>3
<1> QED BY <1>2, <1>4, <1>5

LEMMA OnItsWayStep == Typed /\ OnItsWay /\ [Begin \/ Review]_vars => OnItsWay' /\ [EndsAdmitted]_vars
<1> SUFFICES ASSUME Typed, OnItsWay, [Begin \/ Review]_vars PROVE OnItsWay' /\ EndsAdmitted
  OBVIOUS
<1>1. UNCHANGED <<agent, world>>
  BY DEF Begin, Review, TryUp, TryDown, TryHung, Handle, vars
<1>2. \A i : (StateOf(i))' = StateOf(i)
  BY <1>1 DEF StateOf, agent, world
<1>3. Reachable'
  BY <1>1, <1>2 DEF OnItsWay, Reachable, agent, world
<1>4. (Cost(turn))' = Cost(turn')
  BY <1>2 DEF HungBefore, Cost
<1>5. /\ turn \in Nat \ {0} /\ patience \in Nat /\ Patience \in Nat
      /\ Cost(turn) \in Nat
  <2>1. turn \in Nat \ {0} /\ patience \in Nat /\ Patience \in Nat
    BY ConstantsAssumption DEF Typed, TypeOK
  <2> QED BY <2>1, CostOfTurn
<1>6. CASE Begin
  <2>1. at = "idle" /\ at' = "verify" /\ turn' = 1 /\ patience' = Patience
    BY <1>6 DEF Begin, OnItsWay, Reachable
  <2>2. (Cost(turn))' = 0
    BY <1>4, <1>5, <2>1, CostOfTurn
  <2> QED BY <1>3, <1>5, <2>1, <2>2 DEF OnItsWay, EndsAdmitted
<1>7. CASE TryUp
  <2>1. turn' = turn /\ patience' = patience /\ at' # "idle" /\ StateOf(turn) = "up" /\ at # "idle"
    BY <1>7 DEF TryUp
  <2> QED BY <1>2, <1>3, <1>4, <2>1 DEF OnItsWay, EndsAdmitted
<1>8. ASSUME NEW left \in Nat, NextEndpoint(left), turn # Len(endpoints), at # "idle",
             StateOf(turn) # "up",
             left = IF StateOf(turn) = "hung" THEN patience - 1 ELSE patience
      PROVE  OnItsWay' /\ EndsAdmitted
  <2>1. at' = "verify" /\ turn' = turn + 1 /\ patience' = left
    BY <1>8 DEF NextEndpoint
  <2>2. \A j \in 1..turn' - 1 : (StateOf(j))' # "up"
    BY <1>2, <1>5, <1>8, <2>1 DEF OnItsWay
  <2>3. Cost(turn + 1) = IF StateOf(turn) = "hung" THEN Cost(turn) + 1 ELSE Cost(turn)
    BY <1>5, CostOfTurn
  <2>4. patience + Cost(turn) = Patience
    BY <1>8 DEF OnItsWay
  <2>5. patience' + (Cost(turn))' = Patience
    BY <1>4, <1>5, <1>8, <2>1, <2>3, <2>4
  <2> QED BY <1>3, <2>1, <2>2, <2>5 DEF OnItsWay, EndsAdmitted
<1>9. CASE TryDown
  BY <1>5, <1>8, <1>9, GoesOn DEF TryDown
<1>10. CASE TryHung
  <2>1. patience # 1 /\ patience > 0
    BY <1>10, GoesOn DEF TryHung, Typed, TypeOK
  <2>2. patience - 1 \in Nat
    BY <1>5, <2>1
  <2> QED BY <1>8, <1>10, <2>1, <2>2, GoesOn DEF TryHung
<1>11. CASE Handle
  <2>1. at = "handle" /\ at' = "idle" /\ outcome' = "admitted"
    BY <1>11 DEF Handle, Answer, OnItsWay
  <2> QED BY <1>3, <2>1 DEF OnItsWay, EndsAdmitted
<1>12. CASE UNCHANGED vars
  <2>1. UNCHANGED <<at, turn, patience>>
    BY <1>12 DEF vars, review
  <2> QED BY <1>2, <1>3, <1>4, <2>1 DEF OnItsWay, EndsAdmitted
<1> QED BY <1>6, <1>7, <1>9, <1>10, <1>11, <1>12 DEF Review

\* Whatever happened before: as long as no controller changes and the agent lives, every
\* review is admitted if an endpoint can be reached, however many before it are down or hang
\* (createZitiClientWithFailover, webhook.go:177-221).  Admitted adds that reviews are made.
THEOREM OneReview ==
  Spec => [](at = "idle" /\ Reachable => ([][Begin \/ Review]_vars => [][EndsAdmitted]_vars))
<1>1. at = "idle" /\ Reachable => OnItsWay
  BY DEF OnItsWay
<1>2. Spec => []Typed
  BY TypedInit, TypedStep, PTL DEF Spec
<1> QED BY <1>1, <1>2, OnItsWayStep, PTL
=============================================================================
