---------------------- MODULE ControllerHandoff_proofs ----------------------
(***************************************************************************)
(* Proofs about ControllerHandoff for any number of ZitiControllers,        *)
(* tokens, consumers and objects, and any capacity of the channels.        *)
(***************************************************************************)
EXTENDS ControllerHandoff, SequenceTheorems, TLAPS

-----------------------------------------------------------------------------
(* What the two ends of a channel do to it.                                *)

LEMMA SpecNeverChanges == ASSUME NEW g PROVE ~SpecChanged(g, g)
BY DEF SpecChanged

\* Send puts the reference at the end of the channels that have room, the first time.
LEMMA SendIsOffer ==
  ASSUME TypeOK, Send
  PROVE  /\ chan' = [k \in Consumers |->
                       IF ~sent /\ Len(chan[k]) < Capacity
                       THEN Append(chan[k], Reference(got)) ELSE chan[k]]
         /\ got \in Readings /\ Reference(got) \in References
         /\ sent' = TRUE /\ at' = "idle" /\ got' = None
         /\ UNCHANGED <<user, crashes, ziti, secret, consumer>>
<1>1. at = "send"
  BY DEF Send
<1>2. got \in Readings
  BY <1>1 DEF TypeOK
<1>3. Reference(got) \in References
  BY <1>2 DEF Reference, References, Readings
<1> QED BY <1>2, <1>3, SpecNeverChanges DEF Send

LEMMA ChannelTail ==
  ASSUME NEW s \in Seq(References), s # <<>>
  PROVE  Head(s) \in References /\ Tail(s) \in Seq(References) /\ Len(Tail(s)) <= Len(s)
OBVIOUS

LEMMA ChannelAppend ==
  ASSUME NEW s \in Seq(References), NEW r \in References
  PROVE  /\ Append(s, r) \in Seq(References) /\ Append(s, r) # <<>>
         /\ Len(Append(s, r)) = Len(s) + 1
BY AppendProperties

\* What a consumer is about to tell its object.
Told(k) == IF chan[k] # <<>> THEN Head(chan[k]) ELSE cached[k]

LEMMA ToldType ==
  ASSUME TypeOK, NEW k \in Consumers
  PROVE  /\ Told(k) \in References \union {None}
         /\ chan[k] # <<>> => Told(k) \in References /\ Told(k) # None
         /\ (IF chan[k] = <<>> THEN chan[k] ELSE Tail(chan[k])) \in Seq(References)
         /\ Len(IF chan[k] = <<>> THEN chan[k] ELSE Tail(chan[k])) <= Capacity
<1>1. chan[k] \in Seq(References) /\ Len(chan[k]) <= Capacity /\ Capacity \in Nat
      /\ cached[k] \in References \union {None}
  BY ConstantsAssumption DEF TypeOK
<1>2. CASE chan[k] = <<>>
  BY <1>1, <1>2 DEF Told
<1>3. CASE chan[k] # <<>>
  <2>1. Head(chan[k]) \in References /\ Tail(chan[k]) \in Seq(References)
        /\ Len(Tail(chan[k])) <= Len(chan[k])
    BY <1>1, <1>3, ChannelTail
  <2>2. Len(Tail(chan[k])) \in Nat /\ Len(chan[k]) \in Nat
    BY <1>1, <2>1
  <2> QED BY <1>1, <1>3, <2>1, <2>2, NoneAssumption DEF Told
<1> QED BY <1>2, <1>3

-----------------------------------------------------------------------------
(* Type correctness.                                                       *)

\* The channels at the start, and after a crash.
LEMMA EmptyChannels ==
  ASSUME NEW channels, channels = [k \in Consumers |-> <<>>]
  PROVE  /\ channels \in [Consumers -> Seq(References)]
         /\ \A k \in Consumers : Len(channels[k]) <= Capacity
<1>1. <<>> \in Seq(References)
  OBVIOUS
<1>2. Len(<<>>) <= Capacity
  BY ConstantsAssumption
<1> QED BY <1>1, <1>2

LEMMA TypeInit == Init => TypeOK
<1> SUFFICES ASSUME Init PROVE TypeOK
  OBVIOUS
<1>1. MaxChanges \in Nat /\ MaxCrashes \in Nat /\ Capacity \in Nat \ {0}
  BY ConstantsAssumption
<1>2. /\ chan \in [Consumers -> Seq(References)]
      /\ \A k \in Consumers : Len(chan[k]) <= Capacity
  BY EmptyChannels DEF Init
<1>3. 0 \in 0..MaxChanges /\ 0 \in 0..MaxCrashes
  BY <1>1
<1>4. /\ ctl \in [Controllers -> ZitiControllers \union {None}]
      /\ cr \in [Consumers -> [Objects -> ConsumerObjects \union {None}]]
      /\ secret \in [Controllers -> Secrets \union {None}]
      /\ cached \in [Consumers -> References \union {None}]
      /\ pending \in [Consumers -> [object : Objects, read : ConsumerObjects,
                                    write : ConsumerObjects] \union {None}]
  BY DEF Init
<1> QED BY <1>2, <1>3, <1>4 DEF Init, TypeOK

LEMMA TypeStep == TypeOK /\ [Next]_vars => TypeOK'
<1> SUFFICES ASSUME TypeOK, [Next]_vars PROVE TypeOK'
  OBVIOUS
<1> USE DEF user, ziti, producer, consumer
<1>0. MaxChanges \in Nat /\ MaxCrashes \in Nat /\ changes \in 0..MaxChanges
  BY ConstantsAssumption DEF TypeOK
<1>1. CASE UNCHANGED vars
  BY <1>1 DEF vars, TypeOK
<1>2. ASSUME NEW c \in Controllers, NEW t \in Tokens, ApplyController(c, t) PROVE TypeOK'
  <2>1. changes + 1 \in 1..MaxChanges /\ changes' = changes + 1
    BY <1>0, <1>2 DEF ApplyController, Change
  <2>2. [uid |-> IF ctl[c] = None THEN changes + 1 ELSE ctl[c].uid, token |-> t]
           \in ZitiControllers
    BY <2>1 DEF TypeOK, ZitiControllers
  <2>3. ctl' \in [Controllers -> ZitiControllers \union {None}]
    BY <1>2, <2>2 DEF ApplyController, TypeOK
  <2> QED BY <1>0, <1>2, <2>1, <2>3 DEF ApplyController, Change, TypeOK
<1>3. ASSUME NEW c \in Controllers, DeleteController(c) PROVE TypeOK'
  <2>1. changes' \in 0..MaxChanges
    BY <1>0, <1>3 DEF DeleteController, Change
  <2> QED BY <1>3, <2>1 DEF DeleteController, Change, TypeOK
<1>4. ASSUME NEW c \in Controllers, ExpireCertificate(c) \/ Collect(c) PROVE TypeOK'
  <2>1. secret[c] \in Secrets
    BY <1>4 DEF ExpireCertificate, Collect, TypeOK
  <2>2. [secret[c] EXCEPT !.expired = TRUE] \in Secrets
    BY <2>1 DEF Secrets
  <2>3. secret' = [secret EXCEPT ![c] = [secret[c] EXCEPT !.expired = TRUE]]
        \/ secret' = [secret EXCEPT ![c] = None]
    BY <1>4 DEF ExpireCertificate, Collect
  <2>4. secret' \in [Controllers -> Secrets \union {None}]
    BY <2>2, <2>3 DEF TypeOK
  <2> QED BY <1>4, <2>4 DEF ExpireCertificate, Collect, TypeOK
<1>5. ASSUME NEW k \in Consumers, NEW o \in Objects, ApplyObject(k, o) \/ DeleteObject(k, o)
      PROVE  TypeOK'
  <2>1. changes' \in 0..MaxChanges
    BY <1>0, <1>5 DEF ApplyObject, DeleteObject, Change
  <2>2. cr[k][o] \in ConsumerObjects \union {None}
    BY DEF TypeOK
  <2>3. [ref |-> IF cr[k][o] = None THEN None ELSE cr[k][o].ref, merged |-> FALSE]
           \in ConsumerObjects
    BY <2>2 DEF ConsumerObjects
  <2>4. PICK new \in ConsumerObjects \union {None} : cr' = [cr EXCEPT ![k][o] = new]
    BY <1>5, <2>3 DEF ApplyObject, DeleteObject
  <2>5. cr' \in [Consumers -> [Objects -> ConsumerObjects \union {None}]]
    BY <2>4 DEF TypeOK
  <2> QED BY <1>5, <2>1, <2>5 DEF ApplyObject, DeleteObject, Change, TypeOK
<1>6. ASSUME NEW t \in Tokens, ExpireToken(t) PROVE TypeOK'
  BY <1>6 DEF ExpireToken, TypeOK
<1>7. CASE Crash
  <2>1. /\ chan' \in [Consumers -> Seq(References)]
        /\ \A k \in Consumers : Len(chan'[k]) <= Capacity
    BY <1>7, EmptyChannels DEF Crash
  <2>2. crashes' \in 0..MaxCrashes
    BY <1>0, <1>7 DEF Crash, TypeOK
  <2> QED BY <1>7, <2>1, <2>2 DEF Crash, TypeOK
<1>8. CASE ProducerStep
  <2> USE DEF Goto, Rest
  <2>1. ASSUME NEW c \in Controllers, Begin(c) PROVE TypeOK'
    <3>1. ctl[c] \in ZitiControllers
      BY <2>1 DEF Begin, TypeOK
    <3>2. got' \in Readings /\ got' # None
      BY <2>1, <3>1, NoneAssumption DEF Begin, ZitiControllers, Readings
    <3> QED BY <2>1, <3>2 DEF Begin, TypeOK
  <2>2. CASE Check \/ CheckFails
    BY <2>2 DEF Check, CheckFails, TypeOK
  <2>3. CASE Enroll
    <3>1. got \in Readings
      BY <2>3 DEF Enroll, TypeOK
    <3>2. got.token \in Tokens
      BY <3>1 DEF Readings
    <3> QED BY <2>3, <3>2 DEF Enroll, TypeOK
  <2>4. CASE Persist
    <3>1. got \in Readings
      BY <2>4 DEF Persist, TypeOK
    <3>2. [owner |-> got.uid, expired |-> FALSE] \in Secrets /\ got.name \in Controllers
      BY <3>1 DEF Readings, Secrets
    <3> QED BY <2>4, <3>2 DEF Persist, TypeOK
  <2>5. CASE Send
    <3>1. \A k \in Consumers : chan'[k] \in Seq(References) /\ Len(chan'[k]) <= Capacity
      <4> SUFFICES ASSUME NEW k \in Consumers
                   PROVE  chan'[k] \in Seq(References) /\ Len(chan'[k]) <= Capacity
        OBVIOUS
      <4>1. chan[k] \in Seq(References) /\ Len(chan[k]) <= Capacity /\ Capacity \in Nat
        BY ConstantsAssumption DEF TypeOK
      <4>2. Len(chan[k]) \in Nat
        BY <4>1
      <4>3. CASE ~sent /\ Len(chan[k]) < Capacity
        <5> DEFINE new == Append(chan[k], Reference(got))
        <5>1. new \in Seq(References) /\ Len(new) = Len(chan[k]) + 1
          BY <2>5, <4>1, SendIsOffer, ChannelAppend
        <5>2. chan'[k] = new
          BY <2>5, <4>3, SendIsOffer
        <5>3. Len(new) <= Capacity
          BY <4>1, <4>2, <4>3, <5>1
        <5> QED BY <5>1, <5>2, <5>3
      <4>4. CASE ~(~sent /\ Len(chan[k]) < Capacity)
        BY <2>5, <4>1, <4>4, SendIsOffer
      <4> QED BY <4>3, <4>4
    <3>2. chan' \in [Consumers -> Seq(References)]
      BY <2>5, <3>1, SendIsOffer
    <3> QED BY <2>5, <3>1, <3>2, SendIsOffer DEF TypeOK
  <2>6. CASE Abort
    BY <2>6 DEF Abort, TypeOK
  <2> QED BY <1>8, <2>1, <2>2, <2>3, <2>4, <2>5, <2>6 DEF ProducerStep, Proceed
<1>9. ASSUME NEW k \in Consumers, ConsumerStep(k) PROVE TypeOK'
  <2>1. ASSUME NEW o \in Objects, Merge(k, o) PROVE TypeOK'
    <3>1. cr[k][o] \in ConsumerObjects
      BY <2>1 DEF Merge, TypeOK
    <3>2. /\ chan' = [chan EXCEPT ![k] = IF chan[k] = <<>> THEN chan[k] ELSE Tail(chan[k])]
          /\ cached' = [cached EXCEPT ![k] = Told(k)]
          /\ pending' = [pending EXCEPT ![k] =
                [object |-> o, read |-> cr[k][o],
                 write |-> [ref |-> IF Told(k) = None THEN cr[k][o].ref ELSE Told(k),
                            merged |-> TRUE]]]
          /\ UNCHANGED <<user, crashes, ziti, secret, producer>>
      BY <2>1 DEF Merge, Told
    <3>3. [ref |-> IF Told(k) = None THEN cr[k][o].ref ELSE Told(k), merged |-> TRUE]
             \in ConsumerObjects
      BY <3>1, ToldType DEF ConsumerObjects
    <3>4. /\ chan' \in [Consumers -> Seq(References)]
          /\ \A j \in Consumers : Len(chan'[j]) <= Capacity
          /\ cached' \in [Consumers -> References \union {None}]
      BY <3>2, ToldType DEF TypeOK
    <3>5. pending' \in [Consumers -> [object : Objects, read : ConsumerObjects,
                                       write : ConsumerObjects] \union {None}]
      BY <3>1, <3>2, <3>3 DEF TypeOK
    <3> QED BY <3>2, <3>4, <3>5 DEF TypeOK
  <2>2. CASE Store(k)
    <3>1. /\ pending[k].object \in Objects /\ pending[k].write \in ConsumerObjects
      BY <2>2 DEF Store, TypeOK
    <3> QED BY <2>2, <3>1 DEF Store, TypeOK
  <2>3. CASE StoreFails(k)
    BY <2>3 DEF StoreFails, TypeOK
  <2> QED BY <1>9, <2>1, <2>2, <2>3 DEF ConsumerStep
<1> QED BY <1>1, <1>2, <1>3, <1>4, <1>5, <1>6, <1>7, <1>8, <1>9 DEF Next

\* Whatever users, time, failures and restarts do, every variable has its type, and no
\* channel ever holds more than its capacity.
THEOREM TypeCorrect == Spec => []TypeOK
BY TypeInit, TypeStep, PTL DEF Spec

-----------------------------------------------------------------------------
(* Nothing that was handed over is lost.                                   *)

LEMMA KeptStep == TypeOK /\ HandoffKept /\ [Next]_vars => HandoffKept'
<1> SUFFICES ASSUME TypeOK, HandoffKept, [Next]_vars PROVE HandoffKept'
  OBVIOUS
<1> USE DEF user, ziti, producer, consumer
<1>1. ASSUME UNCHANGED <<sent, chan, cached>> PROVE HandoffKept'
  BY <1>1 DEF HandoffKept
<1>2. CASE UNCHANGED vars
  BY <1>1, <1>2 DEF vars
<1>3. ASSUME NEW c \in Controllers, NEW t \in Tokens, ApplyController(c, t) PROVE HandoffKept'
  BY <1>1, <1>3 DEF ApplyController, Change
<1>4. ASSUME NEW c \in Controllers, DeleteController(c) \/ ExpireCertificate(c) \/ Collect(c)
      PROVE  HandoffKept'
  BY <1>1, <1>4 DEF DeleteController, Change, ExpireCertificate, Collect
<1>5. ASSUME NEW k \in Consumers, NEW o \in Objects, ApplyObject(k, o) \/ DeleteObject(k, o)
      PROVE  HandoffKept'
  BY <1>1, <1>5 DEF ApplyObject, DeleteObject, Change
<1>6. ASSUME NEW t \in Tokens, ExpireToken(t) PROVE HandoffKept'
  BY <1>1, <1>6 DEF ExpireToken
<1>7. CASE Crash
  BY <1>7 DEF Crash, HandoffKept
<1>8. CASE ProducerStep
  <2>1. CASE Send
    <3> SUFFICES ASSUME NEW k \in Consumers PROVE chan'[k] # <<>> \/ cached'[k] # None
      BY DEF HandoffKept
    <3>1. chan[k] \in Seq(References) /\ Len(chan[k]) <= Capacity /\ Capacity \in Nat \ {0}
      BY ConstantsAssumption DEF TypeOK
    <3>2. CASE sent
      BY <2>1, <3>2, SendIsOffer DEF HandoffKept
    <3>3. CASE ~sent /\ Len(chan[k]) < Capacity
      BY <2>1, <3>1, <3>3, SendIsOffer, ChannelAppend
    <3>4. CASE ~sent /\ ~(Len(chan[k]) < Capacity)
      <4>1. chan[k] # <<>>
        BY <3>1, <3>4
      <4> QED BY <2>1, <3>4, <4>1, SendIsOffer
    <3> QED BY <3>2, <3>3, <3>4
  <2>2. CASE ~Send
    BY <1>1, <1>8, <2>2
       DEF ProducerStep, Proceed, CheckFails, Begin, Check, Enroll, Persist, Abort, Goto, Rest
  <2> QED BY <2>1, <2>2
<1>9. ASSUME NEW k \in Consumers, ConsumerStep(k) PROVE HandoffKept'
  <2>1. ASSUME NEW o \in Objects, Merge(k, o) PROVE HandoffKept'
    <3> SUFFICES ASSUME sent, NEW j \in Consumers PROVE chan'[j] # <<>> \/ cached'[j] # None
      BY <2>1 DEF HandoffKept, Merge
    <3>1. cached' = [cached EXCEPT ![k] = Told(k)]
      BY <2>1 DEF Merge, Told
    <3>2. CASE j = k
      <4>1. Told(k) # None
        BY ToldType, <3>2 DEF HandoffKept, Told
      <4> QED BY <3>1, <3>2, <4>1 DEF TypeOK
    <3>3. CASE j # k
      <4>1. chan'[j] = chan[j] /\ cached'[j] = cached[j]
        BY <2>1, <3>1, <3>3 DEF Merge, TypeOK
      <4> QED BY <4>1 DEF HandoffKept
    <3> QED BY <3>2, <3>3
  <2>2. CASE Store(k) \/ StoreFails(k)
    BY <1>1, <2>2 DEF Store, StoreFails
  <2> QED BY <1>9, <2>1, <2>2 DEF ConsumerStep
<1> QED BY <1>2, <1>3, <1>4, <1>5, <1>6, <1>7, <1>8, <1>9 DEF Next

\* Once a ZitiController has been handed over, each of the other reconcilers has it in
\* its channel or its cache for as long as the operator lives.
THEOREM HandoffKeptHolds == Spec => []HandoffKept
<1>1. Init => HandoffKept
  BY DEF Init, HandoffKept
<1> QED BY <1>1, TypeCorrect, KeptStep, PTL DEF Spec

-----------------------------------------------------------------------------
(* What enrollment tokens are spent for.                                   *)

\* What Check found of the Secret is still so when the token is spent: the worker is
\* the only one that makes or renews Secrets.
Needed ==
    /\ at = "create" => secret[got.name] = None
    /\ at = "update" => secret[got.name] = None \/ secret[got.name].expired

LEMMA NeededStep == TypeOK /\ Needed /\ [Next]_vars => Needed'
<1> SUFFICES ASSUME TypeOK, Needed, [Next]_vars PROVE Needed'
  OBVIOUS
<1> USE DEF user, ziti, producer, consumer
<1>1. ASSUME UNCHANGED <<at, got, secret>> PROVE Needed'
  BY <1>1 DEF Needed
<1>2. CASE UNCHANGED vars
  BY <1>1, <1>2 DEF vars
<1>3. ASSUME NEW c \in Controllers, NEW t \in Tokens, ApplyController(c, t) PROVE Needed'
  BY <1>1, <1>3 DEF ApplyController, Change
<1>4. ASSUME NEW c \in Controllers, DeleteController(c) PROVE Needed'
  BY <1>1, <1>4 DEF DeleteController, Change
<1>5. ASSUME NEW c \in Controllers, ExpireCertificate(c) \/ Collect(c) PROVE Needed'
  <2>1. UNCHANGED <<at, got>> /\ secret[c] # None
    BY <1>5 DEF ExpireCertificate, Collect
  <2>2. at \in {"create", "update"} => got.name \in Controllers
    BY DEF TypeOK, Readings
  <2>3. secret[c] \in Secrets
    BY <2>1 DEF TypeOK
  <2>4. PICK new : secret' = [secret EXCEPT ![c] = new] /\ (new = None \/ new.expired)
    BY <1>5, <2>3 DEF ExpireCertificate, Collect, Secrets
  <2>5. ASSUME NEW d \in Controllers, d # c PROVE secret'[d] = secret[d]
    BY <2>4, <2>5 DEF TypeOK
  <2>6. secret'[c] = None \/ secret'[c].expired
    BY <2>4 DEF TypeOK
  <2> QED BY <2>1, <2>2, <2>5, <2>6 DEF Needed
<1>6. ASSUME NEW k \in Consumers, NEW o \in Objects, ApplyObject(k, o) \/ DeleteObject(k, o)
      PROVE  Needed'
  BY <1>1, <1>6 DEF ApplyObject, DeleteObject, Change
<1>7. ASSUME NEW t \in Tokens, ExpireToken(t) PROVE Needed'
  BY <1>1, <1>7 DEF ExpireToken
<1>8. CASE Crash
  BY <1>8 DEF Crash, Needed
<1>9. CASE ProducerStep
  <2>1. CASE Check
    BY <2>1 DEF Check, Renew, Goto, Needed
  <2>2. CASE ~Check
    <3>1. at' \notin {"create", "update"}
      BY <1>9, <2>2
         DEF ProducerStep, Proceed, CheckFails, Begin, Enroll, Persist, Send, Abort, Goto, Rest
    <3> QED BY <3>1 DEF Needed
  <2> QED BY <2>1, <2>2
<1>10. ASSUME NEW k \in Consumers, ConsumerStep(k) PROVE Needed'
  BY <1>1, <1>10 DEF ConsumerStep, Merge, Store, StoreFails
<1> QED BY <1>2, <1>3, <1>4, <1>5, <1>6, <1>7, <1>8, <1>9, <1>10 DEF Next

\* The one step that spends a token.
LEMMA SpendStep ==
  TypeOK /\ Needed /\ [Next]_vars
    => [spent' # spent => secret[got.name] = None \/ secret[got.name].expired]_vars
<1> SUFFICES ASSUME TypeOK, Needed, Next, spent' # spent
             PROVE  secret[got.name] = None \/ secret[got.name].expired
  OBVIOUS
<1>1. Enroll
  BY DEF Next, ApplyController, DeleteController, ExpireCertificate, Collect, Change,
         ApplyObject, DeleteObject, ExpireToken, Crash, ProducerStep, Proceed, CheckFails, Begin, Check,
         Persist, Send, Abort, ConsumerStep, Merge, Store, StoreFails,
         user, ziti, producer, consumer
<1> QED BY <1>1 DEF Enroll, Needed

\* A one-time token is only given away when there is no working Secret: what Check saw
\* is not outdated by the time of the enrollment.
THEOREM TokenSpentForNeedHolds == Spec => TokenSpentForNeed
<1>1. Init => Needed
  BY DEF Init, Needed
<1> QED BY <1>1, TypeCorrect, NeededStep, SpendStep, PTL DEF Spec, TokenSpentForNeed

-----------------------------------------------------------------------------
(* One controller for all objects.                                         *)

\* All that consumers have before them, remember, are about to write or have written
\* is in R, and no channel holds more than one reference.
Only(R) ==
    \A k \in Consumers :
        /\ chan[k] = <<>> \/ \E r \in R : chan[k] = <<r>>
        /\ cached[k] \in R \union {None}
        /\ pending[k] # None => /\ pending[k].read.ref \in R \union {None}
                                /\ pending[k].write.ref \in R \union {None}
        /\ \A o \in Objects : cr[k][o] # None => cr[k][o].ref \in R \union {None}

\* Nothing is told before the first ZitiController is handed over, and nothing else
\* after it, until the operator dies.
FirstOnly ==
    crashes = 0 => IF sent THEN \E r \in References : Only({r}) ELSE Only({})

\* What users do to an object does not tell it anything.
LEMMA UsersTellNothing ==
  ASSUME TypeOK, NEW R \in SUBSET References, Only(R),
         NEW k \in Consumers, NEW o \in Objects, ApplyObject(k, o) \/ DeleteObject(k, o)
  PROVE  Only(R)'
<1> USE DEF user, ziti, producer, consumer
<1>1. UNCHANGED <<chan, cached, pending>>
  BY DEF ApplyObject, DeleteObject, Change
<1>2. PICK new : /\ cr' = [cr EXCEPT ![k][o] = new]
                 /\ new # None => new.ref \in R \union {None}
  <2>1. CASE ApplyObject(k, o)
    <3> DEFINE new == [ref |-> IF cr[k][o] = None THEN None ELSE cr[k][o].ref, merged |-> FALSE]
    <3>1. cr' = [cr EXCEPT ![k][o] = new]
      BY <2>1 DEF ApplyObject
    <3>2. new.ref \in R \union {None}
      BY DEF Only
    <3> QED BY <3>1, <3>2
  <2>2. CASE DeleteObject(k, o)
    BY <2>2 DEF DeleteObject
  <2> QED BY <2>1, <2>2
<1>3. ASSUME NEW j \in Consumers, NEW p \in Objects, cr'[j][p] # None
      PROVE  cr'[j][p].ref \in R \union {None}
  <2>1. cr'[j][p] = new \/ cr'[j][p] = cr[j][p]
    BY <1>2 DEF TypeOK
  <2> QED BY <1>2, <1>3, <2>1 DEF Only
<1> QED BY <1>1, <1>3 DEF Only

\* A consumer takes from its channel what it tells its object and remembers.
LEMMA MergeTellsOnly ==
  ASSUME TypeOK, NEW R \in SUBSET References, Only(R),
         NEW k \in Consumers, NEW o \in Objects, Merge(k, o)
  PROVE  Only(R)'
<1> USE DEF user
<1>1. /\ chan' = [chan EXCEPT ![k] = IF chan[k] = <<>> THEN chan[k] ELSE Tail(chan[k])]
      /\ cached' = [cached EXCEPT ![k] = Told(k)]
      /\ pending' = [pending EXCEPT ![k] =
            [object |-> o, read |-> cr[k][o],
             write |-> [ref |-> IF Told(k) = None THEN cr[k][o].ref ELSE Told(k),
                        merged |-> TRUE]]]
      /\ cr' = cr /\ cr[k][o] # None
  BY DEF Merge, Told
<1>2. Told(k) \in R \union {None}
      /\ (IF chan[k] = <<>> THEN chan[k] ELSE Tail(chan[k])) = <<>>
  <2>1. CASE chan[k] = <<>>
    BY <2>1 DEF Only, Told
  <2>2. CASE chan[k] # <<>>
    <3>1. PICK r \in R : chan[k] = <<r>>
      BY <2>2 DEF Only
    <3>2. Head(<<r>>) = r /\ Tail(<<r>>) = <<>> /\ <<r>> # <<>>
      OBVIOUS
    <3> QED BY <3>1, <3>2 DEF Told
  <2> QED BY <2>1, <2>2
<1>3. cr[k][o].ref \in R \union {None}
  BY <1>1 DEF Only
<1>4. ASSUME NEW j \in Consumers
      PROVE  /\ chan'[j] = <<>> \/ \E r \in R : chan'[j] = <<r>>
             /\ cached'[j] \in R \union {None}
  BY <1>1, <1>2 DEF Only, TypeOK
<1>5. ASSUME NEW j \in Consumers, pending'[j] # None
      PROVE  /\ pending'[j].read.ref \in R \union {None}
             /\ pending'[j].write.ref \in R \union {None}
  <2>1. CASE j # k
    BY <1>1, <1>5, <2>1 DEF Only, TypeOK
  <2>2. CASE j = k
    <3>1. pending'[j].read = cr[k][o]
          /\ pending'[j].write.ref = IF Told(k) = None THEN cr[k][o].ref ELSE Told(k)
      BY <1>1, <2>2 DEF TypeOK
    <3> QED BY <1>2, <1>3, <3>1
  <2> QED BY <2>1, <2>2
<1> QED BY <1>1, <1>4, <1>5 DEF Only

LEMMA StoreTellsOnly ==
  ASSUME TypeOK, NEW R \in SUBSET References, Only(R),
         NEW k \in Consumers, Store(k) \/ StoreFails(k)
  PROVE  Only(R)'
<1> USE DEF user, producer
<1>1. pending' = [pending EXCEPT ![k] = None] /\ UNCHANGED <<chan, cached>> /\ pending[k] # None
  BY DEF Store, StoreFails
<1>2. cr' = cr \/ cr' = [cr EXCEPT ![k][pending[k].object] = pending[k].write]
  BY DEF Store, StoreFails
<1>3. pending[k].object \in Objects /\ pending[k].write.ref \in R \union {None}
  BY <1>1 DEF TypeOK, Only
<1>4. ASSUME NEW j \in Consumers, NEW o \in Objects, cr'[j][o] # None
      PROVE  cr'[j][o].ref \in R \union {None}
  <2>1. cr'[j][o] = cr[j][o] \/ cr'[j][o] = pending[k].write
    <3> DEFINE p == pending[k].object
               w == pending[k].write
    <3>1. p \in Objects /\ (cr' = cr \/ cr' = [cr EXCEPT ![k][p] = w])
      BY <1>2, <1>3
    <3> HIDE DEF p, w
    <3>2. cr \in [Consumers -> [Objects -> ConsumerObjects \union {None}]]
      BY DEF TypeOK
    <3>3. ASSUME cr' = [cr EXCEPT ![k][p] = w]
          PROVE  cr'[j][o] = cr[j][o] \/ cr'[j][o] = w
      <4>1. CASE j = k
        BY <3>1, <3>2, <3>3, <4>1
      <4>2. CASE j # k
        BY <3>2, <3>3, <4>2
      <4> QED BY <4>1, <4>2
    <3>4. cr'[j][o] = cr[j][o] \/ cr'[j][o] = w
      BY <3>1, <3>3
    <3> QED BY <3>4 DEF w
  <2> QED BY <1>3, <1>4, <2>1 DEF Only
<1>5. ASSUME NEW j \in Consumers, pending'[j] # None
      PROVE  pending'[j] = pending[j]
  BY <1>1, <1>5 DEF TypeOK
<1> QED BY <1>1, <1>4, <1>5 DEF Only

LEMMA FirstOnlyStep == TypeOK /\ FirstOnly /\ [Next]_vars => FirstOnly'
<1> SUFFICES ASSUME TypeOK, FirstOnly, [Next]_vars, crashes' = 0
             PROVE  IF sent' THEN \E r \in References : Only({r})' ELSE Only({})'
  BY DEF FirstOnly
<1> USE DEF user, ziti, producer, consumer
<1>1. ~Crash /\ crashes = 0
  <2>1. crashes \in Nat
    BY ConstantsAssumption DEF TypeOK
  <2>2. ~Crash
    BY <2>1 DEF Crash
  <2> QED BY <2>2 DEF vars, Next, ApplyController, DeleteController, ExpireCertificate, Collect,
       Change, ApplyObject, DeleteObject, ExpireToken, ProducerStep, Proceed, CheckFails, Begin,
       Check, Enroll, Persist, Send, Abort, ConsumerStep, Merge, Store, StoreFails
<1>2. IF sent THEN \E r \in References : Only({r}) ELSE Only({})
  BY <1>1 DEF FirstOnly
<1>3. PICK R \in SUBSET References :
        /\ Only(R)
        /\ IF sent THEN \E r \in References : R = {r} ELSE R = {}
  BY <1>2
<1>4. SUFFICES (sent' = sent /\ Only(R)') \/ Send
  <2>1. ASSUME sent' = sent, Only(R)'
        PROVE  IF sent' THEN \E r \in References : Only({r})' ELSE Only({})'
    BY <1>3, <2>1
  <2>2. ASSUME Send
        PROVE  IF sent' THEN \E r \in References : Only({r})' ELSE Only({})'
    <3>1. sent' /\ UNCHANGED <<cr, cached, pending>> /\ Reference(got) \in References
      BY <2>2, SendIsOffer
    <3>2. CASE sent
      <4>1. PICK r \in References : R = {r}
        BY <1>3, <3>2
      <4>2. chan' = [k \in Consumers |-> chan[k]]
        BY <2>2, <3>2, SendIsOffer
      <4>3. Only({r})'
        BY <1>3, <3>1, <4>1, <4>2 DEF Only
      <4> QED BY <3>1, <4>3
    <3>3. CASE ~sent
      <4>1. PICK r \in References : r = Reference(got)
        BY <3>1
      <4>2. ASSUME NEW k \in Consumers
            PROVE  chan'[k] = <<r>> /\ cached[k] = None
        <5>1. chan[k] = <<>> /\ cached[k] = None
          BY <1>3, <3>3 DEF Only
        <5>2. Len(<<>>) < Capacity /\ Append(<<>>, r) = <<r>>
          BY ConstantsAssumption
        <5> QED BY <2>2, <3>3, <4>1, <5>1, <5>2, SendIsOffer
      <4>3. Only({r})'
        BY <1>3, <3>1, <3>3, <4>2 DEF Only
      <4> QED BY <3>1, <4>3
    <3> QED BY <3>2, <3>3
  <2> QED BY <1>4, <2>1, <2>2
<1>5. ASSUME UNCHANGED <<sent, chan, cached, pending, cr>> PROVE sent' = sent /\ Only(R)'
  BY <1>3, <1>5 DEF Only
<1>6. CASE UNCHANGED vars
  BY <1>5, <1>6 DEF vars
<1>7. ASSUME NEW c \in Controllers, NEW t \in Tokens, ApplyController(c, t)
      PROVE  sent' = sent /\ Only(R)'
  BY <1>5, <1>7 DEF ApplyController, Change
<1>8. ASSUME NEW c \in Controllers, DeleteController(c) \/ ExpireCertificate(c) \/ Collect(c)
      PROVE  sent' = sent /\ Only(R)'
  BY <1>5, <1>8 DEF DeleteController, Change, ExpireCertificate, Collect
<1>9. ASSUME NEW k \in Consumers, NEW o \in Objects, ApplyObject(k, o) \/ DeleteObject(k, o)
      PROVE  sent' = sent /\ Only(R)'
  <2>1. sent' = sent
    BY <1>9 DEF ApplyObject, DeleteObject, Change
  <2>2. Only(R)'
    BY <1>3, <1>9, UsersTellNothing
  <2> QED BY <2>1, <2>2
<1>10. ASSUME NEW t \in Tokens, ExpireToken(t) PROVE sent' = sent /\ Only(R)'
  BY <1>5, <1>10 DEF ExpireToken
<1>11. CASE ProducerStep /\ ~Send
  BY <1>5, <1>11
     DEF ProducerStep, Proceed, CheckFails, Begin, Check, Enroll, Persist, Abort, Goto, Rest
<1>12. ASSUME NEW k \in Consumers, ConsumerStep(k) PROVE sent' = sent /\ Only(R)'
  <2>1. sent' = sent
    BY <1>12 DEF ConsumerStep, Merge, Store, StoreFails
  <2>2. ASSUME NEW o \in Objects, Merge(k, o) PROVE Only(R)'
    BY <1>3, <2>2, MergeTellsOnly
  <2>3. ASSUME Store(k) \/ StoreFails(k) PROVE Only(R)'
    BY <1>3, <2>3, StoreTellsOnly
  <2> QED BY <1>12, <2>1, <2>2, <2>3 DEF ConsumerStep
<1> QED BY <1>1, <1>6, <1>7, <1>8, <1>9, <1>10, <1>11, <1>12 DEF Next

\* As long as the operator lives, no two objects of either kind name different
\* ZitiControllers or different tokens, however many there are of them and in whichever
\* order they are created, edited and reconciled.
THEOREM OneControllerHolds == Spec => []OneController
<1>1. Init => FirstOnly
  BY DEF Init, FirstOnly, Only
<1>2. FirstOnly => OneController
  <2> SUFFICES ASSUME FirstOnly, crashes = 0 PROVE OneController
    BY DEF OneController
  <2>0. FirstOnly /\ crashes = 0
    OBVIOUS
  <2>1. PICK R \in SUBSET References :
          Only(R) /\ \A r1, r2 \in R : r1 = r2
    <3>1. CASE sent
      <4>1. PICK r \in References : Only({r})
        BY <2>0, <3>1 DEF FirstOnly
      <4> QED BY <4>1
    <3>2. CASE ~sent
      BY <2>0, <3>2 DEF FirstOnly
    <3> QED BY <3>1, <3>2
  <2> QED BY <2>1 DEF Only, OneController
<1> QED BY <1>1, <1>2, TypeCorrect, FirstOnlyStep, PTL DEF Spec

-----------------------------------------------------------------------------
(* Objects are named at once, and keep their controller: the safety part   *)
(* of LaterObjectsNamed.                                                   *)

\* An object that names a controller goes on naming one, and the same one as long as the
\* operator lives.
KeepsName(k, o) ==
    cr[k][o] # None /\ cr[k][o].ref # None /\ cr'[k][o] # None
       => cr'[k][o].ref # None /\ (crashes' = 0 => cr'[k][o].ref = cr[k][o].ref)

\* After the hand-over the first update of an object that lacks a default names one.
NamesAtOnce(k, o) == sent /\ Merge(k, o) => pending'[k].write.ref # None

\* An update that is under way does not take the name from the object it was made for.
Remembers ==
    \A k \in Consumers :
        pending[k] # None /\ pending[k].read.ref # None => pending[k].write.ref # None

LEMMA MergePending ==
  ASSUME TypeOK, NEW k \in Consumers, NEW o \in Objects, Merge(k, o)
  PROVE  /\ pending' = [pending EXCEPT ![k] = pending'[k]]
         /\ pending'[k].read = cr[k][o]
         /\ pending'[k].write.ref = IF Told(k) = None THEN cr[k][o].ref ELSE Told(k)
<1>1. pending' = [pending EXCEPT ![k] =
            [object |-> o, read |-> cr[k][o],
             write |-> [ref |-> IF Told(k) = None THEN cr[k][o].ref ELSE Told(k),
                        merged |-> TRUE]]]
  BY DEF Merge, Told
<1> QED BY <1>1 DEF TypeOK

LEMMA RemembersStep == TypeOK /\ Remembers /\ [Next]_vars => Remembers'
<1> SUFFICES ASSUME TypeOK, Remembers, [Next]_vars PROVE Remembers'
  OBVIOUS
<1> USE DEF user, ziti, producer, consumer
<1>1. ASSUME NEW k \in Consumers, NEW o \in Objects, Merge(k, o) PROVE Remembers'
  <2> SUFFICES ASSUME NEW j \in Consumers, pending'[j] # None, pending'[j].read.ref # None
               PROVE  pending'[j].write.ref # None
    BY DEF Remembers
  <2>1. CASE j = k
    BY <1>1, <2>1, MergePending
  <2>2. CASE j # k
    <3>1. pending'[j] = pending[j]
      BY <1>1, <2>2, MergePending DEF TypeOK
    <3> QED BY <3>1 DEF Remembers
  <2> QED BY <2>1, <2>2
<1>2. ASSUME NEW k \in Consumers, Store(k) \/ StoreFails(k) PROVE Remembers'
  <2>1. pending' = [pending EXCEPT ![k] = None]
    BY <1>2 DEF Store, StoreFails
  <2>2. \A j \in Consumers : pending'[j] # None => pending'[j] = pending[j]
    BY <2>1 DEF TypeOK
  <2> QED BY <2>2 DEF Remembers
<1>3. CASE Crash
  BY <1>3 DEF Crash, Remembers
<1>4. ASSUME UNCHANGED pending PROVE Remembers'
  BY <1>4 DEF Remembers
<1>5. ASSUME \/ \E c \in Controllers, t \in Tokens : ApplyController(c, t)
             \/ \E c \in Controllers : DeleteController(c) \/ ExpireCertificate(c) \/ Collect(c)
             \/ \E k \in Consumers, o \in Objects : ApplyObject(k, o) \/ DeleteObject(k, o)
             \/ \E t \in Tokens : ExpireToken(t)
             \/ ProducerStep \/ UNCHANGED vars
      PROVE  UNCHANGED pending
  BY <1>5 DEF ApplyController, DeleteController, ExpireCertificate, Collect, Change, ApplyObject,
     DeleteObject, ExpireToken, ProducerStep, Proceed, CheckFails, Begin, Check, Enroll, Persist, Send, Abort, vars
<1> QED BY <1>1, <1>2, <1>3, <1>4, <1>5 DEF Next, ConsumerStep

LEMMA KeepsNameStep ==
  ASSUME TypeOK, FirstOnly, Remembers, [Next]_vars, NEW k \in Consumers, NEW o \in Objects
  PROVE  KeepsName(k, o)
<1> USE DEF user, ziti, producer, consumer
<1> SUFFICES ASSUME cr[k][o] # None, cr[k][o].ref # None, cr'[k][o] # None
             PROVE  /\ cr'[k][o].ref # None
                    /\ crashes' = 0 => cr'[k][o].ref = cr[k][o].ref
  BY DEF KeepsName
<1>0. cr \in [Consumers -> [Objects -> ConsumerObjects \union {None}]]
  BY DEF TypeOK
<1>1. ASSUME cr'[k][o] = cr[k][o] \/ cr'[k][o].ref = cr[k][o].ref
      PROVE  cr'[k][o].ref # None /\ (crashes' = 0 => cr'[k][o].ref = cr[k][o].ref)
  BY <1>1
<1>2. ASSUME NEW j \in Consumers, NEW p \in Objects, ApplyObject(j, p)
      PROVE  cr'[k][o] = cr[k][o] \/ cr'[k][o].ref = cr[k][o].ref
  <2> DEFINE new == [ref |-> IF cr[j][p] = None THEN None ELSE cr[j][p].ref, merged |-> FALSE]
  <2>1. cr' = [cr EXCEPT ![j][p] = new]
    BY <1>2 DEF ApplyObject
  <2>2. CASE j = k /\ p = o
    <3>1. new.ref = cr[k][o].ref
      BY <2>2
    <3>2. cr'[k][o] = new
      BY <1>0, <2>1, <2>2
    <3> QED BY <3>1, <3>2
  <2>3. CASE j # k \/ p # o
    <3> HIDE DEF new
    <3> QED BY <1>0, <2>1, <2>3
  <2> QED BY <2>2, <2>3
<1>3. ASSUME NEW j \in Consumers, NEW p \in Objects, DeleteObject(j, p)
      PROVE  cr'[k][o] = cr[k][o]
  BY <1>0, <1>3 DEF DeleteObject
<1>4. ASSUME NEW j \in Consumers, Store(j)
      PROVE  cr'[k][o].ref # None /\ (crashes' = 0 => cr'[k][o].ref = cr[k][o].ref)
  <2> DEFINE p == pending[j].object
             w == pending[j].write
  <2>1. pending[j] # None /\ p \in Objects
    BY <1>4 DEF Store, TypeOK
  <2>2. cr' = cr \/ (cr[j][p] = pending[j].read /\ cr' = [cr EXCEPT ![j][p] = w])
    BY <1>4 DEF Store
  <2>3. CASE cr' = cr \/ j # k \/ p # o
    <3> HIDE DEF p, w
    <3>1. cr'[k][o] = cr[k][o]
      BY <1>0, <2>1, <2>2, <2>3
    <3> QED BY <1>1, <3>1
  <2>4. CASE cr' # cr /\ j = k /\ p = o
    <3>1. cr'[k][o] = w /\ cr[k][o] = pending[j].read
      <4> HIDE DEF p, w
      <4> QED BY <1>0, <2>1, <2>2, <2>4
    <3>2. w.ref # None
      BY <2>1, <3>1 DEF Remembers
    <3>3. ASSUME crashes' = 0 PROVE w.ref = cr[k][o].ref
      <4>1. crashes = 0
        BY <1>4, <3>3 DEF Store
      <4>2. PICK R \in SUBSET References : Only(R) /\ \A r1, r2 \in R : r1 = r2
        <5>1. CASE sent
          <6>1. PICK r \in References : Only({r})
            BY <4>1, <5>1 DEF FirstOnly
          <6> QED BY <6>1
        <5>2. CASE ~sent
          BY <4>1, <5>2 DEF FirstOnly
        <5> QED BY <5>1, <5>2
      <4>3. w.ref \in R /\ cr[k][o].ref \in R
        BY <2>1, <3>2, <4>2 DEF Only
      <4> QED BY <4>2, <4>3
    <3> QED BY <3>1, <3>2, <3>3
  <2> QED BY <2>3, <2>4
<1>5. ASSUME \/ \E c \in Controllers, t \in Tokens : ApplyController(c, t)
             \/ \E c \in Controllers : DeleteController(c) \/ ExpireCertificate(c) \/ Collect(c)
             \/ \E t \in Tokens : ExpireToken(t)
             \/ Crash \/ ProducerStep \/ UNCHANGED vars
             \/ \E j \in Consumers : StoreFails(j) \/ \E p \in Objects : Merge(j, p)
      PROVE  UNCHANGED cr
  BY <1>5 DEF ApplyController, DeleteController, ExpireCertificate, Collect, Change, ExpireToken,
     Crash, ProducerStep, Proceed, CheckFails, Begin, Check, Enroll, Persist, Send, Abort, StoreFails, Merge, vars
<1> QED BY <1>1, <1>2, <1>3, <1>4, <1>5 DEF Next, ConsumerStep

\* Once a ZitiController has been handed over, the first update of an object that lacks a
\* default names it, whether it is taken from the channel or from the cache; and an object
\* that names a controller never loses it again, whatever becomes of later updates, nor gets
\* another one as long as the operator lives.  LaterObjectsNamed adds that updates are made.
THEOREM NamedForGood ==
  Spec => NameKept /\ [][\A k \in Consumers, o \in Objects : NamesAtOnce(k, o)]_vars
<1>1. Init => FirstOnly /\ Remembers /\ HandoffKept
  BY DEF Init, FirstOnly, Only, Remembers, HandoffKept
<1>2. TypeOK /\ HandoffKept => \A k \in Consumers, o \in Objects : NamesAtOnce(k, o)
  <2> SUFFICES ASSUME TypeOK, HandoffKept, NEW k \in Consumers, NEW o \in Objects,
                      sent, Merge(k, o)
               PROVE  pending'[k].write.ref # None
    BY DEF NamesAtOnce
  <2>1. Told(k) # None
    BY ToldType DEF HandoffKept, Told
  <2> QED BY <2>1, MergePending
<1>3. TypeOK /\ FirstOnly /\ Remembers /\ [Next]_vars
        => [\A k \in Consumers, o \in Objects :
              cr[k][o] # None /\ cr[k][o].ref # None /\ cr'[k][o] # None
                 => cr'[k][o].ref # None /\ (crashes' = 0 => cr'[k][o].ref = cr[k][o].ref)]_vars
  BY KeepsNameStep DEF KeepsName
<1>4. TypeOK /\ HandoffKept /\ [Next]_vars => [\A k \in Consumers, o \in Objects : NamesAtOnce(k, o)]_vars
  BY <1>2
<1> QED
  BY <1>1, <1>3, <1>4, TypeCorrect, FirstOnlyStep, RemembersStep, KeptStep, PTL DEF Spec, NameKept
=============================================================================
