-------------------------- MODULE ControllerHandoff --------------------------
(***************************************************************************)
(* How the operator tells its objects which Ziti controller they belong    *)
(* to.  The reconciler of ZitiControllers enrolls the admin identity of    *)
(* each, keeps it in a Secret, and hands the first object it reconciles to *)
(* the reconcilers of ZitiWebhooks and of ZitiRouters through one buffered *)
(* Go channel each (operator/cmd/main.go).  Those take it from the channel *)
(* when they fill the defaults into an object, and cache it.               *)
(*                                                                         *)
(* Each reconciler has one worker.  A call of the API server or of the     *)
(* Ziti controller may fail, and the operator may die between two calls:   *)
(* the channels, the caches and the workers' progress are then lost.       *)
(*                                                                         *)
(* A token stands for all of a ZitiController's spec but its name: the     *)
(* management API is derived from the token where it is not given.         *)
(*                                                                         *)
(* Left out: a zitiControllerName or management API that users write into  *)
(* a ZitiWebhook or ZitiRouter themselves (zitiwebhook_types.go:42,        *)
(* zitirouter_types.go:43), and the lag of the informers' caches, from     *)
(* which Reconcile reads.                                                  *)
(***************************************************************************)
EXTENDS Naturals, Sequences

CONSTANTS
    Controllers,    \* names of ZitiControllers; each has a Spec.Name of its own
    Tokens,         \* one-time enrollment tokens (Spec.AdminJwt)
    Consumers,      \* the reconcilers at the other ends of the channels
    Objects,        \* names of the objects of each of them
    Capacity,       \* of a channel; 10 in the code
    MaxChanges,     \* bound: creations, edits and deletions by users
    MaxCrashes,     \* bound: deaths of the operator
    None

ASSUME ConstantsAssumption ==
    /\ Capacity \in Nat \ {0}
    /\ MaxChanges \in Nat /\ MaxCrashes \in Nat
    /\ None \notin Controllers \union Tokens

VARIABLES
    ctl,        \* ctl[c]: the ZitiController of that name, or None
    cr,         \* cr[k][o]: the object o of consumer k, or None
    changes,    \* changes by users so far
    crashes,    \* deaths so far
    spent,      \* tokens that the Ziti controller has enrolled
    expired,    \* tokens past their expiry
    secret,     \* secret[c]: the Secret of ZitiController c, or None
    at,         \* the next call of the ZitiController reconciler
    got,        \* the ZitiController as it was read
    sent,       \* channelChecked
    chan,       \* chan[k]: the channel to consumer k
    cached,     \* cached[k]: CachedZitiController of consumer k, or None
    pending     \* pending[k]: the update that consumer k is about to make, or None

user     == <<ctl, cr, changes>>
ziti     == <<spent, expired>>
producer == <<at, got, sent>>
consumer == <<cached, pending>>
vars     == <<user, crashes, ziti, secret, producer, chan, consumer>>

\* A reference to a ZitiController: its name and token.
References == [name : Controllers, token : Tokens]

\* ref: ZitiControllerName and ZitiCtrlMgmtApi; merged: no default is missing.
ConsumerObjects == [ref : References \union {None}, merged : BOOLEAN]

\* uid: the change that created the ZitiController.
ZitiControllers == [uid : 1..MaxChanges, token : Tokens]

Secrets == [owner : 1..MaxChanges, expired : BOOLEAN]

\* A ZitiController as it was read.
Readings == [name : Controllers, token : Tokens, uid : 1..MaxChanges]

ASSUME NoneAssumption == None \notin References \union Readings

TypeOK ==
    /\ ctl \in [Controllers -> ZitiControllers \union {None}]
    /\ cr \in [Consumers -> [Objects -> ConsumerObjects \union {None}]]
    /\ changes \in 0..MaxChanges /\ crashes \in 0..MaxCrashes
    /\ spent \subseteq Tokens /\ expired \subseteq Tokens
    /\ secret \in [Controllers -> Secrets \union {None}]
    /\ at \in {"idle", "check", "create", "update", "persistCreate", "persistUpdate", "send"}
    /\ got \in Readings \union {None}
    /\ (got = None) = (at = "idle")
    /\ sent \in BOOLEAN
    /\ chan \in [Consumers -> Seq(References)]
    /\ \A k \in Consumers : Len(chan[k]) <= Capacity
    /\ cached \in [Consumers -> References \union {None}]
    /\ pending \in [Consumers -> [object : Objects, read : ConsumerObjects,
                                  write : ConsumerObjects] \union {None}]

Init ==
    /\ ctl = [c \in Controllers |-> None]
    /\ cr = [k \in Consumers |-> [o \in Objects |-> None]]
    /\ changes = 0 /\ crashes = 0
    /\ spent = {} /\ expired = {}
    /\ secret = [c \in Controllers |-> None]
    /\ at = "idle" /\ got = None /\ sent = FALSE
    /\ chan = [k \in Consumers |-> <<>>]
    /\ cached = [k \in Consumers |-> None] /\ pending = [k \in Consumers |-> None]

-----------------------------------------------------------------------------
(* Users, time and the garbage collector.                                  *)

Change ==
    /\ changes < MaxChanges /\ changes' = changes + 1
    /\ UNCHANGED <<crashes, ziti, secret, producer, chan, consumer>>

\* A ZitiController is created or gets another token.
ApplyController(c, t) ==
    /\ ctl[c] # None => ctl[c].token # t
    /\ ctl' = [ctl EXCEPT ![c] =
                 [uid |-> IF ctl[c] = None THEN changes + 1 ELSE ctl[c].uid, token |-> t]]
    /\ Change /\ UNCHANGED cr

DeleteController(c) ==
    /\ ctl[c] # None
    /\ ctl' = [ctl EXCEPT ![c] = None]
    /\ Change /\ UNCHANGED cr

\* An object is created, naming no controller, or loses a field that has a default.
ApplyObject(k, o) ==
    /\ cr[k][o] # None => cr[k][o].merged
    /\ cr' = [cr EXCEPT ![k][o] = [ref |-> IF @ = None THEN None ELSE @.ref, merged |-> FALSE]]
    /\ Change /\ UNCHANGED ctl

DeleteObject(k, o) ==
    /\ cr[k][o] # None
    /\ cr' = [cr EXCEPT ![k][o] = None]
    /\ Change /\ UNCHANGED ctl

ExpireToken(t) ==
    /\ t \notin expired
    /\ expired' = expired \union {t}
    /\ UNCHANGED <<user, crashes, spent, secret, producer, chan, consumer>>

ExpireCertificate(c) ==
    /\ secret[c] # None /\ ~secret[c].expired
    /\ secret' = [secret EXCEPT ![c].expired = TRUE]
    /\ UNCHANGED <<user, crashes, ziti, producer, chan, consumer>>

\* A Secret goes with the ZitiController that is its owner.
Collect(c) ==
    /\ secret[c] # None
    /\ ctl[c] # None => ctl[c].uid # secret[c].owner
    /\ secret' = [secret EXCEPT ![c] = None]
    /\ UNCHANGED <<user, crashes, ziti, producer, chan, consumer>>

Crash ==
    /\ crashes < MaxCrashes
    /\ crashes' = crashes + 1
    /\ at' = "idle" /\ got' = None /\ sent' = FALSE
    /\ chan' = [k \in Consumers |-> <<>>]
    /\ cached' = [k \in Consumers |-> None] /\ pending' = [k \in Consumers |-> None]
    /\ UNCHANGED <<user, ziti, secret>>

-----------------------------------------------------------------------------
(* The reconciler of ZitiControllers.                                      *)

Goto(label) == at' = label /\ UNCHANGED <<got, sent>>

Rest == at' = "idle" /\ got' = None /\ UNCHANGED sent

\* An error is returned: Reconcile is called again.
Abort == at # "idle" /\ Rest /\ UNCHANGED <<user, crashes, ziti, secret, chan, consumer>>

\* With an error other than that it is not there (:72) the ZitiController is empty, and so
\* is its token: where its Secret is not found either, that is an error (:85).  Informers
\* that have read once return no others.
Begin(c) ==
    /\ at = "idle" /\ ctl[c] # None
    /\ got' = [name |-> c, token |-> ctl[c].token, uid |-> ctl[c].uid]
    /\ at' = "check"
    /\ UNCHANGED <<user, crashes, ziti, secret, sent, chan, consumer>>

\* verifyOtt tells whether the token is still valid.
verifyOtt(t) == t \notin expired

\* Mutant of Renew: the validity of the certificate is not looked at.
RenewAlways(t, isCertExpired) == verifyOtt(t)

\* Whether an existing Secret is renewed: what verifyOtt returns is taken for the
\* token having expired.
Renew(t, isCertExpired) ==
    LET isOttExpired == verifyOtt(t) IN isCertExpired /\ ~isOttExpired

Check ==
    /\ at = "check"
    /\ IF secret[got.name] = None THEN Goto("create")
       ELSE IF Renew(got.token, secret[got.name].expired) THEN Goto("update")
       ELSE Goto("send")
    /\ UNCHANGED <<user, crashes, ziti, secret, chan, consumer>>

\* Any error of the read but that it is not there (:83) is taken for a Secret without a
\* certificate, which none can say has expired.
CheckFails ==
    /\ at = "check" /\ Goto("send")
    /\ UNCHANGED <<user, crashes, ziti, secret, chan, consumer>>

\* enrollIdentityWithJwt: the token can be used once, before it expires.  The answer
\* may be lost: Crash, or Abort after it.
Enroll ==
    /\ at \in {"create", "update"}
    /\ IF got.token \in spent \union expired
       THEN Rest /\ UNCHANGED spent
       ELSE /\ spent' = spent \union {got.token}
            /\ Goto(IF at = "create" THEN "persistCreate" ELSE "persistUpdate")
    /\ UNCHANGED <<user, crashes, expired, secret, chan, consumer>>

\* The Secret is created, an error if it is there, or updated, an error if it is not.
Persist ==
    /\ at \in {"persistCreate", "persistUpdate"}
    /\ IF (at = "persistCreate") = (secret[got.name] = None)
       THEN secret' = [secret EXCEPT ![got.name] = [owner |-> got.uid, expired |-> FALSE]]
            /\ Goto("send")
       ELSE Rest /\ UNCHANGED secret
    /\ UNCHANGED <<user, crashes, ziti, chan, consumer>>

Reference(g) == [name |-> g.name, token |-> g.token]

\* The spec that was read is compared with a copy made right after the read.
SpecChanged(existing, current) == existing # current

\* Mutant of Send: every time there is room.
SendEvery ==
    /\ at = "send"
    /\ chan' = [k \in Consumers |-> IF Len(chan[k]) < Capacity
                                   THEN Append(chan[k], Reference(got)) ELSE chan[k]]
    /\ sent' = TRUE /\ at' = "idle" /\ got' = None
    /\ UNCHANGED <<user, crashes, ziti, secret, consumer>>

\* The first time the object is offered to each channel, and dropped where the channel
\* is full; when the spec has changed it is sent, waiting for room.
Send ==
    LET offered == [k \in Consumers |->
                      IF ~sent /\ Len(chan[k]) < Capacity
                      THEN Append(chan[k], Reference(got)) ELSE chan[k]]
        changed == SpecChanged(got, got)
    IN
    /\ at = "send"
    /\ changed => \A k \in Consumers : Len(offered[k]) < Capacity
    /\ chan' = IF changed THEN [k \in Consumers |-> Append(offered[k], Reference(got))] ELSE offered
    /\ sent' = TRUE /\ at' = "idle" /\ got' = None
    /\ UNCHANGED <<user, crashes, ziti, secret, consumer>>

\* The calls of a Reconcile that meets no error but those that the state makes.
Proceed == Check \/ Enroll \/ Persist \/ Send

ProducerStep == (\E c \in Controllers : Begin(c)) \/ CheckFails \/ Proceed \/ Abort

-----------------------------------------------------------------------------
(* The reconcilers of ZitiWebhooks and ZitiRouters.                        *)

\* Mutant of Merge: what is received is used, and not cached.
MergeUncached(k, o) ==
    LET read == cr[k][o]
        ref  == IF chan[k] # <<>> THEN Head(chan[k]) ELSE cached[k]
    IN
    /\ pending[k] = None /\ read # None /\ ~read.merged
    /\ chan' = [chan EXCEPT ![k] = IF @ = <<>> THEN @ ELSE Tail(@)]
    /\ pending' = [pending EXCEPT ![k] =
                     [object |-> o, read |-> read,
                      write |-> [ref |-> IF ref = None THEN read.ref ELSE ref, merged |-> TRUE]]]
    /\ UNCHANGED <<user, crashes, ziti, secret, producer, cached>>

\* Mutant of Merge: what is received is cached, and the cache never used.
MergeChannelOnly(k, o) ==
    LET read == cr[k][o]
        ref  == IF chan[k] # <<>> THEN Head(chan[k]) ELSE None
    IN
    /\ pending[k] = None /\ read # None /\ ~read.merged
    /\ chan' = [chan EXCEPT ![k] = IF @ = <<>> THEN @ ELSE Tail(@)]
    /\ cached' = [cached EXCEPT ![k] = IF ref = None THEN @ ELSE ref]
    /\ pending' = [pending EXCEPT ![k] =
                     [object |-> o, read |-> read,
                      write |-> [ref |-> IF ref = None THEN read.ref ELSE ref, merged |-> TRUE]]]
    /\ UNCHANGED <<user, crashes, ziti, secret, producer>>

\* Mutant of Merge: without a ZitiController in the cache the name is emptied.
MergeEmptied(k, o) ==
    LET read == cr[k][o]
        ref  == IF chan[k] # <<>> THEN Head(chan[k]) ELSE cached[k]
    IN
    /\ pending[k] = None /\ read # None /\ ~read.merged
    /\ chan' = [chan EXCEPT ![k] = IF @ = <<>> THEN @ ELSE Tail(@)]
    /\ cached' = [cached EXCEPT ![k] = ref]
    /\ pending' = [pending EXCEPT ![k] =
                     [object |-> o, read |-> read, write |-> [ref |-> ref, merged |-> TRUE]]]
    /\ UNCHANGED <<user, crashes, ziti, secret, producer>>

\* Only an object that lacks a default is told its controller: the one that waits in
\* the channel, else the cached one, else none.
Merge(k, o) ==
    LET read == cr[k][o]
        ref  == IF chan[k] # <<>> THEN Head(chan[k]) ELSE cached[k]
    IN
    /\ pending[k] = None /\ read # None /\ ~read.merged
    /\ chan' = [chan EXCEPT ![k] = IF @ = <<>> THEN @ ELSE Tail(@)]
    /\ cached' = [cached EXCEPT ![k] = ref]
    /\ pending' = [pending EXCEPT ![k] =
                     [object |-> o, read |-> read,
                      write |-> [ref |-> IF ref = None THEN read.ref ELSE ref, merged |-> TRUE]]]
    /\ UNCHANGED <<user, crashes, ziti, secret, producer>>

\* r.Update: a conflict when the object has changed since it was read.
Store(k) ==
    LET p == pending[k] IN
    /\ p # None
    /\ cr' = IF cr[k][p.object] = p.read THEN [cr EXCEPT ![k][p.object] = p.write] ELSE cr
    /\ pending' = [pending EXCEPT ![k] = None]
    /\ UNCHANGED <<ctl, changes, crashes, ziti, secret, producer, chan, cached>>

StoreFails(k) ==
    /\ pending[k] # None
    /\ pending' = [pending EXCEPT ![k] = None]
    /\ UNCHANGED <<user, crashes, ziti, secret, producer, chan, cached>>

ConsumerStep(k) == (\E o \in Objects : Merge(k, o)) \/ Store(k) \/ StoreFails(k)

-----------------------------------------------------------------------------
Next ==
    \/ \E c \in Controllers, t \in Tokens : ApplyController(c, t)
    \/ \E c \in Controllers : DeleteController(c) \/ ExpireCertificate(c) \/ Collect(c)
    \/ \E k \in Consumers, o \in Objects : ApplyObject(k, o) \/ DeleteObject(k, o)
    \/ \E t \in Tokens : ExpireToken(t)
    \/ Crash
    \/ ProducerStep
    \/ \E k \in Consumers : ConsumerStep(k)

Spec == Init /\ [][Next]_vars

\* Reconcile is called again after every error and every minute, for every object, and
\* calls stop failing for no reason in the cluster at last.
Fairness ==
    /\ \A c \in Controllers : SF_vars(Begin(c)) /\ WF_vars(Collect(c))
    /\ WF_vars(Proceed) /\ <>[][Abort \/ CheckFails => Proceed]_vars
    /\ \A k \in Consumers :
          /\ WF_vars(Store(k)) /\ <>[][StoreFails(k) => Store(k)]_vars
          /\ \A o \in Objects : WF_vars(Merge(k, o))

FairSpec == Spec /\ Fairness

-----------------------------------------------------------------------------
(* Properties.                                                             *)

\* What was handed over once is never lost while the operator lives: it waits in the
\* channel or is in the cache, whatever becomes of the updates it was received for.
HandoffKept ==
    sent => \A k \in Consumers : chan[k] # <<>> \/ cached[k] # None

\* An enrollment token is only given away for a Secret that is missing or whose
\* certificate has expired: a working admin identity is not replaced.
TokenSpentForNeed ==
    [][spent' # spent => secret[got.name] = None \/ secret[got.name].expired]_vars

\* All objects of both kinds name the same controller with the same token, for as long
\* as the operator lives: both channels carry the first ZitiController that was
\* reconciled, as it was then, and nothing else.
OneController ==
    crashes = 0 =>
        \A k1, k2 \in Consumers, o1, o2 \in Objects :
            LET c1 == cr[k1][o1]
                c2 == cr[k2][o2]
            IN  c1 # None /\ c2 # None /\ c1.ref # None /\ c2.ref # None => c1.ref = c2.ref

\* An object that names a controller never ceases to, and names no other one while the
\* operator lives, whatever users reset and whenever the operator is started again: also
\* not in the time after a restart in which nothing has been handed over yet
\* (zitiwebhook_controller.go:137-153).
NameKept ==
    [][\A k \in Consumers, o \in Objects :
          cr[k][o] # None /\ cr[k][o].ref # None /\ cr'[k][o] # None
             => cr'[k][o].ref # None /\ (crashes' = 0 => cr'[k][o].ref = cr[k][o].ref)]_vars

\* An object that lacks a default after the hand-over, because it is new or was reset,
\* gets to name a controller, unless it is deleted or the operator dies.
LaterObjectsNamed ==
    \A k \in Consumers, o \in Objects :
        (sent /\ pending[k] = None /\ cr[k][o] # None /\ ~cr[k][o].merged)
            ~> (~sent \/ cr[k][o] = None \/ cr[k][o].ref # None)

\* A change of the spec of the ZitiController reaches the objects that name it.
EditsReachObjects ==
    \A k \in Consumers, o \in Objects, c \in Controllers, t \in Tokens :
        <>[](/\ ctl[c] # None /\ ctl[c].token = t /\ secret[c] # None
             /\ cr[k][o] # None /\ cr[k][o].ref # None)
            => <>(cr[k][o] # None /\ cr[k][o].ref # None /\ cr[k][o].ref.token = t)

\* A Secret whose certificate has expired is renewed with a token that has not.
ExpiredSecretRenewed ==
    \A c \in Controllers, t \in Tokens :
        ~<>[](/\ ctl[c] # None /\ ctl[c].token = t /\ t \notin spent \union expired
              /\ secret[c] # None /\ secret[c].expired /\ ctl[c].uid = secret[c].owner)
=============================================================================
