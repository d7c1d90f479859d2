----------------------------- MODULE IdentityName -----------------------------
(***************************************************************************)
(* The names of identities (buildZitiIdentityName and hasContainer of      *)
(* cmd/webhook/utilities.go): made on CREATE of labels, namespace and the  *)
(* UID of the review, cut to a length, given to the identity and to the    *)
(* sidecar, and found again on DELETE by nothing but the prefix.           *)
(*                                                                         *)
(* TunnelWebhook takes names to be what this module shows of them.  The    *)
(* pods here are all injected: a pod without a sidecar, and the annotation *)
(* that DELETE falls back to, are there.  A text is a sequence of          *)
(* characters, of which only those matter that the regular expression      *)
(* tells apart; the lengths 50, 8 and 63 are constants.                    *)
(***************************************************************************)
EXTENDS Naturals, Sequences, SequencesExt

CONSTANTS
    Lower,          \* lower-case letters and digits
    Others,         \* characters of labels that names may not have: upper case, _
    Prefix,         \* sidecar.prefix
    LabelMaps,      \* the values of the four labels of pods, <<>> for one that is not there
    Namespaces,     \* names of namespaces
    Lists,          \* the containers that users give their pods, sequences of names
    Uids,           \* the UIDs of reviews
    Pods,           \* names for pods
    MaxBase,        \* 50: the length a name is cut to before the UID is added
    HashLen,        \* 8: what is taken of the UID
    MaxContainer,   \* 63: the length a container's name may have
    None

Dash == "-"
Dot  == "."
Text(chars) == Seq(chars)

ASSUME ConstantsAssumption ==
    /\ Dash \notin Lower /\ Dot \notin Lower \union {Dash}
    /\ Others \intersect (Lower \union {Dash, Dot}) = {}
    /\ Prefix \in Text(Lower) /\ Prefix # <<>>
    /\ \A m \in LabelMaps : m \in [1..4 -> Text(Lower \union Others \union {Dash, Dot})]
    /\ \A n \in Namespaces : n \in Text(Lower \union {Dash})
    /\ \A l \in Lists : l \in Seq(Text(Lower \union {Dash}))
    /\ \A u \in Uids : u \in Text(Lower \union {Dash}) /\ Len(u) > HashLen
    /\ MaxBase \in Nat /\ HashLen \in Nat \ {0} /\ MaxContainer \in Nat
    /\ Len(Prefix) < MaxBase /\ MaxBase + 1 + HashLen <= MaxContainer
    /\ None \notin {"badName", "refused"}

\* A UID has no dash among the characters that are taken of it.
ASSUME UidsAssumption == \A u \in Uids : \A i \in 1..HashLen : u[i] \in Lower

VARIABLES
    pod,            \* pod[p]: its containers, the sidecar is the last; <<>> when it is not there
    identities,     \* the names of the identities on the edge controller
    used,           \* the UIDs of the reviews so far
    last            \* the last CREATE: its labels and its answer

vars == <<pod, identities, used, last>>

Names   == Text(Lower \union {Dash, Dot})
Answers == {"created", "noLabel", "badName", "inUse", "refused"}

TypeOK ==
    /\ \A p \in Pods : pod[p] \in Seq(Names)
    /\ \A n \in identities : n \in Names
    /\ used \subseteq Uids
    /\ last.answer # None => last.labels \in LabelMaps /\ last.answer \in Answers

Init ==
    /\ pod = [p \in Pods |-> <<>>] /\ identities = {} /\ used = {}
    /\ last = [labels |-> <<>>, answer |-> None]

-----------------------------------------------------------------------------
(* Names.                                                                  *)

\* The first of app, app.kubernetes.io/name, .../instance and .../component that is
\* there and not empty.
LabelName(m) ==
    LET given == {i \in 1..4 : m[i] # <<>>} IN
    IF given = {} THEN <<>> ELSE m[CHOOSE i \in given : \A j \in given : i <= j]

\* Mutant of Cut: the end is kept, which drops the prefix.
CutFront(s) == IF Len(s) > MaxBase THEN SubSeq(s, Len(s) - MaxBase + 1, Len(s)) ELSE s

Cut(s) == IF Len(s) > MaxBase THEN SubSeq(s, 1, MaxBase) ELSE s

\* Mutant of Hash: one character more, the dash of the UID.
HashLonger(u) == SubSeq(u, 1, HashLen + 1)

Hash(u) == SubSeq(u, 1, HashLen)

BuiltName(name, n, u) ==
    Cut(Prefix \o <<Dash>> \o name \o <<Dash>> \o n) \o <<Dash>> \o Hash(u)

\* Mutant of Valid: the expression is not anchored.
ValidAnywhere(s) == \E i \in 1..Len(s) : s[i] \in Lower

\* The regular expression: labels of lower case and dashes, with dots between them.
Valid(s) ==
    /\ s \in Names /\ s # <<>>
    /\ s[1] \in Lower /\ s[Len(s)] \in Lower
    /\ \A i \in 2..Len(s) - 1 : s[i] = Dot => s[i - 1] \in Lower /\ s[i + 1] \in Lower

\* What the API server accepts as the name of a container.
ContainerName(s) == Valid(s) /\ (\A i \in 1..Len(s) : s[i] # Dot) /\ Len(s) <= MaxContainer

\* The name of the first container that starts with the prefix.
hasContainer(cs) ==
    LET found == {i \in 1..Len(cs) : IsPrefix(Prefix, cs[i])} IN
    IF found = {} THEN None ELSE cs[CHOOSE i \in found : \A j \in found : i <= j]

-----------------------------------------------------------------------------
(* Reviews.                                                                *)

\* Mutant of Taken: an identity of that name is taken for one's own.
TakenNever(name) == FALSE

\* The edge controller refuses a second identity of a name, and the handler the pod.
Taken(name) == name \in identities

\* A CREATE: the edge controller refuses a name that is in use, the API server a sidecar
\* with a name that is none, and then the identity stays behind.
Create(p, m, n, cs, u) ==
    LET name == BuiltName(LabelName(m), n, u)
        Say(a) == last' = [labels |-> m, answer |-> a]
    IN
    /\ pod[p] = <<>> /\ u \notin used
    /\ used' = used \union {u}
    /\ \/ /\ LabelName(m) = <<>>
          /\ Say("noLabel")
          /\ UNCHANGED <<pod, identities>>
       \/ /\ LabelName(m) # <<>> /\ ~Valid(name)
          /\ Say("badName")
          /\ UNCHANGED <<pod, identities>>
       \/ /\ LabelName(m) # <<>> /\ Valid(name) /\ Taken(name)
          /\ Say("inUse")
          /\ UNCHANGED <<pod, identities>>
       \/ /\ LabelName(m) # <<>> /\ Valid(name) /\ ~Taken(name)
          /\ identities' = identities \union {name}
          /\ \/ /\ ContainerName(name) /\ \A i \in 1..Len(cs) : cs[i] # name
                /\ Say("created")
                /\ pod' = [pod EXCEPT ![p] = Append(cs, name)]
             \/ /\ ~(ContainerName(name) /\ \A i \in 1..Len(cs) : cs[i] # name)
                /\ Say("refused")
                /\ UNCHANGED pod

\* A DELETE: the identity of that name is deleted if there is one.
Delete(p) ==
    /\ pod[p] # <<>>
    /\ identities' = identities \ {hasContainer(pod[p])}
    /\ pod' = [pod EXCEPT ![p] = <<>>]
    /\ UNCHANGED <<used, last>>

Next ==
    \E p \in Pods :
        \/ \E m \in LabelMaps, n \in Namespaces, cs \in Lists, u \in Uids : Create(p, m, n, cs, u)
        \/ Delete(p)

Spec == Init /\ [][Next]_vars

-----------------------------------------------------------------------------
(* Properties.                                                             *)

Running == {p \in Pods : pod[p] # <<>>}
Mine(p) == pod[p][Len(pod[p])]

\* No two pods have the same identity, whatever the cut leaves of their names and even
\* when the UIDs of their reviews begin alike (utilities.go:85-95, pods.go:251).
OwnName == \A p, q \in Running : p # q => Mine(p) # Mine(q)

\* No container that users gave the pod looks like a sidecar.
NoLookalikeIn(p) == \A i \in 1..Len(pod[p]) - 1 : ~IsPrefix(Prefix, pod[p][i])

\* The identity of a pod is there as long as the pod is, and DELETE finds it by the prefix:
\* the cut leaves the prefix, and no DELETE of another pod takes the identity
\* (utilities.go:25-32, pods.go:547).
FoundAgain ==
    \A p \in Running :
        NoLookalikeIn(p) => Mine(p) \in identities /\ hasContainer(pod[p]) = Mine(p)

\* There is an identity for each pod and for no other.  Where a container of a user looks
\* like a sidecar, or a label makes a name that no container can have, one stays behind.
NothingLeft == identities = {Mine(p) : p \in Running}

Plain(s) == \A i \in 1..Len(s) : s[i] \in Lower \union {Dash}

\* A pod whose label is in lower case and without dots is never refused for the name that
\* is built of it, wherever the name is cut (utilities.go:84-117).
PlainAccepted ==
    last.answer \in {"badName", "refused"} => ~Plain(LabelName(last.labels))

\* "Validate the final name" (utilities.go:111): a name that is valid can be that of the
\* sidecar, and no CREATE is refused after its identity has been made.
ValidatedFits == last.answer # "refused"
=============================================================================
