---------------------------- MODULE SpecDefaults ----------------------------
(***************************************************************************)
(* How the spec of a ZitiRouter or a ZitiWebhook becomes the spec that the *)
(* reconcilers work from: what a user gave, the defaults of the CRD, which *)
(* the API server fills in at every write, and the defaults of GetDefaults,*)
(* which MergeSpecs (operator/internal/utils/common.go) fills in and the   *)
(* reconciler writes back.  Users go on editing between the operator's     *)
(* read and its writes.                                                    *)
(*                                                                         *)
(* A spec is a function from its leaves; structs nest, and matter for two  *)
(* things: the API server fills in defaults only inside objects that are   *)
(* there, and MergeSpecs takes a struct that is zero as a whole.  A value  *)
(* is Absent (no key in the JSON, nil in Go), Empty (0, "", false, [], {}),*)
(* Negative, or one of those a field may be given.  The controller's name  *)
(* and address, which a merge also fills in, are in ControllerHandoff.     *)
(***************************************************************************)
EXTENDS Naturals

CONSTANTS
    Fields,         \* the leaves of the spec
    Structs,        \* the structs in it
    In,             \* In[f]: the structs around the leaf f
    Kind,           \* Kind[f]: its Go type, as far as IsZeroValue tells types apart
    Schema,         \* Schema[f]: its default in the CRD, or Absent
    Code,           \* Code[f]: its default in GetDefaults
    Choices,        \* Choices[f]: what users may give for it
    Refused,        \* Refused[f]: the values that the validation of the CRD refuses
    Finalizer,      \* has the type a finalizer?  a ZitiWebhook does
    Absent, Empty, Negative,
    MaxEdits,       \* bound: edits of the object
    None

Values == {Absent, Empty, Negative}
              \union (UNION {Choices[f] \union {Schema[f], Code[f]} : f \in Fields})
Specs  == [Fields -> Values]
Scalar(f) == Kind[f] \in {"int", "string", "bool"}

\* What Go has for a leaf whose key the JSON lacks.
Zero(f) == IF Scalar(f) THEN Empty ELSE Absent

ASSUME ConstantsAssumption ==
    /\ In \in [Fields -> SUBSET Structs]
    /\ Kind \in [Fields -> {"int", "string", "bool", "map", "pointer"}]
    /\ Schema \in [Fields -> Values] /\ Code \in [Fields -> Values]
    /\ \A f \in Fields : Scalar(f) => Code[f] # Absent
    /\ \A f \in Fields : /\ Absent \notin Choices[f]
                         /\ Negative \in Choices[f] => Kind[f] = "int"
                         /\ Negative \notin {Schema[f], Code[f]}
    /\ Finalizer \in BOOLEAN /\ MaxEdits \in Nat
    /\ Absent # Empty /\ Absent # Negative /\ Empty # Negative
    /\ None \notin Specs

\* IsZeroValue does not tell an integer that was left out: the CRD has a default for each.
ASSUME IntegersAssumption ==
    \A f \in Fields :
        Kind[f] = "int" /\ Code[f] \notin {Absent, Empty} => Schema[f] # Absent

VARIABLES
    stored,     \* stored[f]: what the API server has for f
    present,    \* the structs for which it has an object
    final,      \* is the finalizer on the object?
    given,      \* given[f]: what users gave last for f, or Absent
    edits,      \* edits so far
    at,         \* the next step of Reconcile
    obj,        \* the Go object it works on
    fresh,      \* has nobody else written since it was read?
    asked,      \* what was given when it was read
    used        \* the spec from which the children were made last, or None

cluster == <<stored, present, final, given, edits>>
worker  == <<at, obj, fresh, asked, used>>
vars    == <<cluster, worker>>

TypeOK ==
    /\ stored \in Specs /\ obj \in Specs
    /\ given \in Specs /\ asked \in Specs
    /\ \A f \in Fields : {given[f], asked[f]} \subseteq Choices[f] \union {Absent}
    /\ present \subseteq Structs /\ final \in BOOLEAN /\ edits \in 0..MaxEdits
    /\ at \in {"idle", "finalizer", "merge", "use"}
    /\ fresh \in BOOLEAN
    /\ used \in Specs \union {None}

-----------------------------------------------------------------------------
(* The API server and the JSON of the Go types.                             *)

\* The API server fills in the defaults of the CRD, where the objects around are there.
Defaulted(s, p) ==
    [f \in Fields |-> IF s[f] = Absent /\ In[f] \subseteq p THEN Schema[f] ELSE s[f]]

Valid(s) == \A f \in Fields : s[f] \notin Refused[f]

Decoded(s) == [f \in Fields |-> IF s[f] = Absent THEN Zero(f) ELSE s[f]]

\* omitempty: only a pointer shows that it is there with nothing in it.  Structs are never
\* left out.
Encoded(o) ==
    [f \in Fields |-> IF o[f] = Empty /\ Kind[f] # "pointer" THEN Absent ELSE o[f]]

\* What the API server makes of an Update of the object o, and what the response, decoded
\* into o, makes of o.
Written(o)     == Defaulted(Encoded(o), Structs)
Answered(o, s) == [f \in Fields |-> IF s[f] = Absent THEN o[f] ELSE s[f]]

-----------------------------------------------------------------------------
(* MergeSpecs.                                                              *)

\* IsZeroValue of a leaf: an integer is missing only when negative.
Missing(f, v) ==
    \/ Kind[f] = "int" /\ v = Negative
    \/ Kind[f] \in {"string", "bool"} /\ v = Empty
    \/ Kind[f] = "map" /\ v \in {Absent, Empty}
    \/ Kind[f] = "pointer" /\ v = Absent

\* IsZeroValue of a struct: every leaf in it as Go makes it.
ZeroStruct(o, g) == \A f \in Fields : g \in In[f] => o[f] = Zero(f)

\* Mutant of Merged: a struct is replaced when one of its leaves is as Go makes it.
MergedWhole(o) ==
    [f \in Fields |->
        IF \/ Missing(f, o[f]) /\ ~Missing(f, Code[f])
           \/ \E g \in In[f], h \in Fields : g \in In[h] /\ Missing(h, o[h])
        THEN Code[f] ELSE o[f]]

\* A struct that is zero is replaced as a whole, of any other the leaves that are missing.
Merged(o) ==
    [f \in Fields |->
        IF \/ Missing(f, o[f]) /\ ~Missing(f, Code[f])
           \/ \E g \in In[f] : ZeroStruct(o, g) /\ ~ZeroStruct(Code, g)
        THEN Code[f] ELSE o[f]]

-----------------------------------------------------------------------------
Init ==
    /\ present \in SUBSET Structs
    /\ \E s \in [Fields -> Values] :
         /\ \A f \in Fields :
              /\ s[f] \in Choices[f] \union {Absent}
              /\ s[f] # Absent => In[f] \subseteq present
         /\ given = s
         /\ stored = Defaulted(s, present)
    /\ \A g \in present, h \in Structs :
         (\A f \in Fields : g \in In[f] => h \in In[f]) => h \in present
    /\ Valid(stored)
    /\ final = FALSE /\ edits = 0
    /\ at = "idle" /\ fresh = FALSE
    /\ obj = Decoded(stored) /\ asked = given
    /\ used = None

\* A user changes the object: s is what it says, p its objects, said what users gave.
Edit(s, p, said) ==
    /\ edits < MaxEdits
    /\ Valid(Defaulted(s, p))
    /\ stored' = Defaulted(s, p) /\ present' = p /\ given' = said
    /\ edits' = edits + 1
    /\ fresh' = FALSE
    /\ UNCHANGED <<final, at, obj, asked, used>>

Give(f, v) ==
    Edit([stored EXCEPT ![f] = v], present \union In[f], [given EXCEPT ![f] = v])

TakeBack(f) ==
    /\ given[f] # Absent
    /\ Edit([stored EXCEPT ![f] = Absent], present, [given EXCEPT ![f] = Absent])

\* A user takes out a struct, and those in it.
TakeOut(g) ==
    LET without(s) == [f \in Fields |-> IF g \in In[f] THEN Absent ELSE s[f]]
        inner      == {h \in Structs : \A f \in Fields : h \in In[f] => g \in In[f]}
    IN  g \in present /\ Edit(without(stored), present \ inner, without(given))

-----------------------------------------------------------------------------
(* Reconcile.                                                               *)

\* Mutant of Begin: an object that was served is not read again.
BeginCached ==
    /\ at = "idle"
    /\ IF used = None THEN obj' = Decoded(stored) /\ asked' = given
       ELSE UNCHANGED <<obj, asked>>
    /\ fresh' = TRUE
    /\ at' = IF Finalizer /\ ~final THEN "finalizer" ELSE "merge"
    /\ UNCHANGED <<cluster, used>>

Begin ==
    /\ at = "idle"
    /\ obj' = Decoded(stored) /\ asked' = given
    /\ fresh' = TRUE
    /\ at' = IF Finalizer /\ ~final THEN "finalizer" ELSE "merge"
    /\ UNCHANGED <<cluster, used>>

\* Mutant of Update: it does not matter who has written since.
UpdateBlind(o) ==
    /\ Valid(Written(o))
    /\ stored' = Written(o) /\ present' = Structs
    /\ obj' = Answered(o, Written(o))
    /\ UNCHANGED <<given, edits, fresh, asked, used>>

\* r.Update(o): refused when someone has written since the read, or by the validation.
Update(o) ==
    /\ fresh /\ Valid(Written(o))
    /\ stored' = Written(o) /\ present' = Structs
    /\ obj' = Answered(o, Written(o))
    /\ UNCHANGED <<given, edits, fresh, asked, used>>

AddFinalizer ==
    /\ at = "finalizer"
    /\ Update(obj)
    /\ final' = TRUE
    /\ at' = "merge"

Merge ==
    /\ at = "merge"
    /\ at' = "use"
    /\ UNCHANGED final
    /\ IF Merged(obj) # obj
       THEN Update(Merged(obj))
       ELSE UNCHANGED <<stored, present, given, edits, obj, fresh, asked, used>>

\* The rest of Reconcile makes the children from obj.
Use ==
    /\ at = "use"
    /\ used' = obj
    /\ at' = "idle" /\ fresh' = FALSE
    /\ UNCHANGED <<cluster, obj, asked>>

\* A call fails.
Fail ==
    /\ at # "idle"
    /\ at' = "idle" /\ fresh' = FALSE
    /\ UNCHANGED <<cluster, obj, asked, used>>

\* A write that the API server refuses, for the version it is based on or as invalid.
Rejected ==
    /\ \/ at = "finalizer" /\ ~(fresh /\ Valid(Written(obj)))
       \/ at = "merge" /\ Merged(obj) # obj /\ ~(fresh /\ Valid(Written(Merged(obj))))
    /\ at' = "idle" /\ fresh' = FALSE
    /\ UNCHANGED <<cluster, obj, asked, used>>

Proceed == Begin \/ AddFinalizer \/ Merge \/ Use \/ Rejected

Next ==
    \/ \E f \in Fields : TakeBack(f) \/ \E v \in Choices[f] : Give(f, v)
    \/ \E g \in Structs : TakeOut(g)
    \/ Proceed
    \/ Fail

Spec == Init /\ [][Next]_vars

\* The work queue calls Reconcile again after an error and every 30 seconds, and calls to the
\* API server do not fail for ever.
Fairness == WF_vars(Proceed) /\ <>[][Fail => Proceed]_vars
FairSpec == Spec /\ Fairness

-----------------------------------------------------------------------------
\* A value that the JSON of the Go types can carry and that says something to MergeSpecs.
Lasting(f, v) ==
    \/ v \notin {Absent, Empty, Negative}
    \/ Kind[f] = "pointer" /\ v = Empty

\* What a field that was left out may come to hold: there are two defaults for some.
Defaults(f)   == {Schema[f], Code[f]} \ {Absent}
HasDefault(f) == Code[f] \notin {Absent, Empty, Negative}
LeftOut(v)    == v \in {Absent, Negative}

\* What users gave stays until users change it, whatever the operator writes in between: it
\* writes whole objects, made from what it read some time before.
GivenKept ==
    \A f \in Fields : Lasting(f, given[f]) => stored[f] = given[f]

\* The children are made from a complete spec: a field that was left out when the object was
\* read has a default (Container.Ports[0] and the pointers of the StatefulSet rely on it),
\* and one that was given has what was given.
Filled ==
    at = "use" => \A f \in Fields :
        /\ Lasting(f, asked[f]) => obj[f] = asked[f]
        /\ LeftOut(asked[f]) /\ HasDefault(f) => obj[f] \in Defaults(f)

\* In the end the children have what users ask for, and defaults for the rest, unless a
\* default is one that the validation refuses.
Reflects(s) ==
    \A f \in Fields :
        /\ Lasting(f, given[f]) => s[f] = given[f]
        /\ LeftOut(given[f]) /\ HasDefault(f) => s[f] \in Defaults(f)
Converges == Valid(Code) => <>[](used # None /\ Reflects(used))

\* Refuted: an explicit 0, which the validation admits (Minimum=0), is kept.
ZeroKept ==
    \A f \in Fields : Kind[f] = "int" /\ given[f] = Empty => Decoded(stored)[f] = Empty

\* Refuted: the defaults that are merged in are those of GetDefaults.
DefaultMerged ==
    at = "use" => \A f \in Fields :
        asked[f] = Absent /\ HasDefault(f) => obj[f] = Code[f]

\* Refuted: every object that the API server admits gets its children.
Served == <>(used # None)
=============================================================================
