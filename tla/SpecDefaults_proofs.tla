------------------------- MODULE SpecDefaults_proofs -------------------------
(***************************************************************************)
(* What users gave is kept, and what they left out is filled in, for any    *)
(* set of fields and structs and any defaults: the operator overwrites the  *)
(* whole object with what it made of an earlier read, so the proof follows  *)
(* a value from the store into the Go object, through the merge and the     *)
(* encoding, and back; and one pass that nobody disturbs is enough.         *)
(***************************************************************************)
EXTENDS SpecDefaults, TLAPS

\* What a field that was left out may hold; nothing is what a missing key leaves.
Vacant(f, said, nothing) == {nothing} \union Defaults(f) \union ({said} \intersect {Negative})

\* The store: nobody gives a field of a struct that is not there, and the API server has
\* filled in the ones that are.
StoreInv ==
    /\ GivenKept
    /\ \A f \in Fields :
         /\ LeftOut(given[f]) => stored[f] \in Vacant(f, given[f], Absent)
         /\ stored[f] # Absent => In[f] \subseteq present
         /\ stored[f] = Absent /\ In[f] \subseteq present => Schema[f] = Absent

\* The object that Reconcile holds, against what was given when it was read.  An integer
\* that was left out is 0 only where a default is 0 or a whole struct was left out.
ObjectInv ==
    at # "idle" => \A f \in Fields :
        /\ Lasting(f, asked[f]) => obj[f] = asked[f]
        /\ LeftOut(asked[f]) => obj[f] \in Vacant(f, asked[f], Zero(f))
        /\ Kind[f] = "int" /\ HasDefault(f) /\ LeftOut(asked[f]) /\ obj[f] = Empty /\ at # "use"
             => Empty \in Defaults(f) \/ \E g \in In[f] : ZeroStruct(obj, g)
        /\ at = "use" /\ LeftOut(asked[f]) /\ HasDefault(f) => obj[f] \in Defaults(f)

FreshInv == fresh => asked = given

IInv == TypeOK /\ StoreInv /\ ObjectInv /\ FreshInv

-----------------------------------------------------------------------------
LEMMA ValuesType ==
    /\ {Absent, Empty, Negative} \subseteq Values
    /\ \A f \in Fields : Choices[f] \subseteq Values /\ Schema[f] \in Values /\ Code[f] \in Values
    /\ \A f \in Fields : Zero(f) \in Values
<1>1. {Absent, Empty, Negative} \subseteq Values
  BY DEF Values
<1>2. ASSUME NEW f \in Fields, NEW v \in Choices[f] \union {Schema[f], Code[f]}
      PROVE  v \in Values
  BY <1>2 DEF Values
<1> QED
  BY <1>1, <1>2 DEF Zero

LEMMA ShapesType ==
    ASSUME NEW s \in Specs, NEW p \in SUBSET Structs
    PROVE  /\ Defaulted(s, p) \in Specs /\ Decoded(s) \in Specs /\ Encoded(s) \in Specs
           /\ Merged(s) \in Specs
           /\ \A r \in Specs : Answered(s, r) \in Specs
<1>1. s \in [Fields -> Values]
  BY DEF Specs
<1> QED
  BY <1>1, ValuesType DEF Specs, Defaulted, Decoded, Encoded, Merged, Answered

LEMMA WrittenType ==
    ASSUME NEW o \in Specs
    PROVE  /\ Written(o) \in Specs /\ Answered(o, Written(o)) \in Specs
<1>1. Encoded(o) \in Specs
  BY ShapesType
<1>2. Written(o) \in Specs
  BY <1>1, ShapesType DEF Written
<1> QED
  BY <1>2, ShapesType

\* MergeSpecs leaves a value alone that says something.
LEMMA MergedKeeps ==
    ASSUME NEW o \in Specs, NEW f \in Fields, Lasting(f, o[f])
    PROVE  Merged(o)[f] = o[f]
<1>1. ~Missing(f, o[f])
  BY ConstantsAssumption DEF Lasting, Missing
<1>2. o[f] # Zero(f)
  BY ConstantsAssumption DEF Lasting, Zero, Scalar
<1>3. \A g \in In[f] : ~ZeroStruct(o, g)
  BY <1>2 DEF ZeroStruct
<1> QED
  BY <1>1, <1>3 DEF Merged

\* So do the encoding and the answer of the API server.
LEMMA WriteKeeps ==
    ASSUME NEW o \in Specs, NEW f \in Fields, Lasting(f, o[f])
    PROVE  Written(o)[f] = o[f] /\ Answered(o, Written(o))[f] = o[f]
<1>1. o[f] # Absent /\ ~(o[f] = Empty /\ Kind[f] # "pointer")
  BY ConstantsAssumption DEF Lasting
<1>2. Encoded(o)[f] = o[f]
  BY <1>1 DEF Encoded
<1>3. Written(o)[f] = o[f]
  BY <1>1, <1>2 DEF Written, Defaulted
<1> QED
  BY <1>1, <1>3 DEF Answered

\* Of a field that was left out an Update makes a default, or leaves it as it is.
LEMMA WriteFills ==
    ASSUME NEW o \in Specs, NEW f \in Fields, NEW said,
           o[f] \in Vacant(f, said, Zero(f))
    PROVE  /\ Written(o)[f] \in Vacant(f, said, Absent)
           /\ Answered(o, Written(o))[f] \in Vacant(f, said, Zero(f))
           /\ o[f] \in Defaults(f) => Answered(o, Written(o))[f] \in Defaults(f)
<1>1. In[f] \subseteq Structs
  BY ConstantsAssumption
<1>2. Written(o)[f] = IF Encoded(o)[f] = Absent THEN Schema[f] ELSE Encoded(o)[f]
  BY <1>1 DEF Written, Defaulted
<1>3. Encoded(o)[f] = IF o[f] = Empty /\ Kind[f] # "pointer" THEN Absent ELSE o[f]
  BY DEF Encoded
<1>4. Answered(o, Written(o))[f] = IF Written(o)[f] = Absent THEN o[f] ELSE Written(o)[f]
  BY DEF Answered
<1>5. Zero(f) \in {Absent, Empty} /\ (Kind[f] = "pointer" => Zero(f) = Absent)
  BY DEF Zero, Scalar
<1>6. Schema[f] = Absent \/ Schema[f] \in Defaults(f)
  BY DEF Defaults
<1>7. Absent \notin Defaults(f) /\ Absent # Negative
  BY ConstantsAssumption DEF Defaults
<1> QED
  BY <1>2, <1>3, <1>4, <1>5, <1>6, <1>7 DEF Vacant

\* MergeSpecs fills in a field that was left out.
LEMMA MergedFills ==
    ASSUME NEW o \in Specs, NEW f \in Fields, NEW said, HasDefault(f),
           said = Negative => Kind[f] = "int",
           o[f] \in Vacant(f, said, Zero(f)),
           Kind[f] = "int" /\ o[f] = Empty
             => Empty \in Defaults(f) \/ \E g \in In[f] : ZeroStruct(o, g)
    PROVE  Merged(o)[f] \in Defaults(f)
<1>1. Code[f] \in Defaults(f) /\ ~Missing(f, Code[f])
  BY DEF HasDefault, Defaults, Missing
<1>2. Code[f] # Zero(f)
  BY DEF HasDefault, Zero
<1>3. Merged(o)[f] = Code[f] \/ Merged(o)[f] = o[f]
  BY DEF Merged
<1>4. CASE Missing(f, o[f])
  BY <1>1, <1>4 DEF Merged
<1>5. CASE \E g \in In[f] : ZeroStruct(o, g)
  <2>1. PICK g \in In[f] : ZeroStruct(o, g)
    BY <1>5
  <2>2. ~ZeroStruct(Code, g)
    BY <1>2 DEF ZeroStruct
  <2> QED
    BY <1>1, <2>1, <2>2 DEF Merged
<1>6. CASE ~Missing(f, o[f]) /\ ~\E g \in In[f] : ZeroStruct(o, g)
  <2>1. o[f] \in Defaults(f)
    BY <1>6, ConstantsAssumption DEF Vacant, Missing, Zero, Scalar
  <2> QED
    BY <1>1, <1>3, <2>1
<1> QED
  BY <1>4, <1>5, <1>6

-----------------------------------------------------------------------------
LEMMA InitInv == Init => IInv
<1> SUFFICES ASSUME Init PROVE IInv
  OBVIOUS
<1>1. /\ given \in Specs /\ stored = Defaulted(given, present)
      /\ \A f \in Fields : /\ given[f] \in Choices[f] \union {Absent}
                           /\ given[f] # Absent => In[f] \subseteq present
  BY DEF Init, Specs
<1>2. TypeOK
  <2>1. stored \in Specs /\ obj \in Specs
    BY <1>1, ShapesType DEF Init
  <2>2. asked = given /\ edits \in 0..MaxEdits /\ used \in Specs \union {None}
    BY ConstantsAssumption DEF Init
  <2>3. present \subseteq Structs /\ final \in BOOLEAN /\ fresh \in BOOLEAN /\ at = "idle"
    BY DEF Init
  <2> QED
    BY <1>1, <2>1, <2>2, <2>3 DEF TypeOK
<1>3. StoreInv
  <2> SUFFICES ASSUME NEW f \in Fields
               PROVE  /\ Lasting(f, given[f]) => stored[f] = given[f]
                      /\ LeftOut(given[f]) => stored[f] \in Vacant(f, given[f], Absent)
                      /\ stored[f] # Absent => In[f] \subseteq present
                      /\ stored[f] = Absent /\ In[f] \subseteq present => Schema[f] = Absent
    BY DEF StoreInv, GivenKept
  <2>1. stored[f] = IF given[f] = Absent /\ In[f] \subseteq present
                    THEN Schema[f] ELSE given[f]
    BY <1>1 DEF Defaulted
  <2>2. Lasting(f, given[f]) => given[f] # Absent
    BY ConstantsAssumption DEF Lasting
  <2> QED
    BY <1>1, <2>1, <2>2 DEF LeftOut, Vacant, Defaults
<1>4. ObjectInv /\ FreshInv
  BY DEF Init, ObjectInv, FreshInv
<1> QED
  BY <1>2, <1>3, <1>4 DEF IInv

\* A user's edit: what it says for a field goes into the store and into what was given, or
\* it leaves both alone.
LEMMA EditInv ==
    ASSUME IInv, NEW s \in Specs, NEW p \in SUBSET Structs, NEW said \in Specs,
           Edit(s, p, said),
           \A f \in Fields :
               /\ said[f] \in Choices[f] \union {Absent}
               /\ \/ s[f] = said[f]
                  \/ s[f] = stored[f] /\ said[f] = given[f]
               /\ s[f] # Absent => In[f] \subseteq p
    PROVE  IInv'
<1> USE DEF IInv
<1>1. /\ stored' = Defaulted(s, p) /\ present' = p /\ given' = said
      /\ edits' = edits + 1 /\ edits < MaxEdits /\ fresh' = FALSE
      /\ UNCHANGED <<final, at, obj, asked, used>>
  BY DEF Edit
<1>2. TypeOK'
  <2>1. Defaulted(s, p) \in Specs
    BY ShapesType
  <2>2. edits + 1 \in 0..MaxEdits
    BY <1>1, ConstantsAssumption DEF TypeOK
  <2> QED
    BY <1>1, <2>1, <2>2 DEF TypeOK
<1>3. StoreInv'
  <2> SUFFICES ASSUME NEW f \in Fields
               PROVE  /\ Lasting(f, given'[f]) => stored'[f] = given'[f]
                      /\ LeftOut(given'[f]) => stored'[f] \in Vacant(f, given'[f], Absent)
                      /\ stored'[f] # Absent => In[f] \subseteq present'
                      /\ stored'[f] = Absent /\ In[f] \subseteq present' => Schema[f] = Absent
    BY DEF StoreInv, GivenKept
  <2>1. stored'[f] = IF s[f] = Absent /\ In[f] \subseteq p THEN Schema[f] ELSE s[f]
    BY <1>1 DEF Defaulted
  <2>2. Lasting(f, given'[f]) => given'[f] # Absent
    BY ConstantsAssumption DEF Lasting
  <2>3. /\ Lasting(f, given[f]) => stored[f] = given[f]
        /\ LeftOut(given[f]) => stored[f] \in Vacant(f, given[f], Absent)
    BY DEF StoreInv, GivenKept
  <2>4. Lasting(f, said[f]) => s[f] = said[f]
    BY <1>1, <2>3
  <2>5. LeftOut(said[f]) => s[f] \in Vacant(f, said[f], Absent)
    BY <2>3 DEF LeftOut, Vacant
  <2>6. Schema[f] \in Vacant(f, said[f], Absent)
    BY DEF Vacant, Defaults
  <2> QED
    BY <1>1, <2>1, <2>2, <2>4, <2>5, <2>6
<1>4. ObjectInv'
  BY <1>1 DEF ObjectInv, ZeroStruct
<1>5. FreshInv'
  BY <1>1 DEF FreshInv
<1> QED
  BY <1>2, <1>3, <1>4, <1>5

LEMMA UsersInv ==
    ASSUME IInv,
           \/ \E f \in Fields : TakeBack(f) \/ \E v \in Choices[f] : Give(f, v)
           \/ \E g \in Structs : TakeOut(g)
    PROVE  IInv'
<1> USE DEF IInv
<1>1. /\ stored \in [Fields -> Values] /\ given \in [Fields -> Values]
      /\ present \subseteq Structs
      /\ \A f \in Fields : given[f] \in Choices[f] \union {Absent}
      /\ \A f \in Fields : stored[f] # Absent => In[f] \subseteq present
  BY DEF TypeOK, StoreInv, Specs
<1>2. ASSUME NEW f \in Fields, NEW v \in Choices[f], Give(f, v)
      PROVE  IInv'
  <2> DEFINE s    == [stored EXCEPT ![f] = v]
             said == [given EXCEPT ![f] = v]
             p    == present \union In[f]
  <2>1. s \in Specs /\ said \in Specs
    BY <1>1, ValuesType DEF Specs
  <2>2. p \in SUBSET Structs
    BY <1>1, ConstantsAssumption
  <2>3. \A h \in Fields : /\ said[h] \in Choices[h] \union {Absent}
                          /\ \/ s[h] = said[h]
                             \/ s[h] = stored[h] /\ said[h] = given[h]
                          /\ s[h] # Absent => In[h] \subseteq p
    BY <1>1
  <2>4. Edit(s, p, said)
    BY <1>2 DEF Give
  <2> HIDE DEF s, said, p
  <2> QED
    BY <2>1, <2>2, <2>3, <2>4, EditInv
<1>3. ASSUME NEW f \in Fields, TakeBack(f)
      PROVE  IInv'
  <2> DEFINE s    == [stored EXCEPT ![f] = Absent]
             said == [given EXCEPT ![f] = Absent]
  <2>1. s \in Specs /\ said \in Specs
    BY <1>1, ValuesType DEF Specs
  <2>2. \A h \in Fields : /\ said[h] \in Choices[h] \union {Absent}
                          /\ \/ s[h] = said[h]
                             \/ s[h] = stored[h] /\ said[h] = given[h]
                          /\ s[h] # Absent => In[h] \subseteq present
    BY <1>1
  <2>3. Edit(s, present, said)
    BY <1>3 DEF TakeBack
  <2> HIDE DEF s, said
  <2> QED
    BY <1>1, <2>1, <2>2, <2>3, EditInv
<1>4. ASSUME NEW g \in Structs, TakeOut(g)
      PROVE  IInv'
  <2> DEFINE without(r) == [f \in Fields |-> IF g \in In[f] THEN Absent ELSE r[f]]
             p == present \ {h \in Structs : \A f \in Fields : h \in In[f] => g \in In[f]}
             s == without(stored)
             said == without(given)
  <2>1. s \in Specs /\ said \in Specs
    BY <1>1, ValuesType DEF Specs
  <2>2. ASSUME NEW h \in Fields
        PROVE  /\ said[h] \in Choices[h] \union {Absent}
               /\ \/ s[h] = said[h]
                  \/ s[h] = stored[h] /\ said[h] = given[h]
               /\ s[h] # Absent => In[h] \subseteq p
    <3>1. /\ said[h] \in Choices[h] \union {Absent}
          /\ \/ s[h] = said[h]
             \/ s[h] = stored[h] /\ said[h] = given[h]
      <4>1. CASE g \in In[h]
        BY <4>1
      <4>2. CASE g \notin In[h]
        BY <1>1, <4>2
      <4> QED
        BY <4>1, <4>2
    <3>2. ASSUME s[h] # Absent PROVE In[h] \subseteq p
      <4>1. g \notin In[h] /\ stored[h] # Absent
        BY <3>2
      <4> QED
        BY <1>1, <4>1
    <3> QED
      BY <3>1, <3>2
  <2>3. Edit(s, p, said)
    BY <1>4 DEF TakeOut
  <2>4. p \in SUBSET Structs
    BY <1>1
  <2> HIDE DEF s, said, p
  <2> QED
    BY <2>1, <2>2, <2>3, <2>4, EditInv
<1> QED
  BY <1>2, <1>3, <1>4

-----------------------------------------------------------------------------
LEMMA BeginInv == ASSUME IInv, Begin PROVE IInv'
<1> USE DEF IInv
<1>1. /\ obj' = Decoded(stored) /\ asked' = given
      /\ at' \in {"finalizer", "merge"}
      /\ UNCHANGED <<stored, present, final, given, edits, used>>
  BY DEF Begin, cluster
<1>2. TypeOK'
  <2>1. Decoded(stored) \in Specs
    BY ShapesType DEF TypeOK
  <2> QED
    BY <1>1, <2>1 DEF TypeOK, Begin
<1>3. StoreInv' /\ FreshInv'
  BY <1>1 DEF StoreInv, GivenKept, FreshInv
<1>4. ObjectInv'
  <2> SUFFICES ASSUME NEW f \in Fields
               PROVE  /\ Lasting(f, given[f]) => obj'[f] = given[f]
                      /\ LeftOut(given[f]) => obj'[f] \in Vacant(f, given[f], Zero(f))
                      /\ Kind[f] = "int" /\ HasDefault(f) /\ LeftOut(given[f]) /\ obj'[f] = Empty
                           => Empty \in Defaults(f) \/ \E g \in In[f] : ZeroStruct(obj', g)
    BY <1>1 DEF ObjectInv, ZeroStruct
  <2>1. obj'[f] = IF stored[f] = Absent THEN Zero(f) ELSE stored[f]
    BY <1>1 DEF Decoded
  <2>2. ASSUME Lasting(f, given[f]) PROVE obj'[f] = given[f]
    <3>1. stored[f] = given[f] /\ given[f] # Absent
      BY <2>2, ConstantsAssumption DEF StoreInv, GivenKept, Lasting
    <3> QED
      BY <2>1, <3>1
  <2>3. ASSUME LeftOut(given[f]) PROVE obj'[f] \in Vacant(f, given[f], Zero(f))
    BY <2>1, <2>3 DEF StoreInv, Vacant
  <2>4. ASSUME Kind[f] = "int", HasDefault(f), LeftOut(given[f]), obj'[f] = Empty,
               Empty \notin Defaults(f)
        PROVE  \E g \in In[f] : ZeroStruct(obj', g)
    <3>1. stored[f] = Absent
      <4>1. stored[f] \in Vacant(f, given[f], Absent)
        BY <2>4 DEF StoreInv
      <4> QED
        BY <2>1, <2>4, <4>1, ConstantsAssumption DEF Vacant
    <3>2. Schema[f] # Absent
      BY <2>4, IntegersAssumption DEF HasDefault
    <3>3. PICK g \in In[f] : g \notin present
      BY <3>1, <3>2 DEF StoreInv
    <3>4. ASSUME NEW h \in Fields, g \in In[h] PROVE obj'[h] = Zero(h)
      <4>1. stored[h] = Absent
        BY <3>3, <3>4 DEF StoreInv
      <4> QED
        BY <1>1, <4>1 DEF Decoded
    <3> QED
      BY <3>4 DEF ZeroStruct
  <2> QED
    BY <2>2, <2>3, <2>4
<1> QED
  BY <1>2, <1>3, <1>4

\* An Update of an object in which what was asked lasts and what was left out is vacant or
\* filled.
LEMMA UpdateInv ==
    ASSUME IInv, NEW o \in Specs, Update(o),
           at' \in {"merge", "use"}, final' \in BOOLEAN,
           \A f \in Fields :
               /\ Lasting(f, asked[f]) => o[f] = asked[f]
               /\ LeftOut(asked[f]) => o[f] \in Vacant(f, asked[f], Zero(f))
               /\ at' = "use" /\ LeftOut(asked[f]) /\ HasDefault(f) => o[f] \in Defaults(f)
    PROVE  IInv'
<1> USE DEF IInv
<1>1. /\ fresh /\ stored' = Written(o) /\ present' = Structs
      /\ obj' = Answered(o, Written(o))
      /\ UNCHANGED <<given, edits, fresh, asked, used>>
  BY DEF Update
<1>2. asked = given
  BY <1>1 DEF FreshInv
<1>3. TypeOK'
  <2>1. stored' \in Specs /\ obj' \in Specs
    BY <1>1, WrittenType
  <2> QED
    BY <1>1, <2>1 DEF TypeOK
<1>4. ASSUME NEW f \in Fields
      PROVE  /\ Lasting(f, asked[f]) => Written(o)[f] = asked[f] /\ obj'[f] = asked[f]
             /\ LeftOut(asked[f]) => /\ Written(o)[f] \in Vacant(f, asked[f], Absent)
                                     /\ obj'[f] \in Vacant(f, asked[f], Zero(f))
             /\ at' = "use" /\ LeftOut(asked[f]) /\ HasDefault(f) => obj'[f] \in Defaults(f)
  <2>1. Lasting(f, asked[f]) => Written(o)[f] = asked[f] /\ obj'[f] = asked[f]
    BY <1>1, WriteKeeps
  <2>2. LeftOut(asked[f]) =>
          /\ Written(o)[f] \in Vacant(f, asked[f], Absent)
          /\ obj'[f] \in Vacant(f, asked[f], Zero(f))
          /\ o[f] \in Defaults(f) => obj'[f] \in Defaults(f)
    BY <1>1, WriteFills
  <2> QED
    BY <2>1, <2>2
<1>5. ASSUME NEW f \in Fields
      PROVE  Written(o)[f] = IF Encoded(o)[f] = Absent THEN Schema[f] ELSE Encoded(o)[f]
  BY ConstantsAssumption DEF Written, Defaulted
<1>6. StoreInv'
  <2>1. \A f \in Fields : In[f] \subseteq Structs
    BY ConstantsAssumption
  <2> QED
    BY <1>1, <1>2, <1>4, <1>5, <2>1 DEF StoreInv, GivenKept
<1>7. ASSUME NEW f \in Fields, Kind[f] = "int", HasDefault(f), obj'[f] = Empty
      PROVE  Empty \in Defaults(f)
  <2>1. Schema[f] # Absent
    BY <1>7, IntegersAssumption DEF HasDefault
  <2>2. Encoded(o)[f] = IF o[f] = Empty THEN Absent ELSE o[f]
    BY <1>7 DEF Encoded
  <2>3. Written(o)[f] # Absent
    BY <1>5, <2>1
  <2>4. obj'[f] = Written(o)[f]
    BY <1>1, <2>3 DEF Answered
  <2>5. Schema[f] = Empty
    BY <1>5, <1>7, <2>2, <2>4
  <2> QED
    BY <2>5, ConstantsAssumption DEF Defaults
<1>8. ObjectInv'
  BY <1>1, <1>4, <1>7 DEF ObjectInv
<1>9. FreshInv'
  BY <1>1 DEF FreshInv
<1> QED
  BY <1>3, <1>6, <1>8, <1>9

LEMMA AddFinalizerInv == ASSUME IInv, AddFinalizer PROVE IInv'
<1>1. obj \in Specs /\ Update(obj) /\ at' = "merge" /\ final' = TRUE /\ at = "finalizer"
  BY DEF IInv, TypeOK, AddFinalizer
<1>2. \A f \in Fields :
        /\ Lasting(f, asked[f]) => obj[f] = asked[f]
        /\ LeftOut(asked[f]) => obj[f] \in Vacant(f, asked[f], Zero(f))
  BY <1>1 DEF IInv, ObjectInv
<1> QED
  BY <1>1, <1>2, UpdateInv

LEMMA MergeInv == ASSUME IInv, Merge PROVE IInv'
<1>1. at = "merge" /\ at' = "use" /\ final' = final
  BY DEF Merge
<1>2. obj \in Specs /\ Merged(obj) \in Specs /\ final \in BOOLEAN
  BY ShapesType DEF IInv, TypeOK
<1>3. ASSUME NEW f \in Fields
      PROVE  /\ Lasting(f, asked[f]) => Merged(obj)[f] = asked[f]
             /\ LeftOut(asked[f]) => Merged(obj)[f] \in Vacant(f, asked[f], Zero(f))
             /\ LeftOut(asked[f]) /\ HasDefault(f) => Merged(obj)[f] \in Defaults(f)
  <2>1. /\ Lasting(f, asked[f]) => obj[f] = asked[f]
        /\ LeftOut(asked[f]) => obj[f] \in Vacant(f, asked[f], Zero(f))
        /\ Kind[f] = "int" /\ HasDefault(f) /\ LeftOut(asked[f]) /\ obj[f] = Empty
             => Empty \in Defaults(f) \/ \E g \in In[f] : ZeroStruct(obj, g)
    BY <1>1 DEF IInv, ObjectInv
  <2>2. Lasting(f, asked[f]) => Merged(obj)[f] = asked[f]
    BY <1>2, <2>1, MergedKeeps
  <2>3. asked[f] = Negative => Kind[f] = "int"
    BY ConstantsAssumption DEF IInv, TypeOK
  <2>4. LeftOut(asked[f]) /\ HasDefault(f) => Merged(obj)[f] \in Defaults(f)
    BY <1>2, <2>1, <2>3, MergedFills
  <2>5. ASSUME LeftOut(asked[f]) PROVE Merged(obj)[f] \in Vacant(f, asked[f], Zero(f))
    <3>1. Merged(obj)[f] \in {obj[f], Code[f]}
      BY DEF Merged
    <3>2. Code[f] = Zero(f) \/ Code[f] \in Defaults(f)
      BY ConstantsAssumption DEF Defaults, Zero
    <3> QED
      BY <2>1, <2>5, <3>1, <3>2 DEF Vacant
  <2> QED
    BY <2>2, <2>4, <2>5
<1>4. CASE Merged(obj) # obj
  <2>1. Update(Merged(obj))
    BY <1>4 DEF Merge
  <2> QED
    BY <1>1, <1>2, <1>3, <2>1, UpdateInv
<1>5. CASE Merged(obj) = obj
  <2>1. UNCHANGED <<stored, present, final, given, edits, obj, fresh, asked, used>>
    BY <1>5 DEF Merge
  <2>2. ObjectInv'
    <3> SUFFICES ASSUME NEW f \in Fields
                 PROVE  /\ Lasting(f, asked[f]) => obj[f] = asked[f]
                        /\ LeftOut(asked[f]) => obj[f] \in Vacant(f, asked[f], Zero(f))
                        /\ LeftOut(asked[f]) /\ HasDefault(f) => obj[f] \in Defaults(f)
      BY <1>1, <2>1 DEF ObjectInv
    <3> QED
      BY <1>3, <1>5
  <2> QED
    BY <1>1, <2>1, <2>2 DEF IInv, TypeOK, StoreInv, GivenKept, FreshInv
<1> QED
  BY <1>4, <1>5

LEMMA EndInv == ASSUME IInv, Use \/ Fail \/ Rejected PROVE IInv'
<1>1. /\ at' = "idle" /\ fresh' = FALSE
      /\ UNCHANGED <<stored, present, final, given, edits, obj, asked>>
      /\ used' \in {used, obj}
  BY DEF Use, Fail, Rejected, cluster
<1> QED
  BY <1>1 DEF IInv, TypeOK, StoreInv, GivenKept, ObjectInv, FreshInv

LEMMA NextInv == IInv /\ [Next]_vars => IInv'
<1> SUFFICES ASSUME IInv, [Next]_vars PROVE IInv'
  OBVIOUS
<1>1. CASE UNCHANGED vars
  BY <1>1 DEF vars, cluster, worker, IInv, TypeOK, StoreInv, GivenKept, ObjectInv, FreshInv,
              ZeroStruct
<1>2. CASE Next
  BY <1>2, UsersInv, BeginInv, AddFinalizerInv, MergeInv, EndInv DEF Next, Proceed
<1> QED
  BY <1>1, <1>2

\* The type invariant, with what the CRD and the Go types admit for each field.
THEOREM TypesCorrect == Spec => []TypeOK
<1>1. IInv => TypeOK
  BY DEF IInv
<1> QED
  BY <1>1, InitInv, NextInv, PTL DEF Spec

\* What users gave survives the operator's writes of whole objects: they are made from an
\* earlier read, which the API server refuses when it is no longer the latest, and neither
\* the encoding, the defaults of the CRD nor MergeSpecs touch it.
THEOREM NothingGivenIsLost == Spec => []GivenKept
<1>1. IInv => GivenKept
  BY DEF IInv, StoreInv
<1> QED
  BY <1>1, InitInv, NextInv, PTL DEF Spec

\* The children are made from what was asked, completed with defaults: no default is missing
\* however the structs nest and whichever of them were left out.
THEOREM CompleteWhenUsed == Spec => []Filled
<1>1. IInv => Filled
  BY DEF IInv, ObjectInv, Filled
<1> QED
  BY <1>1, InitInv, NextInv, PTL DEF Spec

-----------------------------------------------------------------------------
(* One pass is enough: the safety part of Converges.                        *)

\* How far a pass has got that nobody disturbs: what it has read is as it is, and nothing in
\* it would be refused.
Undisturbed ==
    at # "idle" => fresh /\ asked = given /\ obj \in Specs /\ Valid(Encoded(obj))

AsAsked == at = "use" => Reflects(obj)

\* The pass comes to the children.
GetsOn == at \in {"finalizer", "merge"} => at' # "idle"

\* No field has to be given, and the API server admits the defaults.
DefaultsAdmitted ==
    /\ Valid(Code) /\ Valid(Schema)
    /\ \A f \in Fields : Absent \notin Refused[f]

LEMMA WrittenAdmitted ==
  ASSUME DefaultsAdmitted, NEW o \in Specs, Valid(Encoded(o))
  PROVE  /\ Valid(Written(o)) /\ Valid(Encoded(Answered(o, Written(o))))
         /\ Valid(Encoded(Merged(o)))
<1>1. ASSUME NEW f \in Fields
      PROVE  /\ Written(o)[f] \in {Encoded(o)[f], Schema[f]}
             /\ Encoded(Answered(o, Written(o)))[f] \in {Absent, Written(o)[f], Encoded(o)[f]}
             /\ Encoded(Merged(o))[f] \in {Absent, Code[f], Encoded(o)[f]}
  <2>1. Written(o)[f] \in {Encoded(o)[f], Schema[f]}
    BY DEF Written, Defaulted
  <2>2. Answered(o, Written(o))[f] \in {o[f], Written(o)[f]}
    BY DEF Answered
  <2>3. Merged(o)[f] \in {o[f], Code[f]}
    BY DEF Merged
  <2>4. Encoded(Answered(o, Written(o)))[f] \in {Absent, Written(o)[f], Encoded(o)[f]}
    BY <2>2 DEF Encoded
  <2>5. Encoded(Merged(o))[f] \in {Absent, Code[f], Encoded(o)[f]}
    BY <2>3 DEF Encoded
  <2> QED BY <2>1, <2>4, <2>5
<1> QED BY <1>1 DEF Valid, DefaultsAdmitted

LEMMA StoredValid ==
  ASSUME DefaultsAdmitted
  PROVE  /\ Init => Valid(stored)
         /\ Valid(stored) /\ [Next]_vars => Valid(stored')
<1>1. ASSUME Init PROVE Valid(stored)
  BY <1>1 DEF Init
<1>2. ASSUME Valid(stored), [Next]_vars PROVE Valid(stored')
  <2>1. CASE Proceed
    BY <1>2, <2>1 DEF Proceed, Begin, AddFinalizer, Merge, Use, Rejected, Update, cluster
  <2>2. CASE UNCHANGED vars \/ Fail
    BY <1>2, <2>2 DEF vars, cluster, Fail
  <2>3. ASSUME NEW f \in Fields, TakeBack(f) \/ \E v \in Choices[f] : Give(f, v)
        PROVE  Valid(stored')
    BY <2>3 DEF TakeBack, Give, Edit
  <2>4. ASSUME NEW g \in Structs, TakeOut(g) PROVE Valid(stored')
    BY <2>4 DEF TakeOut, Edit
  <2> QED BY <1>2, <2>1, <2>2, <2>3, <2>4 DEF Next
<1> QED BY <1>1, <1>2

LEMMA UndisturbedStep ==
  ASSUME DefaultsAdmitted, IInv, Valid(stored), Undisturbed, [Proceed]_vars
  PROVE  Undisturbed' /\ GetsOn
<1>0. stored \in Specs /\ obj \in Specs
  BY DEF IInv, TypeOK
<1>1. CASE Begin
  <2>1. Valid(Encoded(Decoded(stored))) /\ Decoded(stored) \in Specs
    <3>1. ASSUME NEW f \in Fields
          PROVE  Encoded(Decoded(stored))[f] \in {Absent, stored[f]}
      BY DEF Encoded, Decoded, Zero, Scalar
    <3>2. Decoded(stored) \in Specs
      BY <1>0, ValuesType DEF Specs, Decoded
    <3> QED BY <3>1, <3>2 DEF Valid, DefaultsAdmitted
  <2> QED BY <1>1, <2>1 DEF Begin, Undisturbed, GetsOn, cluster
<1>2. ASSUME NEW o \in Specs, Valid(Encoded(o)), Update(o), at # "idle"
      PROVE  fresh' /\ asked' = given' /\ obj' \in Specs /\ Valid(Encoded(obj'))
  <2>1. obj' = Answered(o, Written(o)) /\ obj' \in Specs
    BY <1>2, WrittenType, ShapesType DEF Update
  <2> QED BY <1>2, <2>1, WrittenAdmitted DEF Update, Undisturbed
<1>3. CASE AddFinalizer
  BY <1>0, <1>2, <1>3 DEF AddFinalizer, Undisturbed, GetsOn
<1>4. CASE Merge
  <2>1. Merged(obj) \in Specs /\ Valid(Encoded(Merged(obj)))
    BY <1>0, <1>4, ShapesType, WrittenAdmitted DEF Merge, Undisturbed
  <2>2. CASE Merged(obj) # obj
    BY <1>2, <1>4, <2>1, <2>2 DEF Merge, Undisturbed, GetsOn
  <2>3. CASE Merged(obj) = obj
    BY <1>4, <2>3 DEF Merge, Undisturbed, GetsOn
  <2> QED BY <2>2, <2>3
<1>5. CASE Use
  BY <1>5 DEF Use, Undisturbed, GetsOn
<1>6. CASE Rejected
  <2>1. Valid(Written(obj)) /\ Valid(Written(Merged(obj))) /\ fresh
    BY <1>0, <1>6, ShapesType, WrittenAdmitted DEF Rejected, Undisturbed
  <2> QED BY <1>6, <2>1 DEF Rejected
<1>7. CASE UNCHANGED vars
  BY <1>7 DEF vars, cluster, worker, Undisturbed, GetsOn
<1> QED BY <1>1, <1>3, <1>4, <1>5, <1>6, <1>7 DEF Proceed

\* Whatever users changed in between and whatever was refused before: from any point on at
\* which the worker is idle and after which users leave the object alone and no call fails,
\* every pass comes to the children, with the spec that they ask for.  Converges adds that
\* passes are made, and asks for no more than that the defaults of the code are admitted.
THEOREM OnePass ==
  ASSUME DefaultsAdmitted
  PROVE  Spec => [](at = "idle" => ([][Proceed]_vars => []AsAsked /\ [][GetsOn]_vars))
<1>1. at = "idle" => Undisturbed
  BY DEF Undisturbed
<1>2. IInv /\ Valid(stored) /\ Undisturbed /\ [Proceed]_vars => Undisturbed' /\ [GetsOn]_vars
  BY UndisturbedStep
<1>3. IInv /\ Undisturbed => AsAsked
  BY DEF IInv, ObjectInv, Undisturbed, AsAsked, Reflects
<1>4. Spec => [](IInv /\ Valid(stored))
  <2>1. Init => Valid(stored)
    BY StoredValid
  <2>2. Valid(stored) /\ [Next]_vars => Valid(stored)'
    BY StoredValid
  <2> QED BY <2>1, <2>2, InitInv, NextInv, PTL DEF Spec
<1> QED BY <1>1, <1>2, <1>3, <1>4, PTL
=============================================================================
