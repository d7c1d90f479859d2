------------------------- MODULE IdentityName_proofs -------------------------
(***************************************************************************)
(* No two pods share an identity, and what DELETE finds by the prefix is   *)
(* what CREATE had made, for every alphabet, prefix and length, as long as *)
(* no user gives a container the name that is built for a sidecar.         *)
(***************************************************************************)
EXTENDS IdentityName, SequenceTheorems, WellFoundedInduction, TLAPS

Chars == Lower \union Others \union {Dash, Dot}

-----------------------------------------------------------------------------
(* Prefixes.                                                               *)

LEMMA PrefixIff ==
  ASSUME NEW p \in Seq(Chars), NEW s \in Seq(Chars)
  PROVE  IsPrefix(p, s) <=> Len(p) <= Len(s) /\ \A i \in 1..Len(p) : s[i] = p[i]
<1> DEFINE a == SubSeq(p, 1, Len(p))  b == SubSeq(s, 1, Len(p))
<1>1. Len(p) \in Nat /\ Len(s) \in Nat
  BY LenProperties
<1>2. a = p
  BY SubSeqFull
<1>3. CASE Len(p) <= Len(s)
  <2>1. \A i \in 1..Len(p) : s[i] \in Chars
    BY <1>1, <1>3, ElementOfSeq
  <2>2. b \in Seq(Chars) /\ Len(b) = Len(p) /\ \A i \in 1..Len(p) : b[i] = s[i]
    <3>1. /\ SubSeq(s, 1, Len(p)) \in Seq(Chars)
          /\ Len(SubSeq(s, 1, Len(p))) = IF 1 <= Len(p) THEN Len(p) - 1 + 1 ELSE 0
          /\ \A i \in 1..Len(p) - 1 + 1 : SubSeq(s, 1, Len(p))[i] = s[1 + i - 1]
      BY <1>1, <2>1, SubSeqProperties
    <3> QED BY <3>1, <1>1
  <2>3. p = b <=> \A i \in 1..Len(p) : s[i] = p[i]
    BY <2>2, SeqEqual
  <2> QED BY <1>2, <1>3, <2>3 DEF IsPrefix
<1>4. CASE ~(Len(p) <= Len(s))
  BY <1>4 DEF IsPrefix
<1> QED BY <1>3, <1>4

LEMMA PrefixOfConcat ==
  ASSUME NEW p \in Seq(Chars), NEW s \in Seq(Chars), NEW t \in Seq(Chars), IsPrefix(p, s)
  PROVE  s \o t \in Seq(Chars) /\ IsPrefix(p, s \o t)
<1>1. Len(p) \in Nat /\ Len(s) \in Nat /\ Len(t) \in Nat
  BY LenProperties
<1>2. /\ s \o t \in Seq(Chars) /\ Len(s \o t) = Len(s) + Len(t)
      /\ \A i \in 1..Len(s) + Len(t) :
            (s \o t)[i] = IF i <= Len(s) THEN s[i] ELSE t[i - Len(s)]
  BY ConcatProperties
<1>3. Len(p) <= Len(s) /\ \A i \in 1..Len(p) : s[i] = p[i]
  BY PrefixIff
<1>4. \A i \in 1..Len(p) : (s \o t)[i] = p[i]
  BY <1>1, <1>2, <1>3
<1>5. Len(p) <= Len(s \o t)
  BY <1>1, <1>2, <1>3
<1>6. IsPrefix(p, s \o t) <=> Len(p) <= Len(s \o t) /\ \A i \in 1..Len(p) : (s \o t)[i] = p[i]
  BY <1>2, PrefixIff
<1> QED BY <1>2, <1>4, <1>5, <1>6

LEMMA PrefixOfCut ==
  ASSUME NEW p \in Seq(Chars), NEW s \in Seq(Chars), IsPrefix(p, s), Len(p) < MaxBase
  PROVE  /\ Cut(s) \in Seq(Chars) /\ Len(Cut(s)) <= MaxBase
         /\ Len(Cut(s)) <= Len(s) /\ \A i \in 1..Len(Cut(s)) : Cut(s)[i] = s[i]
         /\ IsPrefix(p, Cut(s))
<1>1. Len(p) \in Nat /\ Len(s) \in Nat /\ MaxBase \in Nat
  BY LenProperties, ConstantsAssumption
<1>2. CASE Len(s) > MaxBase
  <2>1. \A i \in 1..MaxBase : s[i] \in Chars
    BY <1>1, <1>2, ElementOfSeq
  <2>2. /\ SubSeq(s, 1, MaxBase) \in Seq(Chars)
        /\ Len(SubSeq(s, 1, MaxBase)) = IF 1 <= MaxBase THEN MaxBase - 1 + 1 ELSE 0
        /\ \A i \in 1..MaxBase - 1 + 1 : SubSeq(s, 1, MaxBase)[i] = s[1 + i - 1]
    BY <1>1, <2>1, SubSeqProperties
  <2>3. Cut(s) \in Seq(Chars) /\ Len(Cut(s)) = MaxBase /\ \A i \in 1..MaxBase : Cut(s)[i] = s[i]
    BY <1>1, <1>2, <2>2 DEF Cut
  <2>4. \A i \in 1..Len(p) : Cut(s)[i] = p[i]
    BY <1>1, <2>3, PrefixIff
  <2> QED BY <1>1, <1>2, <2>3, <2>4, PrefixIff
<1>3. CASE ~(Len(s) > MaxBase)
  BY <1>1, <1>3 DEF Cut
<1> QED BY <1>2, <1>3

-----------------------------------------------------------------------------
(* The name that is built.                                                 *)

LEMMA LabelNameType ==
  ASSUME NEW m \in LabelMaps
  PROVE  LabelName(m) \in Seq(Chars)
<1> DEFINE given == {i \in 1..4 : m[i] # <<>>}
<1>1. m \in [1..4 -> Seq(Chars)]
  BY ConstantsAssumption DEF Text, Chars
<1>2. CASE given = {}
  BY <1>2, EmptySeq DEF LabelName
<1>3. CASE given # {}
  <2>1. \E i \in given : \A j \in given : i <= j
    <3>1. CASE 1 \in given
      BY <3>1
    <3>2. CASE 1 \notin given /\ 2 \in given
      BY <3>2
    <3>3. CASE 1 \notin given /\ 2 \notin given /\ 3 \in given
      BY <3>3
    <3>4. CASE 1 \notin given /\ 2 \notin given /\ 3 \notin given
      BY <3>4, <1>3
    <3> QED BY <3>1, <3>2, <3>3, <3>4
  <2>2. (CHOOSE i \in given : \A j \in given : i <= j) \in 1..4
    BY <2>1
  <2> QED BY <1>1, <1>3, <2>2 DEF LabelName
<1> QED BY <1>2, <1>3

LEMMA HashType ==
  ASSUME NEW u \in Uids
  PROVE  Hash(u) \in Seq(Lower) /\ Len(Hash(u)) = HashLen
<1>1. HashLen \in Nat \ {0}
  BY ConstantsAssumption
<1>2. \A i \in 1..HashLen : u[i] \in Lower
  BY UidsAssumption
<1>3. /\ SubSeq(u, 1, HashLen) \in Seq(Lower)
      /\ Len(SubSeq(u, 1, HashLen)) = IF 1 <= HashLen THEN HashLen - 1 + 1 ELSE 0
  BY <1>1, <1>2, SubSeqProperties
<1> QED BY <1>1, <1>3 DEF Hash

\* What is cut, of a label and a namespace.
Base(name, n) == Prefix \o <<Dash>> \o name \o <<Dash>> \o n

LEMMA BaseType ==
  ASSUME NEW C, Lower \union {Dash} \subseteq C, NEW name \in Seq(C), NEW n \in Namespaces
  PROVE  Base(name, n) \in Seq(C)
<1>1. Prefix \in Seq(C) /\ <<Dash>> \in Seq(C) /\ n \in Seq(C)
  BY ConstantsAssumption DEF Text
<1>2. Prefix \o <<Dash>> \in Seq(C)
  BY <1>1, ConcatProperties
<1>3. Prefix \o <<Dash>> \o name \in Seq(C)
  BY <1>2, ConcatProperties
<1>4. Prefix \o <<Dash>> \o name \o <<Dash>> \in Seq(C)
  BY <1>1, <1>3, ConcatProperties
<1> QED BY <1>1, <1>4, ConcatProperties DEF Base

LEMMA BaseHasPrefix ==
  ASSUME NEW name \in Seq(Chars), NEW n \in Namespaces
  PROVE  Prefix \in Seq(Chars) /\ Base(name, n) \in Seq(Chars) /\ IsPrefix(Prefix, Base(name, n))
<1>1. Prefix \in Seq(Chars) /\ <<Dash>> \in Seq(Chars) /\ n \in Seq(Chars)
  BY ConstantsAssumption DEF Text, Chars
<1>2. IsPrefix(Prefix, Prefix)
  BY <1>1, PrefixIff, LenProperties
<1>3. Prefix \o <<Dash>> \in Seq(Chars) /\ IsPrefix(Prefix, Prefix \o <<Dash>>)
  BY <1>1, <1>2, PrefixOfConcat
<1>4. Prefix \o <<Dash>> \o name \in Seq(Chars) /\ IsPrefix(Prefix, Prefix \o <<Dash>> \o name)
  BY <1>1, <1>3, PrefixOfConcat
<1>5. /\ Prefix \o <<Dash>> \o name \o <<Dash>> \in Seq(Chars)
      /\ IsPrefix(Prefix, Prefix \o <<Dash>> \o name \o <<Dash>>)
  BY <1>1, <1>4, PrefixOfConcat
<1>6. /\ Base(name, n) \in Seq(Chars)
      /\ IsPrefix(Prefix, Base(name, n))
  BY <1>1, <1>5, PrefixOfConcat DEF Base
<1> QED BY <1>1, <1>6

\* The prefix survives the cut, and the length of the name is bounded.
LEMMA BuiltNameShape ==
  ASSUME NEW name \in Seq(Chars), NEW n \in Namespaces, NEW u \in Uids
  PROVE  /\ BuiltName(name, n, u) \in Seq(Chars)
         /\ IsPrefix(Prefix, BuiltName(name, n, u))
         /\ Len(BuiltName(name, n, u)) <= MaxContainer
<1> DEFINE base == Base(name, n)
<1>1. base \in Seq(Chars) /\ Prefix \in Seq(Chars) /\ IsPrefix(Prefix, base)
  BY BaseHasPrefix
<1>2. Len(Prefix) < MaxBase
  BY ConstantsAssumption
<1>3. Cut(base) \in Seq(Chars) /\ IsPrefix(Prefix, Cut(base)) /\ Len(Cut(base)) <= MaxBase
  BY <1>1, <1>2, PrefixOfCut
<1>4. <<Dash>> \in Seq(Chars) /\ Len(<<Dash>>) = 1
  BY DEF Chars
<1>5. Hash(u) \in Seq(Chars) /\ Len(Hash(u)) = HashLen
  BY HashType DEF Chars
<1>6. Cut(base) \o <<Dash>> \in Seq(Chars) /\ IsPrefix(Prefix, Cut(base) \o <<Dash>>)
  BY <1>1, <1>3, <1>4, PrefixOfConcat
<1>7. /\ Cut(base) \o <<Dash>> \o Hash(u) \in Seq(Chars)
      /\ IsPrefix(Prefix, Cut(base) \o <<Dash>> \o Hash(u))
  BY <1>1, <1>5, <1>6, PrefixOfConcat
<1>8. Len(Cut(base) \o <<Dash>>) = Len(Cut(base)) + 1
  BY <1>3, <1>4, ConcatProperties
<1>9. Len(Cut(base) \o <<Dash>> \o Hash(u)) = Len(Cut(base)) + 1 + HashLen
  BY <1>5, <1>6, <1>8, ConcatProperties
<1>10. Len(Cut(base)) + 1 + HashLen <= MaxContainer
  BY <1>3, LenProperties, ConstantsAssumption
<1>11. BuiltName(name, n, u) = Cut(base) \o <<Dash>> \o Hash(u)
  BY DEF BuiltName, Base
<1> QED BY <1>7, <1>9, <1>10, <1>11

LEMMA CutType ==
  ASSUME NEW C, NEW s \in Seq(C)
  PROVE  Cut(s) \in Seq(C)
<1>1. Len(s) \in Nat /\ MaxBase \in Nat
  BY LenProperties, ConstantsAssumption
<1>2. CASE Len(s) > MaxBase
  <2>1. \A i \in 1..MaxBase : s[i] \in C
    BY <1>1, <1>2, ElementOfSeq
  <2> QED BY <1>1, <1>2, <2>1, SubSeqProperties DEF Cut
<1>3. CASE ~(Len(s) > MaxBase)
  BY <1>3 DEF Cut
<1> QED BY <1>2, <1>3

\* The first and the last character of a name are never dashes or dots.
LEMMA EndsInLower ==
  ASSUME NEW name \in Seq(Chars), NEW n \in Namespaces, NEW u \in Uids
  PROVE  LET s == BuiltName(name, n, u)
         IN  s # <<>> /\ s[1] \in Lower /\ s[Len(s)] \in Lower
<1> DEFINE s == BuiltName(name, n, u)
           front == Cut(Base(name, n)) \o <<Dash>>
<1>1. s \in Seq(Chars) /\ IsPrefix(Prefix, s)
  BY BuiltNameShape
<1>2. Prefix \in Seq(Lower) /\ Prefix \in Seq(Chars) /\ Len(Prefix) \in Nat \ {0}
  BY ConstantsAssumption, LenProperties, EmptySeq DEF Text, Chars
<1>3. Prefix[1] \in Lower
  BY <1>2, ElementOfSeq
<1>4. s[1] \in Lower /\ Len(s) \in Nat \ {0}
  <2>1. Len(Prefix) <= Len(s) /\ \A i \in 1..Len(Prefix) : s[i] = Prefix[i]
    BY <1>1, <1>2, PrefixIff
  <2>2. Len(s) \in Nat
    BY <1>1, LenProperties
  <2> QED BY <1>2, <1>3, <2>1, <2>2
<1>5. s = front \o Hash(u)
  BY DEF BuiltName, Base
<1>6. front \in Seq(Chars)
  <2>1. Base(name, n) \in Seq(Chars)
    BY BaseHasPrefix
  <2>2. <<Dash>> \in Seq(Chars)
    BY DEF Chars
  <2> QED BY <2>1, <2>2, CutType, ConcatProperties
<1> HIDE DEF s, front
<1>7. /\ Hash(u) \in Seq(Chars) /\ Hash(u) \in Seq(Lower) /\ Len(Hash(u)) = HashLen
      /\ HashLen \in Nat \ {0}
  BY HashType, ConstantsAssumption DEF Chars
<1>8. Hash(u)[HashLen] \in Lower
  BY <1>7, ElementOfSeq
<1>9. Len(front) \in Nat
  BY <1>6, LenProperties
<1>10. /\ Len(s) = Len(front) + HashLen
       /\ \A i \in 1..Len(front) + Len(Hash(u)) :
             s[i] = IF i <= Len(front) THEN front[i] ELSE Hash(u)[i - Len(front)]
  BY <1>5, <1>6, <1>7, ConcatProperties
<1>11. s[Len(s)] \in Lower
  <2>1. PICK k \in 1..Len(front) + Len(Hash(u)) :
             k = Len(s) /\ ~(k <= Len(front)) /\ k - Len(front) = HashLen
    BY <1>7, <1>9, <1>10
  <2>2. s[k] = Hash(u)[k - Len(front)]
    BY <2>1, <1>10
  <2> QED BY <2>1, <2>2, <1>8
<1>12. s # <<>>
  BY <1>4
<1> QED BY <1>4, <1>11, <1>12 DEF s

\* A name ends with what is taken of the UID.
LEMMA EndsWithHash ==
  ASSUME NEW name \in Seq(Chars), NEW n \in Namespaces, NEW u \in Uids
  PROVE  LET s == BuiltName(name, n, u) IN
         /\ Len(s) \in Nat /\ Len(s) > HashLen
         /\ \A i \in 1..HashLen : s[Len(s) - HashLen + i] = Hash(u)[i]
<1> DEFINE s == BuiltName(name, n, u)
           front == Cut(Base(name, n)) \o <<Dash>>
<1>1. s = front \o Hash(u)
  BY DEF BuiltName, Base
<1>2. Cut(Base(name, n)) \in Seq(Chars) /\ <<Dash>> \in Seq(Chars) /\ Len(<<Dash>>) = 1
  <2>1. Base(name, n) \in Seq(Chars)
    BY BaseHasPrefix
  <2>2. <<Dash>> \in Seq(Chars) /\ Len(<<Dash>>) = 1
    BY DEF Chars
  <2> QED BY <2>1, <2>2, CutType
<1>3. /\ front \in Seq(Chars) /\ Len(front) = Len(Cut(Base(name, n))) + 1
      /\ Len(Cut(Base(name, n))) \in Nat
  BY <1>2, ConcatProperties, LenProperties
<1>4. Hash(u) \in Seq(Chars) /\ Len(Hash(u)) = HashLen /\ HashLen \in Nat \ {0}
  BY HashType, ConstantsAssumption DEF Chars
<1> HIDE DEF s, front
<1>5. /\ Len(s) = Len(front) + Len(Hash(u))
      /\ \A i \in 1..Len(front) + Len(Hash(u)) :
            s[i] = IF i <= Len(front) THEN front[i] ELSE Hash(u)[i - Len(front)]
  BY <1>1, <1>3, <1>4, ConcatProperties
<1>6. ASSUME NEW i \in 1..HashLen PROVE s[Len(s) - HashLen + i] = Hash(u)[i]
  <2>1. PICK j \in 1..Len(front) + Len(Hash(u)) :
             j = Len(front) + i /\ ~(j <= Len(front)) /\ j - Len(front) = i
                /\ j = Len(s) - HashLen + i
    BY <1>3, <1>4, <1>5
  <2> QED BY <2>1, <1>5
<1> QED BY <1>3, <1>4, <1>5, <1>6 DEF s

\* A label in lower case without dots makes a name that is valid, and the sidecar's.
LEMMA PlainNameFits ==
  ASSUME NEW name \in Seq(Chars), Plain(name), NEW n \in Namespaces, NEW u \in Uids
  PROVE  Valid(BuiltName(name, n, u)) /\ ContainerName(BuiltName(name, n, u))
<1> DEFINE C == Lower \union {Dash}
           s == BuiltName(name, n, u)
<1>1. name \in Seq(C)
  <2>1. Len(name) \in Nat /\ \A i \in 1..Len(name) : name[i] \in C
    BY LenProperties DEF Plain
  <2>2. name \in [1..Len(name) -> C]
    BY <2>1, LenProperties
  <2> QED BY <2>1, <2>2
<1>2. s \in Seq(C)
  <2>1. Base(name, n) \in Seq(C)
    BY <1>1, BaseType
  <2>2. <<Dash>> \in Seq(C) /\ Hash(u) \in Seq(C)
    BY HashType
  <2>3. Cut(Base(name, n)) \o <<Dash>> \in Seq(C)
    BY <2>1, <2>2, CutType, ConcatProperties
  <2>4. Cut(Base(name, n)) \o <<Dash>> \o Hash(u) \in Seq(C)
    BY <2>2, <2>3, ConcatProperties
  <2> QED BY <2>4 DEF BuiltName, Base
<1> HIDE DEF s
<1>3. \A i \in 1..Len(s) : s[i] # Dot
  BY <1>2, ElementOfSeq, ConstantsAssumption
<1>4. Len(s) \in Nat
  BY <1>2, LenProperties
<1>5. \A i \in 2..Len(s) - 1 : s[i] # Dot
  BY <1>3, <1>4
<1>6. s # <<>> /\ s[1] \in Lower /\ s[Len(s)] \in Lower
  BY EndsInLower DEF s
<1>7. s \in Names
  BY <1>2 DEF Names, Text
<1>8. Valid(s)
  BY <1>5, <1>6, <1>7 DEF Valid
<1>9. Len(s) <= MaxContainer
  BY BuiltNameShape DEF s
<1> QED BY <1>3, <1>8, <1>9 DEF ContainerName, s

\* Reviews whose UIDs differ in the characters that are taken of them make different names,
\* whatever the labels, the namespaces and the cut: the abstraction of TunnelWebhook, where a
\* review stands for the name made in it (utilities.go:84-117).
THEOREM NamesOfReviewsDiffer ==
  ASSUME NEW m1 \in LabelMaps, NEW m2 \in LabelMaps, NEW n1 \in Namespaces, NEW n2 \in Namespaces,
         NEW u1 \in Uids, NEW u2 \in Uids, Hash(u1) # Hash(u2)
  PROVE  BuiltName(LabelName(m1), n1, u1) # BuiltName(LabelName(m2), n2, u2)
<1> DEFINE s1 == BuiltName(LabelName(m1), n1, u1)
           s2 == BuiltName(LabelName(m2), n2, u2)
<1>1. LabelName(m1) \in Seq(Chars) /\ LabelName(m2) \in Seq(Chars)
  BY LabelNameType
<1>2. \A i \in 1..HashLen : s1[Len(s1) - HashLen + i] = Hash(u1)[i]
  BY <1>1, EndsWithHash
<1>3. \A i \in 1..HashLen : s2[Len(s2) - HashLen + i] = Hash(u2)[i]
  BY <1>1, EndsWithHash
<1> HIDE DEF s1, s2
<1>4. ASSUME s1 = s2 PROVE FALSE
  <2>1. \A i \in 1..HashLen : Hash(u1)[i] = Hash(u2)[i]
    BY <1>2, <1>3, <1>4
  <2>2. /\ Hash(u1) \in Seq(Lower) /\ Len(Hash(u1)) = HashLen
        /\ Hash(u2) \in Seq(Lower) /\ Len(Hash(u2)) = HashLen
    BY HashType
  <2> HIDE DEF s1, s2
  <2> QED BY <2>1, <2>2, SeqEqual
<1> QED BY <1>4 DEF s1, s2

-----------------------------------------------------------------------------
(* What DELETE finds.                                                      *)

\* The names that CREATE can make.
BuiltNames == {BuiltName(LabelName(m), n, u) : m \in LabelMaps, n \in Namespaces, u \in Uids}

\* No user gives a container a name that can be that of a sidecar.
NoNamesake == \A l \in Lists : \A i \in 1..Len(l) : l[i] \notin BuiltNames

\* No user gives a container a name that starts with the prefix.
NoLookalike == \A l \in Lists : \A i \in 1..Len(l) : ~IsPrefix(Prefix, l[i])

\* The labels are in lower case, without dots.
PlainLabels == \A m \in LabelMaps : Plain(LabelName(m))

\* A pod's containers: the users', and the sidecar.
Injected(cs) == \E l \in Lists, name \in BuiltNames : cs = Append(l, name)

LEMMA BuiltNamesShape ==
  ASSUME NEW name \in BuiltNames
  PROVE  name \in Seq(Chars) /\ IsPrefix(Prefix, name)
BY LabelNameType, BuiltNameShape DEF BuiltNames

LEMMA LookalikesOnly == NoLookalike => NoNamesake
BY BuiltNamesShape DEF NoLookalike, NoNamesake

LEMMA ListType ==
  ASSUME NEW l \in Lists
  PROVE  l \in Seq(Names) /\ l \in Seq(Seq(Chars)) /\ Len(l) \in Nat
<1>1. l \in Seq(Seq(Lower \union {Dash}))
  BY ConstantsAssumption DEF Text
<1>2. Seq(Lower \union {Dash}) \subseteq Seq(Chars) /\ Seq(Lower \union {Dash}) \subseteq Names
  BY DEF Chars, Names, Text
<1> QED BY <1>1, <1>2, LenProperties

LEMMA LastOf ==
  ASSUME NEW l \in Lists, NEW name \in BuiltNames
  PROVE  LET cs == Append(l, name)
         IN  /\ Injected(cs) /\ cs # <<>> /\ Len(cs) = Len(l) + 1 /\ Len(cs) \in Nat
             /\ \A i \in 1..Len(l) : cs[i] = l[i]
             /\ cs[Len(cs)] = name
<1>1. l \in Seq(Seq(Chars)) /\ Len(l) \in Nat /\ name \in Seq(Chars)
  BY ListType, BuiltNamesShape
<1>2. /\ Append(l, name) # <<>> /\ Len(Append(l, name)) = Len(l) + 1
      /\ \A i \in 1..Len(l) : Append(l, name)[i] = l[i]
      /\ Append(l, name)[Len(l) + 1] = name
  BY <1>1, AppendProperties
<1> QED BY <1>1, <1>2 DEF Injected

\* A set of numbers that is not empty has a least one.
LEMMA LeastElement ==
  ASSUME NEW S \in SUBSET Nat, S # {}
  PROVE  \E i \in S : \A j \in S : i <= j
<1> DEFINE R == OpToRel(<, Nat)
<1>1. IsWellFoundedOn(R, Nat)
  BY NatLessThanWellFounded
<1>2. \A i, j \in Nat : <<j, i>> \in R <=> j < i
  BY DEF OpToRel
<1> HIDE DEF R
<1>3. PICK i \in S : \A j \in S : ~(<<j, i>> \in R)
  BY <1>1, WFMin
<1>4. \A j \in S : ~(j < i)
  BY <1>2, <1>3
<1>5. i \in Nat /\ \A j \in S : j \in Nat
  OBVIOUS
<1>6. \A j \in S : i <= j
  BY <1>4, <1>5
<1> QED BY <1>6

\* The sidecar has the prefix, so that DELETE finds something.
LEMMA FindsOne ==
  ASSUME NEW l \in Lists, NEW name \in BuiltNames
  PROVE  LET cs == Append(l, name) IN
         \E i \in 1..Len(cs) : IsPrefix(Prefix, cs[i]) /\ hasContainer(cs) = cs[i]
<1> DEFINE cs == Append(l, name)
           found == {i \in 1..Len(cs) : IsPrefix(Prefix, cs[i])}
<1>1. Len(cs) \in found
  BY LastOf, ListType, BuiltNamesShape
<1>2. \E i \in found : \A j \in found : i <= j
  <2>1. found \in SUBSET Nat /\ found # {}
    BY <1>1
  <2> HIDE DEF found
  <2> QED BY <2>1, LeastElement
<1>3. (CHOOSE i \in found : \A j \in found : i <= j) \in found
  BY <1>2
<1>4. hasContainer(cs) = cs[CHOOSE i \in found : \A j \in found : i <= j]
  BY <1>1 DEF hasContainer
<1> QED BY <1>3, <1>4

\* What it finds is the sidecar, or a name that no identity was made under.
LEMMA FindsNoOther ==
  ASSUME NoNamesake, NEW cs, Injected(cs)
  PROVE  /\ cs # <<>> /\ cs[Len(cs)] \in BuiltNames
         /\ hasContainer(cs) = cs[Len(cs)] \/ hasContainer(cs) \notin BuiltNames
<1>1. PICK l \in Lists, name \in BuiltNames : cs = Append(l, name)
  BY DEF Injected
<1>2. PICK i \in 1..Len(cs) : IsPrefix(Prefix, cs[i]) /\ hasContainer(cs) = cs[i]
  BY <1>1, FindsOne
<1>3. /\ cs # <<>> /\ Len(cs) = Len(l) + 1 /\ Len(l) \in Nat /\ cs[Len(cs)] = name
      /\ \A j \in 1..Len(l) : cs[j] = l[j]
  BY <1>1, LastOf, ListType
<1>4. CASE i = Len(cs)
  BY <1>2, <1>3, <1>4
<1>5. CASE i # Len(cs)
  <2>1. i \in 1..Len(l)
    BY <1>3, <1>5
  <2> QED BY <1>2, <1>3, <2>1 DEF NoNamesake
<1> QED BY <1>4, <1>5

\* Where no other container starts with the prefix, it is the sidecar.
LEMMA FindsOwn ==
  ASSUME NEW cs, Injected(cs), \A i \in 1..Len(cs) - 1 : ~IsPrefix(Prefix, cs[i])
  PROVE  hasContainer(cs) = cs[Len(cs)]
<1>1. PICK l \in Lists, name \in BuiltNames : cs = Append(l, name)
  BY DEF Injected
<1>2. PICK i \in 1..Len(cs) : IsPrefix(Prefix, cs[i]) /\ hasContainer(cs) = cs[i]
  BY <1>1, FindsOne
<1>3. Len(cs) \in Nat
  BY <1>1, LastOf
<1>4. i = Len(cs)
  BY <1>2, <1>3
<1> QED BY <1>2, <1>4

LEMMA NoLookalikeThere ==
  ASSUME NoLookalike, NEW cs, Injected(cs)
  PROVE  \A i \in 1..Len(cs) - 1 : ~IsPrefix(Prefix, cs[i])
<1>1. PICK l \in Lists, name \in BuiltNames : cs = Append(l, name)
  BY DEF Injected
<1>2. /\ Len(cs) = Len(l) + 1 /\ Len(l) \in Nat
      /\ \A i \in 1..Len(l) : cs[i] = l[i]
  BY <1>1, LastOf, ListType
<1> QED BY <1>2 DEF NoLookalike

-----------------------------------------------------------------------------
(* Types.                                                                  *)

Typed == TypeOK /\ pod = [p \in Pods |-> pod[p]]

LEMMA InitTyped == Init => Typed
<1> SUFFICES ASSUME Init PROVE Typed
  OBVIOUS
<1>1. \A p \in Pods : pod[p] = <<>>
  BY DEF Init
<1>2. pod = [p \in Pods |-> pod[p]]
  BY DEF Init
<1>3. \A p \in Pods : pod[p] \in Seq(Names)
  BY <1>1, EmptySeq
<1>4. identities = {} /\ used = {} /\ last.answer = None
  BY DEF Init
<1> QED BY <1>2, <1>3, <1>4 DEF Typed, TypeOK

LEMMA CreateTyped ==
  ASSUME Typed, NEW p \in Pods, NEW m \in LabelMaps, NEW n \in Namespaces, NEW l \in Lists,
         NEW u \in Uids, Create(p, m, n, l, u)
  PROVE  Typed'
<1> DEFINE name == BuiltName(LabelName(m), n, u)
<1>1. used' \subseteq Uids
  BY DEF Create, Typed, TypeOK
<1>2. last'.labels = m /\ last'.answer \in Answers
  <2>1. \E a \in Answers : last' = [labels |-> m, answer |-> a]
    BY DEF Create, Answers
  <2> QED BY <2>1
<1>3. \/ UNCHANGED <<pod, identities>>
      \/ /\ Valid(name) /\ identities' = identities \union {name}
         /\ UNCHANGED pod \/ pod' = [pod EXCEPT ![p] = Append(l, name)]
  BY DEF Create
<1> HIDE DEF name
<1>4. \A x \in identities' : x \in Names
  BY <1>3 DEF Typed, TypeOK, Valid
<1>5. pod' = [q \in Pods |-> pod'[q]] /\ \A q \in Pods : pod'[q] \in Seq(Names)
  <2>1. CASE UNCHANGED pod
    BY <2>1 DEF Typed, TypeOK
  <2>2. CASE pod' = [pod EXCEPT ![p] = Append(l, name)] /\ Valid(name)
    <3>1. Append(l, name) \in Seq(Names)
      BY <2>2, ListType, AppendProperties DEF Valid
    <3>2. /\ pod' = [q \in Pods |-> pod'[q]] /\ pod'[p] = Append(l, name)
          /\ \A q \in Pods \ {p} : pod'[q] = pod[q]
      BY <2>2 DEF Typed
    <3> QED BY <3>1, <3>2 DEF Typed, TypeOK
  <2> QED BY <1>3, <2>1, <2>2
<1> QED BY <1>1, <1>2, <1>4, <1>5 DEF Typed, TypeOK

LEMMA DeleteTyped ==
  ASSUME Typed, NEW p \in Pods, Delete(p)
  PROVE  Typed'
<1>1. /\ pod' = [q \in Pods |-> pod'[q]] /\ pod'[p] = <<>>
      /\ \A q \in Pods \ {p} : pod'[q] = pod[q]
  BY DEF Delete, Typed
<1>2. \A q \in Pods : pod'[q] \in Seq(Names)
  BY <1>1, EmptySeq DEF Typed, TypeOK
<1>3. identities' \subseteq identities /\ UNCHANGED <<used, last>>
  BY DEF Delete
<1> QED BY <1>1, <1>2, <1>3 DEF Typed, TypeOK

\* Whatever characters the labels have, the names of identities and of containers are in lower
\* case, dashes and dots (utilities.go:84-117).
THEOREM TypeCorrect == Spec => []TypeOK
<1>1. ASSUME Typed, [Next]_vars PROVE Typed'
  <2>1. CASE UNCHANGED vars
    BY <1>1, <2>1 DEF Typed, TypeOK, vars
  <2> QED BY <1>1, <2>1, CreateTyped, DeleteTyped DEF Next
<1>2. Typed => TypeOK
  BY DEF Typed
<1> QED BY <1>1, <1>2, InitTyped, PTL DEF Spec

-----------------------------------------------------------------------------
(* The invariants.                                                         *)

Shape ==
    /\ pod = [p \in Pods |-> pod[p]]
    /\ \A p \in Pods : pod[p] = <<>> \/ Injected(pod[p])

\* The identity of a pod that is there is there as well.
Held == \A p \in Running : Mine(p) \in identities

IInv == Shape /\ OwnName /\ Held

\* The four ways a CREATE can go.
LEMMA CreateCases ==
  ASSUME NEW p \in Pods, NEW m \in LabelMaps, NEW n \in Namespaces, NEW l \in Lists,
         NEW u \in Uids, Create(p, m, n, l, u), NoNamesake
  PROVE  LET name == BuiltName(LabelName(m), n, u) IN
         /\ name \in BuiltNames /\ pod[p] = <<>>
         /\ \/ UNCHANGED <<pod, identities>>
            \/ /\ name \notin identities /\ identities' = identities \union {name}
               /\ \/ UNCHANGED pod /\ ~Plain(LabelName(m))
                  \/ pod' = [pod EXCEPT ![p] = Append(l, name)]
         /\ last'.answer \in {"badName", "refused"} => ~Plain(LabelName(last'.labels))
<1> DEFINE name == BuiltName(LabelName(m), n, u)
<1>1. LabelName(m) \in Seq(Chars)
  BY LabelNameType
<1>2. name \in BuiltNames
  BY DEF BuiltNames
<1>3. \A i \in 1..Len(l) : l[i] # name
  BY <1>2 DEF NoNamesake
<1>4. Plain(LabelName(m)) => Valid(name) /\ ContainerName(name)
  BY <1>1, PlainNameFits
<1> HIDE DEF name
<1>5. pod[p] = <<>>
  BY DEF Create
<1>6. CASE /\ last' = [labels |-> m, answer |-> "noLabel"]
           /\ UNCHANGED <<pod, identities>>
  BY <1>2, <1>5, <1>6 DEF name
<1>7. CASE /\ ~Valid(name) /\ last' = [labels |-> m, answer |-> "badName"]
           /\ UNCHANGED <<pod, identities>>
  BY <1>2, <1>4, <1>5, <1>7 DEF name
<1>8. CASE /\ last' = [labels |-> m, answer |-> "inUse"]
           /\ UNCHANGED <<pod, identities>>
  BY <1>2, <1>5, <1>8 DEF name
<1>9. CASE /\ name \notin identities /\ identities' = identities \union {name}
           /\ last' = [labels |-> m, answer |-> "created"]
           /\ pod' = [pod EXCEPT ![p] = Append(l, name)]
  BY <1>2, <1>5, <1>9 DEF name
<1>10. CASE /\ name \notin identities /\ identities' = identities \union {name}
            /\ ~(ContainerName(name) /\ \A i \in 1..Len(l) : l[i] # name)
            /\ last' = [labels |-> m, answer |-> "refused"]
            /\ UNCHANGED pod
  BY <1>2, <1>3, <1>4, <1>5, <1>10 DEF name
<1> QED
  BY <1>6, <1>7, <1>8, <1>9, <1>10 DEF Create, Taken, name

LEMMA Initially == Init => IInv /\ NothingLeft
<1> SUFFICES ASSUME Init PROVE IInv /\ NothingLeft
  OBVIOUS
<1>1. \A p \in Pods : pod[p] = <<>>
  BY DEF Init
<1>2. pod = [p \in Pods |-> pod[p]]
  BY DEF Init
<1>3. Running = {}
  BY <1>1 DEF Running
<1> QED BY <1>1, <1>2, <1>3 DEF Init, IInv, Shape, OwnName, Held, NothingLeft

\* A pod comes with its identity.
LEMMA CreatedKeeps ==
  ASSUME IInv, NEW p \in Pods, NEW l \in Lists, NEW name \in BuiltNames,
         pod[p] = <<>>, name \notin identities,
         identities' = identities \union {name}, pod' = [pod EXCEPT ![p] = Append(l, name)]
  PROVE  IInv' /\ (NothingLeft => NothingLeft')
<1>1. /\ Append(l, name) # <<>> /\ Append(l, name)[Len(Append(l, name))] = name
      /\ Injected(Append(l, name))
  BY LastOf
<1>2. /\ pod' = [q \in Pods |-> pod'[q]] /\ pod'[p] = Append(l, name)
      /\ \A q \in Pods \ {p} : pod'[q] = pod[q]
  BY DEF IInv, Shape
<1>3. Running' = Running \union {p} /\ p \notin Running
  BY <1>1, <1>2 DEF Running
<1>4. Mine(p)' = name /\ \A q \in Running : Mine(q)' = Mine(q)
  BY <1>1, <1>2, <1>3 DEF Mine, Running
<1>5. \A q \in Running : Mine(q) # name
  BY DEF IInv, Held
<1>6. Shape'
  BY <1>1, <1>2 DEF IInv, Shape
<1>7. OwnName'
  BY <1>3, <1>4, <1>5 DEF IInv, OwnName
<1>8. Held'
  BY <1>3, <1>4 DEF IInv, Held
<1>9. ASSUME NothingLeft PROVE NothingLeft'
  BY <1>3, <1>4, <1>9 DEF NothingLeft
<1> QED BY <1>6, <1>7, <1>8, <1>9 DEF IInv

\* It takes its own identity with it, or none.
LEMMA DeleteKeeps ==
  ASSUME NoNamesake, IInv, NEW p \in Pods, Delete(p)
  PROVE  IInv' /\ (NoLookalike /\ NothingLeft => NothingLeft')
<1> DEFINE gone == hasContainer(pod[p])
<1>1. p \in Running /\ \A q \in Running : Injected(pod[q])
  BY DEF Delete, IInv, Shape, Running
<1>2. \A q \in Running : Mine(q) \in BuiltNames
  BY <1>1, FindsNoOther DEF Mine
<1>3. gone = Mine(p) \/ gone \notin BuiltNames
  BY <1>1, FindsNoOther DEF Mine
<1>4. NoLookalike => gone = Mine(p)
  BY <1>1, FindsOwn, NoLookalikeThere DEF Mine
<1>5. identities' = identities \ {gone}
  BY DEF Delete
<1> HIDE DEF gone
<1>6. /\ pod' = [q \in Pods |-> pod'[q]] /\ pod'[p] = <<>>
      /\ \A q \in Pods \ {p} : pod'[q] = pod[q]
  BY DEF Delete, IInv, Shape
<1>7. Running' = Running \ {p}
  BY <1>6 DEF Running
<1>8. \A q \in Running' : Mine(q)' = Mine(q) /\ Mine(q) # Mine(p)
  BY <1>1, <1>6, <1>7 DEF Mine, Running, IInv, OwnName
<1>9. \A q \in Running' : Mine(q) # gone
  BY <1>2, <1>3, <1>7, <1>8
<1>10. Shape'
  BY <1>6 DEF IInv, Shape
<1>11. OwnName'
  BY <1>7, <1>8 DEF IInv, OwnName
<1>12. Held'
  BY <1>5, <1>7, <1>8, <1>9 DEF IInv, Held
<1>13. ASSUME NoLookalike, NothingLeft PROVE NothingLeft'
  BY <1>1, <1>4, <1>5, <1>7, <1>8, <1>13 DEF NothingLeft
<1> QED BY <1>10, <1>11, <1>12, <1>13 DEF IInv

LEMMA SameKeeps ==
  ASSUME IInv, UNCHANGED pod, identities \subseteq identities'
  PROVE  IInv' /\ (identities' = identities => (NothingLeft => NothingLeft'))
BY DEF IInv, Shape, OwnName, Held, Running, Mine, NothingLeft

LEMMA Inductive ==
  ASSUME NoNamesake, IInv, [Next]_vars
  PROVE  IInv' /\ (NoLookalike /\ PlainLabels /\ NothingLeft => NothingLeft')
<1>1. ASSUME NEW p \in Pods, NEW m \in LabelMaps, NEW n \in Namespaces, NEW l \in Lists,
             NEW u \in Uids, Create(p, m, n, l, u)
      PROVE  IInv' /\ (NoLookalike /\ PlainLabels /\ NothingLeft => NothingLeft')
  <2> DEFINE name == BuiltName(LabelName(m), n, u)
  <2>1. name \in BuiltNames /\ pod[p] = <<>>
    BY <1>1, CreateCases
  <2>2. \/ UNCHANGED <<pod, identities>>
        \/ /\ name \notin identities /\ identities' = identities \union {name}
           /\ \/ UNCHANGED pod /\ ~PlainLabels
              \/ pod' = [pod EXCEPT ![p] = Append(l, name)]
    BY <1>1, CreateCases DEF PlainLabels
  <2> HIDE DEF name
  <2>3. CASE UNCHANGED <<pod, identities>>
    BY <2>3, SameKeeps
  <2>4. CASE UNCHANGED pod /\ identities' = identities \union {name} /\ ~PlainLabels
    BY <2>4, SameKeeps
  <2>5. CASE /\ name \notin identities /\ identities' = identities \union {name}
             /\ pod' = [pod EXCEPT ![p] = Append(l, name)]
    BY <2>1, <2>5, CreatedKeeps
  <2> QED BY <2>2, <2>3, <2>4, <2>5
<1>2. ASSUME NEW p \in Pods, Delete(p)
      PROVE  IInv' /\ (NoLookalike /\ PlainLabels /\ NothingLeft => NothingLeft')
  BY <1>2, DeleteKeeps
<1>3. CASE UNCHANGED vars
  BY <1>3, SameKeeps DEF vars
<1> QED BY <1>1, <1>2, <1>3 DEF Next

\* As long as no container of a user has a name that is built for a sidecar, no two pods share
\* an identity, even when the UIDs of their reviews begin alike and even when containers of
\* users start with the prefix (utilities.go:98-111).
THEOREM NamesAreOwn == ASSUME NoNamesake PROVE Spec => []OwnName
<1>1. IInv /\ [Next]_vars => IInv'
  BY Inductive
<1>2. IInv => OwnName
  BY DEF IInv
<1> QED BY <1>1, <1>2, Initially, PTL DEF Spec

\* The identity of a pod that runs is there, and is the one that DELETE finds by the prefix if
\* the pod itself has no other container that starts with it (utilities.go:25-32, pods.go:547).
THEOREM NamesAreFound == ASSUME NoNamesake PROVE Spec => []FoundAgain
<1>1. IInv /\ [Next]_vars => IInv'
  BY Inductive
<1>2. ASSUME IInv PROVE FoundAgain
  <2>1. \A p \in Running : Injected(pod[p]) /\ Mine(p) \in identities
    BY <1>2 DEF IInv, Shape, Held, Running
  <2> QED BY <2>1, FindsOwn DEF FoundAgain, Mine, NoLookalikeIn
<1> QED BY <1>1, <1>2, Initially, PTL DEF Spec

\* If the labels have no dots and no upper case either, there is an identity for each pod
\* and for no other (utilities.go:25-32, pods.go:547).
THEOREM NothingIsLeft == ASSUME NoLookalike, PlainLabels PROVE Spec => []NothingLeft
<1>1. IInv /\ NothingLeft /\ [Next]_vars => (IInv /\ NothingLeft)'
  BY Inductive, LookalikesOnly
<1> QED BY <1>1, Initially, PTL DEF Spec

\* A lower-case label without dots is good for every namespace, UID and cut
\* (utilities.go:98-117).
THEOREM PlainIsAccepted == ASSUME NoNamesake PROVE Spec => []PlainAccepted
<1>1. Init => PlainAccepted
  BY ConstantsAssumption DEF Init, PlainAccepted
<1>2. PlainAccepted /\ [Next]_vars => PlainAccepted'
  <2> SUFFICES ASSUME PlainAccepted, [Next]_vars PROVE PlainAccepted'
    OBVIOUS
  <2>1. ASSUME NEW p \in Pods, NEW m \in LabelMaps, NEW n \in Namespaces, NEW l \in Lists,
               NEW u \in Uids, Create(p, m, n, l, u)
        PROVE  PlainAccepted'
    BY <2>1, CreateCases DEF PlainAccepted
  <2>2. ASSUME NEW p \in Pods, Delete(p) PROVE PlainAccepted'
    BY <2>2 DEF Delete, PlainAccepted
  <2>3. CASE UNCHANGED vars
    BY <2>3 DEF vars, PlainAccepted
  <2> QED BY <2>1, <2>2, <2>3 DEF Next
<1> QED BY <1>1, <1>2, PTL DEF Spec
=============================================================================
