--------------------------- MODULE SequenceLemmas ---------------------------
(***************************************************************************)
(* Facts about the queues of the components, as sets of what is in them:   *)
(* what the operations do to the members and to their being distinct.      *)
(***************************************************************************)
EXTENDS Integers, SequencesExt, SequenceTheorems, WellFoundedInduction, TLAPS

\* The members of an empty sequence, and of any other.
LEMMA EmptyMembers == ToSet(<<>>) = {} /\ IsInjective(<<>>)
BY DEF ToSet, IsInjective

\* A member has an index.
LEMMA MemberIndex ==
  ASSUME NEW S, NEW s \in Seq(S)
  PROVE  /\ ToSet(s) \subseteq S
         /\ \A x : x \in ToSet(s) <=> \E i \in 1..Len(s) : s[i] = x
BY DEF ToSet

\* Appending adds one member, and keeps the members distinct when it is new.
LEMMA AppendMember ==
  ASSUME NEW S, NEW s \in Seq(S), NEW x \in S
  PROVE  /\ Append(s, x) \in Seq(S) /\ Len(Append(s, x)) = Len(s) + 1
         /\ ToSet(Append(s, x)) = ToSet(s) \cup {x}
         /\ IsInjective(s) /\ x \notin ToSet(s) => IsInjective(Append(s, x))
<1> DEFINE a == Append(s, x)
<1>1. /\ a \in Seq(S) /\ Len(a) = Len(s) + 1 /\ Len(s) \in Nat
      /\ \A i \in 1..Len(s) : a[i] = s[i]
      /\ a[Len(s) + 1] = x
      /\ DOMAIN a = 1..(Len(s) + 1) /\ DOMAIN s = 1..Len(s)
  BY AppendProperties, LenProperties
<1> HIDE DEF a
<1>2. ToSet(a) = ToSet(s) \cup {x}
  <2>1. ASSUME NEW i \in DOMAIN a PROVE a[i] \in ToSet(s) \cup {x}
    BY <1>1 DEF ToSet
  <2>2. ASSUME NEW i \in DOMAIN s PROVE s[i] \in ToSet(a)
    BY <1>1 DEF ToSet
  <2>3. x \in ToSet(a)
    BY <1>1 DEF ToSet
  <2> QED BY <2>1, <2>2, <2>3 DEF ToSet
<1>3. ASSUME IsInjective(s), x \notin ToSet(s), NEW i \in DOMAIN a, NEW j \in DOMAIN a, a[i] = a[j]
      PROVE  i = j
  <2>1. \A k \in 1..Len(s) : s[k] # x
    BY <1>1, <1>3 DEF ToSet
  <2> QED BY <1>1, <1>3, <2>1 DEF IsInjective
<1> QED BY <1>1, <1>2, <1>3 DEF IsInjective, a

\* Taking the head removes one member; it is not among the rest when the members
\* are distinct.
LEMMA TailMembers ==
  ASSUME NEW S, NEW s \in Seq(S), s # <<>>
  PROVE  /\ Head(s) \in S /\ Tail(s) \in Seq(S) /\ Len(Tail(s)) = Len(s) - 1
         /\ ToSet(s) = ToSet(Tail(s)) \cup {Head(s)}
         /\ IsInjective(s) => IsInjective(Tail(s)) /\ Head(s) \notin ToSet(Tail(s))
<1> DEFINE a == Tail(s)
<1>1. /\ Head(s) \in S /\ a \in Seq(S) /\ Len(a) = Len(s) - 1 /\ Len(s) \in Nat \ {0}
      /\ \A i \in 1..Len(a) : a[i] = s[i + 1]
      /\ Head(s) = s[1]
      /\ DOMAIN a = 1..(Len(s) - 1) /\ DOMAIN s = 1..Len(s)
  BY HeadTailProperties, LenProperties, EmptySeq
<1> HIDE DEF a
<1>2. ToSet(s) = ToSet(a) \cup {Head(s)}
  <2>1. ASSUME NEW i \in DOMAIN s PROVE s[i] \in ToSet(a) \cup {Head(s)}
    <3>1. CASE i = 1
      BY <3>1, <1>1
    <3>2. CASE i # 1
      <4>1. i - 1 \in DOMAIN a /\ a[i - 1] = s[i]
        BY <3>2, <1>1
      <4> QED BY <4>1 DEF ToSet
    <3> QED BY <3>1, <3>2
  <2>2. ASSUME NEW i \in DOMAIN a PROVE a[i] \in ToSet(s)
    <3>1. i + 1 \in DOMAIN s /\ a[i] = s[i + 1]
      BY <1>1
    <3> QED BY <3>1 DEF ToSet
  <2>3. Head(s) \in ToSet(s)
    BY <1>1 DEF ToSet
  <2> QED BY <2>1, <2>2, <2>3 DEF ToSet
<1>3. ASSUME IsInjective(s) PROVE IsInjective(a) /\ Head(s) \notin ToSet(a)
  <2>1. \A i \in DOMAIN a : i + 1 \in DOMAIN s /\ a[i] = s[i + 1] /\ s[i + 1] # s[1]
    BY <1>1, <1>3 DEF IsInjective
  <2>2. ASSUME NEW i \in DOMAIN a, NEW j \in DOMAIN a, a[i] = a[j] PROVE i = j
    BY <1>1, <1>3, <2>1, <2>2 DEF IsInjective
  <2>3. Head(s) \notin ToSet(a)
    BY <1>1, <2>1 DEF ToSet
  <2> QED BY <2>2, <2>3 DEF IsInjective
<1> QED BY <1>1, <1>2, <1>3 DEF a

\* A concatenation has the members of both parts, distinct when each part's are
\* and the parts share none.
LEMMA ConcatMembers ==
  ASSUME NEW S, NEW s \in Seq(S), NEW t \in Seq(S)
  PROVE  /\ s \o t \in Seq(S) /\ ToSet(s \o t) = ToSet(s) \cup ToSet(t)
         /\ IsInjective(s) /\ IsInjective(t) /\ ToSet(s) \cap ToSet(t) = {} => IsInjective(s \o t)
<1>pick. PICK a, k, l : a = s \o t /\ k = Len(s) /\ l = Len(t)
  OBVIOUS
<1>1. /\ a \in Seq(S) /\ k \in Nat /\ l \in Nat
      /\ DOMAIN a = 1..(k + l) /\ DOMAIN s = 1..k /\ DOMAIN t = 1..l
      /\ \A i \in 1..(k + l) : a[i] = IF i <= k THEN s[i] ELSE t[i - k]
  BY <1>pick, ConcatProperties, LenProperties
<1>2. ASSUME NEW i \in DOMAIN a
      PROVE  (i \in DOMAIN s /\ a[i] = s[i]) \/ (i - k \in DOMAIN t /\ a[i] = t[i - k])
  BY <1>1
<1>3. \A i \in DOMAIN s : i \in DOMAIN a /\ a[i] = s[i]
  BY <1>1
<1>4. \A i \in DOMAIN t : i + k \in DOMAIN a /\ a[i + k] = t[i]
  BY <1>1
<1>5. ToSet(a) = ToSet(s) \cup ToSet(t)
  <2>1. ToSet(a) \subseteq ToSet(s) \cup ToSet(t)
    BY <1>2 DEF ToSet
  <2>2. ToSet(s) \subseteq ToSet(a)
    BY <1>3 DEF ToSet
  <2>3. ToSet(t) \subseteq ToSet(a)
    BY <1>4 DEF ToSet
  <2> QED BY <2>1, <2>2, <2>3
<1>6. ASSUME IsInjective(s), IsInjective(t), ToSet(s) \cap ToSet(t) = {},
             NEW i \in DOMAIN a, NEW j \in DOMAIN a, a[i] = a[j]
      PROVE  i = j
  <2>1. \A x \in DOMAIN s, y \in DOMAIN t : s[x] # t[y]
    BY <1>6 DEF ToSet
  <2>2. i \in Int /\ j \in Int /\ k \in Int
    BY <1>1
  <2>3. CASE i \in DOMAIN s /\ a[i] = s[i]
    BY <1>2, <1>6, <2>1, <2>3 DEF IsInjective
  <2>4. CASE i - k \in DOMAIN t /\ a[i] = t[i - k]
    <3>1. j - k \in DOMAIN t /\ a[j] = t[j - k]
      BY <1>2, <1>6, <2>1, <2>4
    <3>2. i - k = j - k
      BY <1>6, <2>4, <3>1 DEF IsInjective
    <3> QED BY <2>2, <3>2
  <2> QED BY <1>2, <2>3, <2>4
<1> QED BY <1>pick, <1>1, <1>5, <1>6 DEF IsInjective

\* Only then.
LEMMA ConcatDistinct ==
  ASSUME NEW S, NEW s \in Seq(S), NEW t \in Seq(S), IsInjective(s \o t)
  PROVE  IsInjective(s) /\ IsInjective(t) /\ ToSet(s) \cap ToSet(t) = {}
<1>pick. PICK a, k, l : a = s \o t /\ k = Len(s) /\ l = Len(t)
  OBVIOUS
<1>1. /\ k \in Nat /\ l \in Nat
      /\ DOMAIN a = 1..(k + l) /\ DOMAIN s = 1..k /\ DOMAIN t = 1..l
      /\ \A i \in 1..(k + l) : a[i] = IF i <= k THEN s[i] ELSE t[i - k]
  BY <1>pick, ConcatProperties, LenProperties
<1>2. \A i \in DOMAIN s : i \in DOMAIN a /\ a[i] = s[i]
  BY <1>1
<1>3. \A i \in DOMAIN t : i + k \in DOMAIN a /\ a[i + k] = t[i]
  BY <1>1
<1>4. IsInjective(a)
  BY <1>pick
<1>5. IsInjective(s)
  BY <1>2, <1>4 DEF IsInjective
<1>6. ASSUME NEW i \in DOMAIN t, NEW j \in DOMAIN t, t[i] = t[j] PROVE i = j
  <2>1. i + k = j + k
    BY <1>3, <1>4, <1>6 DEF IsInjective
  <2> QED BY <1>1, <2>1
<1>7. ASSUME NEW i \in DOMAIN s, NEW j \in DOMAIN t, s[i] = t[j] PROVE FALSE
  <2>1. i = j + k
    BY <1>2, <1>3, <1>4, <1>7 DEF IsInjective
  <2> QED BY <1>1, <2>1
<1> QED BY <1>5, <1>6, <1>7 DEF IsInjective, ToSet

\* A part of a sequence has the members at its indices.
LEMMA PartMembers ==
  ASSUME NEW S, NEW s \in Seq(S), NEW i \in Nat \ {0}, NEW j \in 0..Len(s)
  PROVE  /\ SubSeq(s, i, j) \in Seq(S)
         /\ \A x : x \in ToSet(SubSeq(s, i, j)) <=> \E h \in i..j : s[h] = x
         /\ IsInjective(s) => IsInjective(SubSeq(s, i, j))
<1>pick. PICK a : a = SubSeq(s, i, j)
  OBVIOUS
<1>0. DOMAIN s = 1..Len(s) /\ Len(s) \in Nat /\ \A h \in i..j : s[h] \in S
  OBVIOUS
<1>1. /\ a \in Seq(S)
      /\ Len(a) = IF i <= j THEN j - i + 1 ELSE 0
      /\ \A h \in 1..(j - i + 1) : a[h] = s[i + h - 1]
  BY <1>pick, <1>0, SubSeqProperties
<1>2. /\ DOMAIN a = 1..Len(a) /\ Len(a) \in Nat
      /\ \A h \in DOMAIN a : /\ h \in 1..(j - i + 1)
                             /\ i + h - 1 \in i..j /\ i + h - 1 \in DOMAIN s /\ a[h] = s[i + h - 1]
  <2>1. DOMAIN a = 1..Len(a) /\ Len(a) \in Nat
    BY <1>1
  <2>2. ASSUME NEW h \in 1..Len(a)
        PROVE  h \in 1..(j - i + 1) /\ i + h - 1 \in i..j /\ i + h - 1 \in DOMAIN s
    BY <1>0, <1>1, <2>1
  <2> QED BY <1>1, <2>1, <2>2
<1>3. ASSUME NEW h \in i..j PROVE s[h] \in ToSet(a)
  <2>1. h - i + 1 \in DOMAIN a /\ a[h - i + 1] = s[h]
    BY <1>1, <1>2
  <2> QED BY <2>1 DEF ToSet
<1>4. \A x : x \in ToSet(a) <=> \E h \in i..j : s[h] = x
  BY <1>2, <1>3 DEF ToSet
<1>5. ASSUME IsInjective(s), NEW g \in DOMAIN a, NEW h \in DOMAIN a, a[g] = a[h] PROVE g = h
  <2>1. i + g - 1 = i + h - 1
    BY <1>2, <1>5 DEF IsInjective
  <2> QED BY <1>2, <2>1
<1> QED BY <1>pick, <1>1, <1>4, <1>5 DEF IsInjective

\* A sequence cut in two: every member is on one side, and on one only when the
\* members are distinct.
LEMMA SplitMembers ==
  ASSUME NEW S, NEW s \in Seq(S), NEW k \in 0..Len(s)
  PROVE  LET a == SubSeq(s, 1, k)
             b == SubSeq(s, k + 1, Len(s))
         IN  /\ a \in Seq(S) /\ b \in Seq(S)
             /\ ToSet(s) = ToSet(a) \cup ToSet(b)
             /\ IsInjective(s) => IsInjective(a) /\ IsInjective(b) /\ ToSet(a) \cap ToSet(b) = {}
<1>pick. PICK a, b : a = SubSeq(s, 1, k) /\ b = SubSeq(s, k + 1, Len(s))
  OBVIOUS
<1>1. k \in Nat /\ k + 1 \in Nat \ {0} /\ Len(s) \in 0..Len(s) /\ DOMAIN s = 1..Len(s) /\ Len(s) \in Nat
  OBVIOUS
<1>2. /\ a \in Seq(S) /\ (IsInjective(s) => IsInjective(a))
      /\ \A x : x \in ToSet(a) <=> \E h \in 1..k : s[h] = x
  BY <1>pick, <1>1, PartMembers
<1>3. /\ b \in Seq(S) /\ (IsInjective(s) => IsInjective(b))
      /\ \A x : x \in ToSet(b) <=> \E h \in (k + 1)..Len(s) : s[h] = x
  BY <1>pick, <1>1, PartMembers
<1>4. \A x : x \in ToSet(s) <=> \E h \in 1..Len(s) : s[h] = x
  BY MemberIndex
<1>5. ToSet(s) = ToSet(a) \cup ToSet(b)
  <2>1. \A h : h \in 1..Len(s) <=> h \in 1..k \/ h \in (k + 1)..Len(s)
    BY <1>1
  <2> QED BY <1>2, <1>3, <1>4, <2>1
<1>6. ASSUME IsInjective(s) PROVE ToSet(a) \cap ToSet(b) = {}
  <2>1. ASSUME NEW g \in 1..k, NEW h \in (k + 1)..Len(s) PROVE s[g] # s[h]
    BY <1>1, <1>6 DEF IsInjective
  <2> QED BY <1>2, <1>3, <2>1
<1> QED BY <1>pick, <1>2, <1>3, <1>5, <1>6

\* A sequence without the element at one index.
LEMMA RemoveMembers ==
  ASSUME NEW S, NEW s \in Seq(S), NEW i \in DOMAIN s
  PROVE  /\ RemoveAt(s, i) \in Seq(S)
         /\ ToSet(s) = ToSet(RemoveAt(s, i)) \cup {s[i]}
         /\ IsInjective(s) => IsInjective(RemoveAt(s, i)) /\ s[i] \notin ToSet(RemoveAt(s, i))
<1>k. PICK k, l : k = i - 1 /\ l = Len(s)
  OBVIOUS
<1>pick. PICK a, b : a = SubSeq(s, 1, k) /\ b = SubSeq(s, i + 1, l)
  OBVIOUS
<1>0. /\ DOMAIN s = 1..l /\ l \in Nat /\ i \in 1..l /\ k \in 0..l
      /\ i + 1 \in Nat \ {0} /\ l \in 0..Len(s) /\ 1 \in Nat \ {0} /\ k \in 0..Len(s)
  BY <1>k
<1>1. /\ a \in Seq(S) /\ (IsInjective(s) => IsInjective(a))
      /\ \A x : x \in ToSet(a) <=> \E h \in 1..k : s[h] = x
  BY <1>pick, <1>0, PartMembers
<1>2. /\ b \in Seq(S) /\ (IsInjective(s) => IsInjective(b))
      /\ \A x : x \in ToSet(b) <=> \E h \in (i + 1)..l : s[h] = x
  BY <1>pick, <1>0, PartMembers
<1>3. /\ a \o b \in Seq(S) /\ ToSet(a \o b) = ToSet(a) \cup ToSet(b)
      /\ IsInjective(a) /\ IsInjective(b) /\ ToSet(a) \cap ToSet(b) = {} => IsInjective(a \o b)
  BY <1>1, <1>2, ConcatMembers
<1>4. RemoveAt(s, i) = a \o b
  BY <1>pick, <1>k DEF RemoveAt
<1>5. \A h : h \in 1..l <=> h \in 1..k \/ h \in (i + 1)..l \/ h = i
  BY <1>k, <1>0
<1>6. ToSet(s) = ToSet(a) \cup ToSet(b) \cup {s[i]}
  <2>1. \A x : x \in ToSet(s) <=> \E h \in 1..l : s[h] = x
    BY <1>k, MemberIndex
  <2> QED BY <1>1, <1>2, <1>5, <2>1
<1>7. ASSUME IsInjective(s) PROVE ToSet(a) \cap ToSet(b) = {} /\ s[i] \notin ToSet(a) \cup ToSet(b)
  <2>1. ASSUME NEW g \in 1..k, NEW h \in (i + 1)..l PROVE s[g] # s[h]
    <3>1. g \in DOMAIN s /\ h \in DOMAIN s /\ g # h
      BY <1>k, <1>0
    <3> QED BY <1>7, <3>1 DEF IsInjective
  <2>2. ASSUME NEW g \in 1..k PROVE s[g] # s[i]
    <3>1. g \in DOMAIN s /\ g # i
      BY <1>k, <1>0
    <3> QED BY <1>7, <3>1 DEF IsInjective
  <2>3. ASSUME NEW h \in (i + 1)..l PROVE s[h] # s[i]
    <3>1. h \in DOMAIN s /\ h # i
      BY <1>0
    <3> QED BY <1>7, <3>1 DEF IsInjective
  <2> QED BY <1>1, <1>2, <2>1, <2>2, <2>3
<1> QED BY <1>1, <1>2, <1>3, <1>4, <1>6, <1>7

\* The least of a set of numbers.
LEMMA LeastNat ==
  ASSUME NEW T, T \subseteq Nat, T # {}
  PROVE  \E x \in T : \A y \in T : ~ (y < x)
<1> DEFINE R == {ss \in Nat \X Nat : ss[1] < ss[2]}
<1>1. IsWellFoundedOn(R, Nat)
  BY NatLessThanWellFounded DEF OpToRel
<1> HIDE DEF R
<1>2. \E x \in T : \A y \in T : ~ (<<y, x>> \in R)
  BY <1>1, WFMin
<1> QED BY <1>2 DEF R

\* A member has a last index.
LEMMA LastMember ==
  ASSUME NEW S, NEW s \in Seq(S), NEW x \in ToSet(s)
  PROVE  \E i \in DOMAIN s : s[i] = x /\ \A j \in DOMAIN s : s[j] = x => j <= i
<1> DEFINE T == {h \in 0..Len(s) : Len(s) - h \in DOMAIN s /\ s[Len(s) - h] = x}
<1>1. DOMAIN s = 1..Len(s) /\ Len(s) \in Nat
  OBVIOUS
<1>2. T \subseteq Nat
  OBVIOUS
<1>3. T # {}
  <2>1. PICK i \in 1..Len(s) : s[i] = x
    BY MemberIndex
  <2>2. Len(s) - i \in 0..Len(s) /\ Len(s) - (Len(s) - i) = i
    BY <1>1
  <2>3. Len(s) - i \in T
    BY <1>1, <2>1, <2>2
  <2> QED BY <2>3
<1> HIDE DEF T
<1>4. PICK h \in T : \A y \in T : ~ (y < h)
  BY <1>2, <1>3, LeastNat
<1>5. h \in 0..Len(s) /\ Len(s) - h \in DOMAIN s /\ s[Len(s) - h] = x
  BY <1>4 DEF T
<1>6. ASSUME NEW j \in DOMAIN s, s[j] = x PROVE j <= Len(s) - h
  <2>1. Len(s) - j \in 0..Len(s) /\ Len(s) - (Len(s) - j) = j
    BY <1>1
  <2>2. Len(s) - j \in T
    BY <1>1, <1>6, <2>1 DEF T
  <2>3. ~ (Len(s) - j < h)
    BY <1>4, <2>2
  <2> QED BY <1>1, <1>5, <2>3
<1> QED BY <1>5, <1>6
=============================================================================
