------------------------------- MODULE Basics -------------------------------
(***************************************************************************)
(* What the proofs about trees, call stacks and streams need of numbers,   *)
(* finite sets and sequences. Induction is over a set of numbers, so that  *)
(* it has no operator as a parameter.                                      *)
(***************************************************************************)
EXTENDS Integers, Sequences, FiniteSets, FiniteSetTheorems, SequenceTheorems, WellFoundedInduction, TLAPS

\* The order of the natural numbers has no infinite descent.
LEMMA LessIsWellFounded == IsWellFoundedOn({s \in Nat \X Nat : s[1] < s[2]}, Nat)
BY NatLessThanWellFounded DEF OpToRel

\* A set of numbers that is not empty has a least one.
LEMMA Least ==
  ASSUME NEW S \in SUBSET Nat, S # {}
  PROVE  \E m \in S : \A k \in S : m <= k
<1> DEFINE R == {s \in Nat \X Nat : s[1] < s[2]}
<1>1. IsWellFoundedOn(R, Nat)
  BY LessIsWellFounded
<1>2. \A x, y \in Nat : y < x => <<y, x>> \in R
  OBVIOUS
<1> HIDE DEF R
<1>3. PICK m \in S : \A y \in S : ~ (<<y, m>> \in R)
  BY <1>1, WFMin
<1>4. S \subseteq Nat
  OBVIOUS
<1>5. \A k \in S : ~(k < m)
  BY <1>2, <1>3, <1>4
<1> QED
  BY <1>4, <1>5

\* A set with 0, and with n + 1 if it has n, has all numbers.
LEMMA Induction ==
  ASSUME NEW S, 0 \in S, \A n \in Nat : n \in S => n + 1 \in S
  PROVE  Nat \subseteq S
<1> SUFFICES ASSUME Nat \ S # {} PROVE FALSE
  OBVIOUS
<1>1. PICK m \in Nat \ S : \A k \in Nat \ S : m <= k
  BY Least
<1>2. m # 0 /\ m - 1 \in Nat
  BY <1>1
<1> QED
  BY <1>1, <1>2

-----------------------------------------------------------------------------
(* Finite sets of numbers *)

\* l lists the elements of S in their order.
Lists(l, S) ==
  /\ l \in [1..Cardinality(S) -> S]
  /\ \A i, j \in DOMAIN l : i < j => l[i] < l[j]

\* Every finite set of numbers has such a list.
LEMMA ListExists ==
  ASSUME NEW S \in SUBSET Nat, IsFiniteSet(S)
  PROVE  \E l : Lists(l, S)
<1> DEFINE Listed(k) == \A T \in SUBSET Nat : IsFiniteSet(T) /\ Cardinality(T) = k => \E l : Lists(l, T)
           K == {k \in Nat : Listed(k)}
<1>1. Listed(0)
  <2> SUFFICES ASSUME NEW T \in SUBSET Nat, IsFiniteSet(T), Cardinality(T) = 0
               PROVE  \E l : Lists(l, T)
    OBVIOUS
  <2>1. T = {}
    BY FS_EmptySet
  <2>2. <<>> \in [1..0 -> {}] /\ DOMAIN <<>> = {}
    OBVIOUS
  <2> QED
    BY <2>1, <2>2 DEF Lists
<1>2. ASSUME NEW k \in Nat, Listed(k)
      PROVE  Listed(k + 1)
  <2> SUFFICES ASSUME NEW T \in SUBSET Nat, IsFiniteSet(T), Cardinality(T) = k + 1
               PROVE  \E l : Lists(l, T)
    OBVIOUS
  <2>1. T # {}
    BY FS_EmptySet
  <2>2. PICK m \in T : \A n \in T : m <= n
    BY <2>1, Least
  <2> DEFINE U == T \ {m}
  <2>3. IsFiniteSet(U) /\ Cardinality(U) = k
    <3>1. /\ IsFiniteSet(T \ {m})
          /\ Cardinality(T \ {m}) = IF m \in T THEN Cardinality(T) - 1 ELSE Cardinality(T)
      BY FS_RemoveElement
    <3> QED
      BY <3>1
  <2>4. PICK l : Lists(l, U)
    BY <1>2, <2>3
  <2>5. l \in [1..k -> U] /\ \A i, j \in 1..k : i < j => l[i] < l[j]
    BY <2>3, <2>4 DEF Lists
  <2> DEFINE h == [i \in 1..(k + 1) |-> IF i = 1 THEN m ELSE l[i - 1]]
  <2>6. \A i \in 1..(k + 1) : i # 1 => i - 1 \in 1..k
    OBVIOUS
  <2>7. h \in [1..(k + 1) -> T]
    BY <2>5, <2>6
  <2>8. ASSUME NEW i \in 1..(k + 1), NEW j \in 1..(k + 1), i < j
        PROVE  h[i] < h[j]
    <3>1. j # 1 /\ h[j] = l[j - 1] /\ l[j - 1] \in U
      BY <2>5, <2>6, <2>8
    <3>2. CASE i = 1
      <4>1. h[i] = m /\ m \in Nat /\ l[j - 1] \in Nat /\ m # l[j - 1]
        BY <3>1, <3>2
      <4> QED
        BY <2>2, <3>1, <4>1
    <3>3. CASE i # 1
      BY <2>5, <2>6, <2>8, <3>1, <3>3
    <3> QED
      BY <3>2, <3>3
  <2> HIDE DEF h
  <2>9. Lists(h, T)
    BY <2>7, <2>8 DEF Lists
  <2> QED
    BY <2>9
<1>3. 0 \in K
  BY <1>1
<1>4. \A k \in Nat : k \in K => k + 1 \in K
  BY <1>2
<1> HIDE DEF K
<1>5. Nat \subseteq K
  BY <1>3, <1>4, Induction
<1>6. Cardinality(S) \in Nat
  BY FS_CardinalityType
<1> QED
  BY <1>5, <1>6 DEF K

\* It has every element, once.
LEMMA ListHasAll ==
  ASSUME NEW S \in SUBSET Nat, IsFiniteSet(S), NEW l, Lists(l, S)
  PROVE  /\ \A n \in S : \E i \in DOMAIN l : l[i] = n
         /\ \A i, j \in DOMAIN l : l[i] = l[j] => i = j
<1> DEFINE k == Cardinality(S)
<1>1. k \in Nat
  BY FS_CardinalityType
<1>2. l \in [1..k -> S] /\ \A i, j \in 1..k : i < j => l[i] < l[j]
  BY DEF Lists
<1> HIDE DEF k
<1>3. ASSUME NEW i \in 1..k, NEW j \in 1..k, l[i] = l[j]
      PROVE  i = j
  <2>1. l[i] \in Nat /\ l[j] \in Nat
    BY <1>2
  <2> QED
    BY <1>1, <1>2, <1>3, <2>1
<1>4. l \in Injection(1..k, S)
  BY <1>2, <1>3 DEF Injection, IsInjective
<1>5. Cardinality(1..k) = Cardinality(S)
  BY <1>1, FS_Interval DEF k
<1>6. l \in Surjection(1..k, S)
  BY <1>4, <1>5, FS_Injection
<1> QED
  BY <1>2, <1>3, <1>6 DEF Surjection

-----------------------------------------------------------------------------
(* Sequences *)

Elements(s) == {s[i] : i \in DOMAIN s}
IsSeq(s) == s \in Seq(Elements(s))

\* A sequence is one of its own elements.
LEMMA SeqIsSeq ==
  ASSUME NEW S, NEW s \in Seq(S)
  PROVE  IsSeq(s)
<1>1. Len(s) \in Nat /\ DOMAIN s = 1..Len(s) /\ s = [i \in 1..Len(s) |-> s[i]]
  OBVIOUS
<1>2. \A i \in 1..Len(s) : s[i] \in Elements(s)
  BY <1>1 DEF Elements
<1>3. s \in [1..Len(s) -> Elements(s)]
  BY <1>1, <1>2
<1> QED
  BY <1>1, <1>3 DEF IsSeq

\* The first element and the others.
LEMMA HeadAndTail ==
  ASSUME NEW s, IsSeq(s), s # <<>>
  PROVE  /\ IsSeq(Tail(s))
         /\ 1 \in DOMAIN s /\ Head(s) = s[1] /\ Head(s) \in Elements(s)
         /\ \A i \in DOMAIN Tail(s) : i + 1 \in DOMAIN s /\ Tail(s)[i] = s[i + 1]
         /\ Elements(s) = {Head(s)} \cup Elements(Tail(s))
<1> DEFINE S == Elements(s)
<1>1. s \in Seq(S)
  BY DEF IsSeq
<1> HIDE DEF S
<1>2. Tail(s) \in Seq(S) /\ Len(s) \in Nat \ {0} /\ Len(Tail(s)) = Len(s) - 1
  BY <1>1
<1>3. DOMAIN s = 1..Len(s) /\ DOMAIN Tail(s) = 1..(Len(s) - 1)
  BY <1>1, <1>2
<1>4. 1 \in DOMAIN s /\ Head(s) = s[1]
  BY <1>1, <1>2, <1>3
<1>5. \A i \in DOMAIN Tail(s) : i + 1 \in DOMAIN s /\ Tail(s)[i] = s[i + 1]
  BY <1>1, <1>2, <1>3
<1>6. \A i \in DOMAIN s : i = 1 \/ (i - 1 \in DOMAIN Tail(s) /\ Tail(s)[i - 1] = s[i])
  BY <1>1, <1>2, <1>3
<1>7. Elements(s) = {Head(s)} \cup Elements(Tail(s))
  <2>1. Elements(s) \subseteq {Head(s)} \cup Elements(Tail(s))
    BY <1>4, <1>6 DEF Elements
  <2>2. {Head(s)} \cup Elements(Tail(s)) \subseteq Elements(s)
    BY <1>4, <1>5 DEF Elements
  <2> QED
    BY <2>1, <2>2
<1>8. Head(s) \in Elements(s)
  BY <1>4 DEF Elements
<1> QED
  BY <1>2, <1>4, <1>5, <1>7, <1>8, SeqIsSeq

\* Two sequences in a row.
LEMMA Concatenation ==
  ASSUME NEW s, NEW t, IsSeq(s), IsSeq(t)
  PROVE  /\ IsSeq(s \o t)
         /\ \A i \in DOMAIN (s \o t) : \/ (i \in DOMAIN s /\ (s \o t)[i] = s[i])
                                       \/ (i - Len(s) \in DOMAIN t /\ (s \o t)[i] = t[i - Len(s)])
         /\ Elements(s \o t) = Elements(s) \cup Elements(t)
<1> DEFINE S == Elements(s) \cup Elements(t)
<1>1. s \in Seq(S) /\ t \in Seq(S)
  BY SeqMonotonic DEF IsSeq
<1> HIDE DEF S
<1>2. /\ s \o t \in Seq(S) /\ Len(s) \in Nat /\ Len(t) \in Nat
      /\ DOMAIN s = 1..Len(s) /\ DOMAIN t = 1..Len(t)
      /\ DOMAIN (s \o t) = 1..(Len(s) + Len(t))
      /\ \A i \in 1..(Len(s) + Len(t)) : (s \o t)[i] = IF i <= Len(s) THEN s[i] ELSE t[i - Len(s)]
  BY <1>1, ConcatProperties
<1>3. ASSUME NEW i \in DOMAIN (s \o t)
      PROVE  \/ (i \in DOMAIN s /\ (s \o t)[i] = s[i])
             \/ (i - Len(s) \in DOMAIN t /\ (s \o t)[i] = t[i - Len(s)])
  BY <1>2
<1>4. \A i \in DOMAIN s : i \in DOMAIN (s \o t) /\ (s \o t)[i] = s[i]
  BY <1>2
<1>5. \A i \in DOMAIN t : Len(s) + i \in DOMAIN (s \o t) /\ (s \o t)[Len(s) + i] = t[i]
  BY <1>2
<1>6. Elements(s \o t) = Elements(s) \cup Elements(t)
  BY <1>3, <1>4, <1>5 DEF Elements
<1> QED
  BY <1>2, <1>3, <1>6, SeqIsSeq

=============================================================================
