---------------------------- MODULE SequenceFacts ----------------------------
(***************************************************************************)
(* Facts about sequences in which some elements occur at most once: what   *)
(* taking the first element and appending one does to the elements, and to *)
(* how many there are; and induction over the numbers.  The proofs about   *)
(* queues of buffer headers use them.                                      *)
(***************************************************************************)
EXTENDS Integers, Sequences, FiniteSets, Functions, FiniteSetTheorems, TLAPS

\* The elements of B occur in s at most once.
OnceIn(s, B) == \A i, j \in DOMAIN s : s[i] \in B /\ s[i] = s[j] => i = j

\* The positions of s that have an element of B
PlacesOf(s, B) == {i \in DOMAIN s : s[i] \in B}

\* How far a truth value counts
One(b) == IF b THEN 1 ELSE 0

-----------------------------------------------------------------------------
(* The elements                                                             *)

LEMMA SeqDomain ==
  ASSUME NEW T, NEW s \in Seq(T)
  PROVE  /\ Len(s) \in Nat /\ DOMAIN s = 1..Len(s)
         /\ Range(s) \subseteq T
         /\ s = <<>> <=> Len(s) = 0
         /\ s = <<>> <=> Range(s) = {}
<1>1. Len(s) \in Nat /\ DOMAIN s = 1..Len(s) /\ \A i \in DOMAIN s : s[i] \in T  OBVIOUS
<1>2. s = <<>> <=> Len(s) = 0  OBVIOUS
<1>3. s # <<>> => s[1] \in Range(s)  BY <1>1, <1>2 DEF Range
<1>4. s = <<>> => Range(s) = {}  BY <1>1, <1>2 DEF Range
<1> QED  BY <1>1, <1>2, <1>3, <1>4 DEF Range

LEMMA TailParts ==
  ASSUME NEW T, NEW s \in Seq(T), s # <<>>
  PROVE  /\ Head(s) \in T /\ Tail(s) \in Seq(T) /\ Head(s) = s[1]
         /\ Len(s) \in Nat /\ Len(s) >= 1 /\ Len(Tail(s)) = Len(s) - 1
         /\ DOMAIN s = 1..Len(s) /\ DOMAIN Tail(s) = 1..(Len(s) - 1)
         /\ \A i \in DOMAIN Tail(s) : Tail(s)[i] = s[i + 1] /\ i + 1 \in DOMAIN s /\ i + 1 # 1
         /\ \A i \in DOMAIN s : i # 1 => i - 1 \in DOMAIN Tail(s) /\ Tail(s)[i - 1] = s[i]
OBVIOUS

LEMMA TailElements ==
  ASSUME NEW T, NEW s \in Seq(T), s # <<>>
  PROVE  /\ Head(s) \in T /\ Tail(s) \in Seq(T) /\ Len(Tail(s)) = Len(s) - 1
         /\ Range(s) = Range(Tail(s)) \cup {Head(s)}
<1>1. Range(s) \subseteq Range(Tail(s)) \cup {Head(s)}
  <2> SUFFICES ASSUME NEW i \in DOMAIN s PROVE s[i] = Head(s) \/ s[i] \in Range(Tail(s))
      BY DEF Range
  <2>1. i # 1 => i - 1 \in DOMAIN Tail(s) /\ Tail(s)[i - 1] = s[i]  BY TailParts
  <2>2. i = 1 => s[i] = Head(s)  BY TailParts
  <2> QED  BY <2>1, <2>2 DEF Range
<1>2. Range(Tail(s)) \cup {Head(s)} \subseteq Range(s)
  <2>1. Range(Tail(s)) \subseteq Range(s)  BY TailParts DEF Range
  <2>2. 1 \in DOMAIN s /\ Head(s) = s[1]  BY TailParts
  <2> QED  BY <2>1, <2>2 DEF Range
<1> QED  BY <1>1, <1>2, TailParts

LEMMA TailOnce ==
  ASSUME NEW T, NEW s \in Seq(T), s # <<>>, NEW B, OnceIn(s, B)
  PROVE  OnceIn(Tail(s), B) /\ (Head(s) \in B => Head(s) \notin Range(Tail(s)))
<1>1. OnceIn(Tail(s), B)  BY TailParts DEF OnceIn
<1>2. Head(s) \in B => Head(s) \notin Range(Tail(s))
  <2> SUFFICES ASSUME Head(s) \in B, NEW i \in DOMAIN Tail(s), Tail(s)[i] = Head(s) PROVE FALSE
      BY DEF Range
  <2>1. i + 1 \in DOMAIN s /\ 1 \in DOMAIN s /\ s[i + 1] = s[1] /\ s[1] \in B /\ i + 1 # 1
        BY TailParts
  <2> QED  BY <2>1 DEF OnceIn
<1> QED  BY <1>1, <1>2

LEMMA AppendParts ==
  ASSUME NEW T, NEW s \in Seq(T), NEW e \in T
  PROVE  /\ Append(s, e) \in Seq(T) /\ Len(s) \in Nat /\ Len(Append(s, e)) = Len(s) + 1
         /\ DOMAIN s = 1..Len(s) /\ DOMAIN Append(s, e) = 1..(Len(s) + 1)
         /\ \A i \in DOMAIN s : Append(s, e)[i] = s[i] /\ i \in DOMAIN Append(s, e)
            /\ i # Len(s) + 1
         /\ Append(s, e)[Len(s) + 1] = e /\ Len(s) + 1 \in DOMAIN Append(s, e)
         /\ \A i \in DOMAIN Append(s, e) : i \in DOMAIN s \/ i = Len(s) + 1
OBVIOUS

LEMMA AppendElements ==
  ASSUME NEW T, NEW s \in Seq(T), NEW e \in T
  PROVE  /\ Append(s, e) \in Seq(T) /\ Len(Append(s, e)) = Len(s) + 1
         /\ Range(Append(s, e)) = Range(s) \cup {e}
<1>1. Range(Append(s, e)) \subseteq Range(s) \cup {e}  BY AppendParts DEF Range
<1>2. Range(s) \cup {e} \subseteq Range(Append(s, e))  BY AppendParts DEF Range
<1> QED  BY <1>1, <1>2, AppendParts

LEMMA AppendOnce ==
  ASSUME NEW T, NEW s \in Seq(T), NEW e \in T, NEW B, OnceIn(s, B), e \in B => e \notin Range(s)
  PROVE  OnceIn(Append(s, e), B)
<1> SUFFICES ASSUME NEW i \in DOMAIN Append(s, e), NEW j \in DOMAIN Append(s, e),
                    Append(s, e)[i] \in B, Append(s, e)[i] = Append(s, e)[j]
             PROVE  i = j
    BY DEF OnceIn
<1>1. CASE i \in DOMAIN s /\ j \in DOMAIN s
  BY <1>1, AppendParts DEF OnceIn
<1>2. CASE i \notin DOMAIN s /\ j \notin DOMAIN s
  BY <1>2, AppendParts
<1>3. CASE i \in DOMAIN s /\ j \notin DOMAIN s
  BY <1>3, AppendParts DEF Range
<1>4. CASE i \notin DOMAIN s /\ j \in DOMAIN s
  BY <1>4, AppendParts DEF Range
<1> QED  BY <1>1, <1>2, <1>3, <1>4

\* Where an element of B is, if it is there
LEMMA OncePosition ==
  ASSUME NEW T, NEW s \in Seq(T), NEW B, OnceIn(s, B), NEW b \in B
  PROVE  /\ b \in Range(s) => \E i \in DOMAIN s : {j \in DOMAIN s : s[j] = b} = {i}
         /\ b \notin Range(s) => {j \in DOMAIN s : s[j] = b} = {}
<1>1. ASSUME b \in Range(s) PROVE \E i \in DOMAIN s : {j \in DOMAIN s : s[j] = b} = {i}
  <2>1. PICK i \in DOMAIN s : s[i] = b  BY <1>1 DEF Range
  <2>2. {j \in DOMAIN s : s[j] = b} = {i}  BY <2>1 DEF OnceIn
  <2> QED  BY <2>2
<1>2. b \notin Range(s) => {j \in DOMAIN s : s[j] = b} = {}  BY DEF Range
<1> QED  BY <1>1, <1>2

LEMMA SequenceOf ==
  ASSUME NEW T, NEW n \in Nat, NEW f \in [1..n -> T]
  PROVE  f \in Seq(T) /\ Len(f) = n
OBVIOUS

LEMMA SameSequence ==
  ASSUME NEW T, NEW s \in Seq(T), NEW u \in Seq(T), Len(s) = Len(u),
         \A i \in DOMAIN s : s[i] = u[i]
  PROVE  s = u
<1>1. s \in [1..Len(s) -> T] /\ u \in [1..Len(s) -> T]
  OBVIOUS
<1> QED
  BY <1>1

-----------------------------------------------------------------------------
(* Numbers: induction, said of a set and not of a predicate                 *)

\* A set of numbers that is not empty has a least one.
LEMMA Least ==
  ASSUME NEW S \in SUBSET Nat, S # {}
  PROVE  \E n \in S : \A m \in S : n <= m
<1> DEFINE T == {0..n : n \in S}
           R == StrictSubsetOrdering(Nat)
<1>1. T \subseteq FiniteSubsetsOf(Nat) /\ T # {}
  <2>1. \A n \in Nat : IsFiniteSet(0..n) /\ 0..n \subseteq Nat
    <3> SUFFICES ASSUME NEW n \in Nat PROVE IsFiniteSet(0..n) /\ 0..n \subseteq Nat
      OBVIOUS
    <3>1. 0 \in Int /\ n \in Int
      OBVIOUS
    <3> QED
      BY <3>1, FS_Interval
  <2> QED
    BY <2>1 DEF FiniteSubsetsOf
<1>2. IsWellFoundedOn(R, FiniteSubsetsOf(Nat))
  BY FS_StrictSubsetOrderingWellFounded
<1>3. PICK C \in T : \A B \in T : <<B, C>> \notin R
  <2> HIDE DEF T, R
  <2> QED
    BY <1>1, <1>2, WFMin
<1>4. PICK n \in S : C = 0..n
  BY <1>3
<1>5. ASSUME NEW m \in S, m < n PROVE FALSE
  <2>1. 0..m \in T /\ 0..m \subseteq 0..n /\ 0..m \subseteq Nat /\ 0..n \subseteq Nat
    BY <1>5
  <2>2. n \in 0..n /\ n \notin 0..m
    BY <1>5
  <2>3. <<0..m, 0..n>> \in R
    BY <2>1, <2>2 DEF StrictSubsetOrdering
  <2> QED
    BY <1>3, <1>4, <2>1, <2>3
<1> QED
  BY <1>4, <1>5

\* What holds of 0, and of n + 1 when it holds of n, holds of every number.
LEMMA SetInduction ==
  ASSUME NEW S, 0 \in S, \A n \in Nat : n \in S => n + 1 \in S
  PROVE  Nat \subseteq S
<1> SUFFICES ASSUME Nat \ S # {} PROVE FALSE
  OBVIOUS
<1>1. Nat \ S \in SUBSET Nat
  OBVIOUS
<1>2. PICK n \in Nat \ S : \A m \in Nat \ S : n <= m
  BY <1>1, Least
<1>3. n # 0 /\ n - 1 \in Nat /\ ~(n <= n - 1)
  BY <1>2
<1>4. n - 1 \in S
  BY <1>2, <1>3
<1>5. n - 1 + 1 \in S
  BY <1>3, <1>4
<1> QED
  BY <1>2, <1>5

-----------------------------------------------------------------------------
(* How many there are                                                       *)

LEMMA CountType ==
  ASSUME NEW T, NEW s \in Seq(T), NEW B
  PROVE  /\ IsFiniteSet(PlacesOf(s, B)) /\ Cardinality(PlacesOf(s, B)) \in Nat
         /\ s = <<>> => Cardinality(PlacesOf(s, B)) = 0
         /\ Cardinality(PlacesOf(s, B)) = 0 <=> Range(s) \cap B = {}
<1>1. IsFiniteSet(DOMAIN s)  BY SeqDomain, FS_Interval
<1>2. PlacesOf(s, B) \subseteq DOMAIN s  BY DEF PlacesOf
<1>3. IsFiniteSet(PlacesOf(s, B)) /\ Cardinality(PlacesOf(s, B)) \in Nat
      BY <1>1, <1>2, FS_Subset, FS_CardinalityType
<1>4. s = <<>> => PlacesOf(s, B) = {}  BY SeqDomain DEF PlacesOf
<1>5. PlacesOf(s, B) = {} <=> Range(s) \cap B = {}  BY DEF PlacesOf, Range
<1> QED  BY <1>3, <1>4, <1>5, FS_EmptySet

LEMMA CountAppend ==
  ASSUME NEW T, NEW s \in Seq(T), NEW e \in T, NEW B
  PROVE  Cardinality(PlacesOf(Append(s, e), B)) = Cardinality(PlacesOf(s, B)) + One(e \in B)
<1>1. Len(s) + 1 \notin PlacesOf(s, B) /\ IsFiniteSet(PlacesOf(s, B))
  BY AppendParts, CountType DEF PlacesOf
<1>2. CASE e \in B
  <2>1. PlacesOf(Append(s, e), B) = PlacesOf(s, B) \cup {Len(s) + 1}
    BY <1>2, AppendParts DEF PlacesOf
  <2> QED  BY <1>1, <1>2, <2>1, FS_AddElement DEF One
<1>3. CASE e \notin B
  <2>1. PlacesOf(Append(s, e), B) = PlacesOf(s, B)  BY <1>3, AppendParts DEF PlacesOf
  <2> QED  BY <1>3, <2>1, CountType DEF One
<1> QED  BY <1>2, <1>3

LEMMA CountTail ==
  ASSUME NEW T, NEW s \in Seq(T), s # <<>>, NEW B
  PROVE  Cardinality(PlacesOf(Tail(s), B)) = Cardinality(PlacesOf(s, B)) - One(Head(s) \in B)
<1> DEFINE R == PlacesOf(s, B) \ {1}
<1>1. IsFiniteSet(PlacesOf(s, B)) /\ IsFiniteSet(R) /\ Cardinality(R) \in Nat
      /\ Cardinality(R) = Cardinality(PlacesOf(s, B)) - One(Head(s) \in B)
  <2>1. IsFiniteSet(PlacesOf(s, B)) /\ Cardinality(PlacesOf(s, B)) \in Nat  BY CountType
  <2>2. 1 \in PlacesOf(s, B) <=> Head(s) \in B  BY TailParts DEF PlacesOf
  <2> QED  BY <2>1, <2>2, FS_RemoveElement, FS_CardinalityType DEF One
<1> DEFINE f == [i \in R |-> i - 1]
<1>2. f \in Bijection(R, PlacesOf(Tail(s), B))
  <2>1. \A i \in R : i - 1 \in PlacesOf(Tail(s), B)  BY TailParts DEF PlacesOf
  <2>2. \A i \in R : i \in Int  BY TailParts DEF PlacesOf
  <2>3. \A j \in PlacesOf(Tail(s), B) : j + 1 \in R /\ (j + 1) - 1 = j  BY TailParts DEF PlacesOf
  <2>4. f \in Injection(R, PlacesOf(Tail(s), B))  BY <2>1, <2>2 DEF Injection, IsInjective
  <2>5. f \in Surjection(R, PlacesOf(Tail(s), B))  BY <2>1, <2>3 DEF Surjection
  <2> QED  BY <2>4, <2>5 DEF Bijection
<1>3. Cardinality(PlacesOf(Tail(s), B)) = Cardinality(R)
      BY <1>1, <1>2, FS_Bijection DEF ExistsBijection
<1> QED  BY <1>1, <1>3

\* A sequence without repetitions has as many elements as places.
LEMMA OnceCardinality ==
  ASSUME NEW T, NEW s \in Seq(T), OnceIn(s, T)
  PROVE  IsFiniteSet(Range(s)) /\ Cardinality(Range(s)) = Len(s)
<1>1. IsFiniteSet(1..Len(s)) /\ Cardinality(1..Len(s)) = Len(s)
  <2>1. Len(s) \in Nat  BY SeqDomain
  <2> HIDE DEF Range
  <2>2. 1 \in Int /\ Len(s) \in Int  BY <2>1
  <2>3. IsFiniteSet(1..Len(s)) /\ Cardinality(1..Len(s)) =
                IF 1 > Len(s) THEN 0 ELSE Len(s) - 1 + 1
        BY <2>2, FS_Interval
  <2> QED  BY <2>1, <2>3
<1>2. s \in Bijection(1..Len(s), Range(s))
  <2>1. s \in [1..Len(s) -> Range(s)] /\ \A i \in 1..Len(s) : s[i] \in T  BY DEF Range
  <2>2. s \in Injection(1..Len(s), Range(s))  BY <2>1 DEF Injection, IsInjective, OnceIn
  <2>3. s \in Surjection(1..Len(s), Range(s))  BY <2>1 DEF Surjection, Range
  <2> QED  BY <2>2, <2>3 DEF Bijection
<1> QED  BY <1>1, <1>2, FS_Bijection DEF ExistsBijection

\* Two sets that differ in one element at most
LEMMA DifferInOne ==
  ASSUME NEW A, IsFiniteSet(A), NEW B, NEW x, B \ {x} = A \ {x}
  PROVE  /\ IsFiniteSet(B) /\ Cardinality(A) \in Nat /\ Cardinality(B) \in Nat
         /\ Cardinality(B) = Cardinality(A) + One(x \in B) - One(x \in A)
<1>1. /\ IsFiniteSet(A \ {x})
      /\ Cardinality(A \ {x}) = Cardinality(A) - One(x \in A)
      /\ Cardinality(A) \in Nat
      BY FS_RemoveElement, FS_CardinalityType DEF One
<1>2. CASE x \in B
  <2>1. B = (A \ {x}) \cup {x} /\ x \notin A \ {x}  BY <1>2
  <2>2. IsFiniteSet(B) /\ Cardinality(B) = Cardinality(A \ {x}) + 1  BY <1>1, <2>1, FS_AddElement
  <2> QED  BY <1>1, <1>2, <2>2, FS_CardinalityType DEF One
<1>3. CASE x \notin B
  <2>1. B = A \ {x}  BY <1>3
  <2> QED  BY <1>1, <1>3, <2>1, FS_CardinalityType DEF One
<1> QED  BY <1>2, <1>3
=============================================================================
