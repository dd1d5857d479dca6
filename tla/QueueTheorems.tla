--------------------------- MODULE QueueTheorems ----------------------------
(***************************************************************************)
(* What a sequence used as a queue holds after its head is taken or after  *)
(* something is added to its end, by position; and that finite sets have   *)
(* enumerations and sorted ones.  Stated once for the proofs about the     *)
(* components, whose events and messages all wait in queues.               *)
(***************************************************************************)
EXTENDS Naturals, SequencesExt, SequenceTheorems, FiniteSetTheorems,
        WellFoundedInduction, TLAPS

LEMMA Popped ==
  ASSUME NEW S, NEW s \in Seq(S), s # <<>>
  PROVE  /\ Tail(s) \in Seq(S) /\ Head(s) \in S
         /\ 1 \in DOMAIN s /\ Head(s) = s[1]
         /\ \A j \in DOMAIN Tail(s) : j + 1 \in DOMAIN s /\ Tail(s)[j] = s[j + 1]
         /\ \A j \in DOMAIN s : j = 1 \/ (j - 1 \in DOMAIN Tail(s) /\ Tail(s)[j - 1] = s[j])
         /\ \A j \in DOMAIN Tail(s) : j \in Nat \ {0}
         /\ \A j \in DOMAIN s : j \in Nat \ {0}
  BY HeadTailProperties, LenProperties

LEMMA Grown ==
  ASSUME NEW S, NEW s \in Seq(S), NEW t \in Seq(S)
  PROVE  /\ s \o t \in Seq(S)
         /\ \A j \in DOMAIN s : j \in DOMAIN (s \o t) /\ (s \o t)[j] = s[j]
         /\ \A j \in DOMAIN t : /\ Len(s) + j \in DOMAIN (s \o t)
                                /\ (s \o t)[Len(s) + j] = t[j]
         /\ \A k \in DOMAIN (s \o t) :
              \/ k \in DOMAIN s
              \/ k - Len(s) \in DOMAIN t /\ (s \o t)[k] = t[k - Len(s)]
         /\ Len(s) \in Nat /\ DOMAIN s = 1 .. Len(s)
         /\ DOMAIN (s \o t) = 1 .. Len(s) + Len(t)
  BY ConcatProperties, LenProperties

LEMMA Appended ==
  ASSUME NEW S, NEW s \in Seq(S), NEW e \in S
  PROVE  /\ Append(s, e) \in Seq(S)
         /\ \A j \in DOMAIN s : j \in DOMAIN Append(s, e) /\ Append(s, e)[j] = s[j]
         /\ Len(s) + 1 \in DOMAIN Append(s, e) /\ Append(s, e)[Len(s) + 1] = e
         /\ \A k \in DOMAIN Append(s, e) : k \in DOMAIN s \/ k = Len(s) + 1
         /\ Len(s) \in Nat /\ DOMAIN s = 1 .. Len(s)
         /\ Len(Append(s, e)) = Len(s) + 1
  BY AppendProperties, LenProperties

LEMMA PairInSeq ==
  ASSUME NEW S, NEW a \in S, NEW b \in S
  PROVE  <<a, b>> \in Seq(S) /\ \A j \in DOMAIN <<a, b>> : <<a, b>>[j] \in {a, b}
  OBVIOUS

-----------------------------------------------------------------------------
(* Messages with a kind.  A queue keeps what it holds of the kinds K, at   *)
(* positions that move up by n, when messages of other kinds come and go.  *)

Kept(q, r, n, K) ==
  /\ \A i \in DOMAIN r : r[i].kind \in K => i + n \in DOMAIN q /\ r[i] = q[i + n]
  /\ \A i \in DOMAIN q : q[i].kind \in K => i - n \in DOMAIN r /\ r[i - n] = q[i]

OfKind(q, k) == {i \in DOMAIN q : q[i].kind = k}

LEMMA TailKept ==
  ASSUME NEW S, NEW q \in Seq(S), q # <<>>, NEW K, Head(q).kind \notin K
  PROVE  Kept(q, Tail(q), 1, K)
  BY Popped DEF Kept

LEMMA AppendKept ==
  ASSUME NEW S, NEW q \in Seq(S), NEW e \in S, NEW K, e.kind \notin K
  PROVE  Kept(q, Append(q, e), 0, K)
<1>1. \A i \in DOMAIN q : i + 0 = i /\ i - 0 = i BY LenProperties
<1>2. /\ \A j \in DOMAIN q : j \in DOMAIN Append(q, e) /\ Append(q, e)[j] = q[j]
      /\ \A k \in DOMAIN Append(q, e) :
           k \in DOMAIN q \/ (k = Len(q) + 1 /\ Append(q, e)[k] = e)
  BY Appended
<1> DEFINE r == Append(q, e)
<1> HIDE DEF r
<1>3. Kept(q, r, 0, K) BY <1>1, <1>2 DEF Kept, r
<1> QED BY <1>3 DEF r

LEMMA ConcatKept ==
  ASSUME NEW S, NEW q \in Seq(S), NEW t \in Seq(S), NEW K,
         \A i \in DOMAIN t : t[i].kind \notin K
  PROVE  Kept(q, q \o t, 0, K)
<1>1. \A i \in DOMAIN q : i + 0 = i /\ i - 0 = i BY LenProperties
<1>2. /\ \A j \in DOMAIN q : j \in DOMAIN (q \o t) /\ (q \o t)[j] = q[j]
      /\ \A k \in DOMAIN (q \o t) :
           \/ k \in DOMAIN q
           \/ k - Len(q) \in DOMAIN t /\ (q \o t)[k] = t[k - Len(q)]
  BY Grown
<1> DEFINE r == q \o t
<1> HIDE DEF r
<1>3. Kept(q, r, 0, K) BY <1>1, <1>2 DEF Kept, r
<1> QED BY <1>3 DEF r

LEMMA SameKept ==
  ASSUME NEW S, NEW q \in Seq(S), NEW K
  PROVE  Kept(q, q, 0, K)
<1>1. \A i \in DOMAIN q : i + 0 = i /\ i - 0 = i BY LenProperties
<1> QED BY <1>1 DEF Kept

LEMMA KeptLess ==
  ASSUME NEW q, NEW r, NEW n, NEW K, NEW L \in SUBSET K, Kept(q, r, n, K)
  PROVE  Kept(q, r, n, L)
  BY DEF Kept

\* The number of messages of a kind.
LEMMA CountFinite ==
  ASSUME NEW S, NEW q \in Seq(S), NEW k
  PROVE  IsFiniteSet(OfKind(q, k)) /\ Cardinality(OfKind(q, k)) \in Nat
<1>1. DOMAIN q = 1 .. Len(q) /\ Len(q) \in Nat BY LenProperties
<1>2. IsFiniteSet(1 .. Len(q)) BY <1>1, FS_Interval
<1>3. OfKind(q, k) \in SUBSET (1 .. Len(q)) BY <1>1 DEF OfKind
<1> QED BY <1>2, <1>3, FS_Subset, FS_CardinalityType

LEMMA CountKept ==
  ASSUME NEW S, NEW q \in Seq(S), NEW r \in Seq(S), NEW n \in {0, 1}, NEW K, NEW k \in K,
         Kept(q, r, n, K)
  PROVE  Cardinality(OfKind(r, k)) = Cardinality(OfKind(q, k))
<1> DEFINE A == OfKind(r, k)
           B == OfKind(q, k)
           f == [i \in A |-> i + n]
<1>1. IsFiniteSet(A) /\ IsFiniteSet(B) BY CountFinite
<1>2. DOMAIN q \subseteq Nat /\ DOMAIN r \subseteq Nat BY LenProperties
<1>3. \A i \in A : i + n \in B BY DEF Kept, OfKind
<1>4. \A j \in B : j - n \in A /\ (j - n) + n = j BY <1>2 DEF Kept, OfKind
<1>5. \A i, j \in A : i + n = j + n => i = j BY <1>2 DEF OfKind
<1> HIDE DEF A, B
<1>6. f \in Bijection(A, B)
  BY <1>3, <1>4, <1>5 DEF Bijection, Injection, Surjection, IsInjective
<1> HIDE DEF f
<1>7. ExistsBijection(A, B) BY <1>6 DEF ExistsBijection
<1>8. Cardinality(A) = Cardinality(B) BY <1>1, <1>7, FS_Bijection
<1> QED BY <1>8 DEF A, B

LEMMA CountAppend ==
  ASSUME NEW S, NEW q \in Seq(S), NEW e \in S, NEW k
  PROVE  Cardinality(OfKind(Append(q, e), k)) =
           Cardinality(OfKind(q, k)) + (IF e.kind = k THEN 1 ELSE 0)
<1> DEFINE A == OfKind(q, k)
           n == Len(q) + 1
<1>1. IsFiniteSet(A) /\ Cardinality(A) \in Nat BY CountFinite
<1>2. /\ \A j \in DOMAIN q : j \in DOMAIN Append(q, e) /\ Append(q, e)[j] = q[j]
      /\ n \in DOMAIN Append(q, e) /\ Append(q, e)[n] = e
      /\ \A j \in DOMAIN Append(q, e) : j \in DOMAIN q \/ j = n
      /\ n \notin DOMAIN q
  BY Appended
<1> HIDE DEF n
<1>3. OfKind(Append(q, e), k) = IF e.kind = k THEN A \cup {n} ELSE A
  BY <1>2 DEF OfKind
<1>4. n \notin A BY <1>2 DEF OfKind
<1> HIDE DEF A
<1>5. Cardinality(A \cup {n}) = Cardinality(A) + 1 BY <1>1, <1>4, FS_AddElement
<1> QED BY <1>1, <1>3, <1>5 DEF A

LEMMA CountTail ==
  ASSUME NEW S, NEW q \in Seq(S), q # <<>>, NEW k
  PROVE  Cardinality(OfKind(Tail(q), k)) =
           Cardinality(OfKind(q, k)) - (IF Head(q).kind = k THEN 1 ELSE 0)
<1> DEFINE A == OfKind(Tail(q), k)
           B == OfKind(q, k) \ {1}
           f == [i \in A |-> i + 1]
<1>1. /\ Tail(q) \in Seq(S) /\ Head(q) = q[1] /\ 1 \in DOMAIN q
      /\ \A j \in DOMAIN Tail(q) : j + 1 \in DOMAIN q /\ Tail(q)[j] = q[j + 1]
      /\ \A j \in DOMAIN q : j = 1 \/ (j - 1 \in DOMAIN Tail(q) /\ Tail(q)[j - 1] = q[j])
      /\ DOMAIN Tail(q) \subseteq Nat \ {0} /\ DOMAIN q \subseteq Nat \ {0}
  BY Popped
<1>2. IsFiniteSet(A) /\ IsFiniteSet(OfKind(q, k)) BY <1>1, CountFinite
<1>3. \A i \in A : i + 1 \in B BY <1>1 DEF OfKind
<1>4. \A j \in B : j - 1 \in A /\ (j - 1) + 1 = j BY <1>1 DEF OfKind
<1>5. \A i, j \in A : i + 1 = j + 1 => i = j BY <1>1 DEF OfKind
<1>6. 1 \in OfKind(q, k) <=> Head(q).kind = k BY <1>1 DEF OfKind
<1> HIDE DEF A
<1>7. f \in Bijection(A, B)
  <2> HIDE DEF B
  <2> QED BY <1>3, <1>4, <1>5 DEF Bijection, Injection, Surjection, IsInjective
<1> HIDE DEF f
<1>8. ExistsBijection(A, B) BY <1>7 DEF ExistsBijection
<1>9. Cardinality(A) = Cardinality(B)
  <2> HIDE DEF B
  <2> QED BY <1>2, <1>8, FS_Bijection
<1>10. /\ Cardinality(OfKind(q, k)) \in Nat
       /\ Cardinality(B) = IF 1 \in OfKind(q, k) THEN Cardinality(OfKind(q, k)) - 1
                           ELSE Cardinality(OfKind(q, k))
  BY <1>2, FS_RemoveElement, FS_CardinalityType
<1> QED BY <1>6, <1>9, <1>10 DEF A

\* Where there is at most one, there is one or none.
LEMMA CountOne ==
  ASSUME NEW A, \A i, j \in A : i = j
  PROVE  IsFiniteSet(A) /\ Cardinality(A) = IF A = {} THEN 0 ELSE 1
<1>1. CASE A = {} BY <1>1, FS_EmptySet
<1>2. CASE A # {}
  <2>1. PICK x \in A : A = {x} BY <1>2
  <2> QED BY <1>2, <2>1, FS_Singleton
<1> QED BY <1>1, <1>2

\* A non-empty set of natural numbers has a least one.
LEMMA LeastExists ==
  ASSUME NEW S \in SUBSET Nat, S # {}
  PROVE  \E x \in S : \A y \in S : x <= y
<1>1. PICK x \in S : \A y \in S : ~(<<y, x>> \in OpToRel(<, Nat))
  BY WFMin, NatLessThanWellFounded
<1>2. \A y \in S : ~(y < x) BY <1>1 DEF OpToRel
<1>3. \A y \in S : x <= y BY <1>2
<1> QED BY <1>3
-----------------------------------------------------------------------------
(* Enumerations of finite sets.                                            *)

\* Every enumeration of a finite set lists each of its elements.
LEMMA EnumerationIsOnto ==
  ASSUME NEW P, IsFiniteSet(P), NEW order \in SetToSeqs(P)
  PROVE  /\ order \in Seq(P) /\ \A p \in P : \E k \in DOMAIN order : order[k] = p
         /\ P = {} => order = <<>>
<1> DEFINE D == 1 .. Cardinality(P)
<1>1. Cardinality(P) \in Nat BY FS_CardinalityType
<1>2. IsFiniteSet(D) /\ Cardinality(D) = Cardinality(P)
  BY <1>1, FS_Interval
<1>3. order \in [D -> P] /\ \A i, j \in D : i # j => order[i] # order[j]
  BY DEF SetToSeqs
<1>4. order \in Injection(D, P) BY <1>3 DEF Injection, IsInjective
<1>5. order \in Surjection(D, P) BY <1>2, <1>4, FS_Injection
<1>6. \A p \in P : \E k \in DOMAIN order : order[k] = p
  BY <1>3, <1>5 DEF Surjection
<1>7. order \in Seq(P) BY <1>1, <1>3
<1>8. ASSUME P = {} PROVE order = <<>>
  BY <1>7, <1>8, EmptySeq
<1> QED BY <1>6, <1>7, <1>8

\* A finite set with a strict total order R can be enumerated in that order:
\* the place of an element is the number of those up to it.
LEMMA SortExists ==
  ASSUME NEW S, IsFiniteSet(S), NEW R,
         \A a, b \in S : a # b => <<a, b>> \in R \/ <<b, a>> \in R,
         \A a, b, c \in S : <<a, b>> \in R /\ <<b, c>> \in R => <<a, c>> \in R,
         \A a \in S : <<a, a>> \notin R
  PROVE  \E s \in SetToSeqs(S) : \A j, k \in DOMAIN s : j < k => <<s[j], s[k]>> \in R
<1> DEFINE D == 1 .. Cardinality(S)
           UpTo(a) == {b \in S : b = a \/ <<b, a>> \in R}
           rank == [a \in S |-> Cardinality(UpTo(a))]
<1>1. Cardinality(S) \in Nat BY FS_CardinalityType
<1>2. IsFiniteSet(D) /\ Cardinality(D) = Cardinality(S) BY <1>1, FS_Interval
<1>3. \A a \in S : /\ IsFiniteSet(UpTo(a)) /\ UpTo(a) \subseteq S /\ a \in UpTo(a)
                   /\ Cardinality(UpTo(a)) \in Nat
                   /\ Cardinality(UpTo(a)) <= Cardinality(S)
                   /\ UpTo(a) # {}
  BY FS_Subset, FS_CardinalityType
<1>4. \A a \in S : Cardinality(UpTo(a)) \in D
  <2> TAKE a \in S
  <2>1. Cardinality(UpTo(a)) # 0 BY <1>3, FS_EmptySet
  <2>2. Cardinality(UpTo(a)) \in Nat /\ Cardinality(UpTo(a)) <= Cardinality(S) BY <1>3
  <2> HIDE DEF UpTo
  <2> QED BY <1>1, <2>1, <2>2
<1>5. rank \in [S -> D] BY <1>4
<1>6. ASSUME NEW a \in S, NEW b \in S, <<a, b>> \in R
      PROVE  rank[a] < rank[b]
  <2>1. UpTo(a) \subseteq UpTo(b) BY <1>6
  <2>2. b \notin UpTo(a) BY <1>6
  <2>3. UpTo(a) # UpTo(b) BY <1>3, <2>2
  <2>4. /\ Cardinality(UpTo(a)) <= Cardinality(UpTo(b))
        /\ Cardinality(UpTo(b)) # Cardinality(UpTo(a))
    <3>1. UpTo(a) \in SUBSET UpTo(b) /\ IsFiniteSet(UpTo(b)) BY <1>3, <2>1
    <3> QED BY <2>3, <3>1, FS_Subset
  <2>5. Cardinality(UpTo(a)) \in Nat /\ Cardinality(UpTo(b)) \in Nat BY <1>3
  <2>6. Cardinality(UpTo(a)) < Cardinality(UpTo(b)) BY <2>4, <2>5
  <2> QED BY <2>6
<1>7. ASSUME NEW a \in S, NEW b \in S, rank[a] = rank[b] PROVE a = b
  <2>1. rank[a] \in Nat /\ rank[b] \in Nat BY <1>5
  <2> HIDE DEF rank
  <2>2. ~(rank[a] < rank[b]) /\ ~(rank[b] < rank[a]) BY <1>7, <2>1
  <2> QED BY <1>6, <2>2
<1> HIDE DEF rank
<1>8. rank \in Injection(S, D) BY <1>5, <1>7 DEF Injection, IsInjective
<1>9. rank \in Surjection(S, D) BY <1>2, <1>8, FS_Injection
<1>10. \A i \in D : \E a \in S : rank[a] = i BY <1>5, <1>9 DEF Surjection
<1> DEFINE s == [i \in D |-> CHOOSE a \in S : rank[a] = i]
<1>11. \A i \in D : s[i] \in S /\ rank[s[i]] = i BY <1>10
<1>12. s \in [D -> S] /\ \A i, j \in D : i # j => s[i] # s[j] BY <1>11
<1>13. s \in SetToSeqs(S) BY <1>12 DEF SetToSeqs
<1>14. ASSUME NEW j \in D, NEW k \in D, j < k PROVE <<s[j], s[k]>> \in R
  <2>1. s[j] \in S /\ s[k] \in S /\ rank[s[j]] = j /\ rank[s[k]] = k BY <1>11
  <2>2. s[j] # s[k] BY <2>1, <1>14, <1>1
  <2>3. CASE <<s[k], s[j]>> \in R
    <3>1. k < j BY <1>6, <2>1, <2>3
    <3> QED BY <3>1, <1>14, <1>1
  <2> QED BY <2>1, <2>2, <2>3
<1>15. DOMAIN s = D OBVIOUS
<1> HIDE DEF s
<1> QED BY <1>13, <1>14, <1>15
=============================================================================
