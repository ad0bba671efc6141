--------------------------- MODULE SequenceLemmas ---------------------------
(***************************************************************************)
(* What the proofs need to know of the operators of the community modules  *)
(* that queues and lines are built from.                                   *)
(***************************************************************************)
EXTENDS Subsequences, SequencesExt, FiniteSetTheorems, SequenceTheorems, TLAPS

(* A nonempty set of natural numbers has a least element, and Min is it. *)
LEMMA MinOfNaturals ==
  ASSUME NEW S \in SUBSET Nat, S # {}
  PROVE  Min(S) \in S /\ \A x \in S : Min(S) <= x
<1> DEFINE R == {ss \in Nat \X Nat : ss[1] < ss[2]}
<1>1. IsWellFoundedOn(R, Nat)
  BY NatLessThanWellFounded DEF OpToRel
<1>2. \E x \in S : \A y \in S : ~ (<<y, x>> \in R)
  <2> HIDE DEF R
  <2> QED BY <1>1, WFMin
<1>3. \E x \in S : \A y \in S : x <= y
  <2>1. \A x, y \in S : ~ (<<y, x>> \in R) => x <= y
    OBVIOUS
  <2> HIDE DEF R
  <2> QED BY <1>2, <2>1
<1> QED  BY <1>3 DEF Min

(* A nonempty finite set of natural numbers has a greatest element, and Max *)
(* is it.                                                                   *)
LEMMA MaxUpTo ==
  ASSUME NEW n \in Nat, NEW S \in SUBSET (0 .. n), S # {}
  PROVE  Max(S) \in S /\ \A x \in S : x <= Max(S)
<1> DEFINE Bounds == {b \in Nat : \A x \in S : x <= b}
<1>1. n \in Bounds
  OBVIOUS
<1>2. Min(Bounds) \in Bounds /\ \A b \in Bounds : Min(Bounds) <= b
  <2>1. Bounds \in SUBSET Nat /\ Bounds # {}
    BY <1>1
  <2> HIDE DEF Bounds
  <2> QED BY <2>1, MinOfNaturals
<1> DEFINE m == Min(Bounds)
<1>3. m \in Nat /\ \A x \in S : x <= m
  BY <1>2
<1>4. m \in S
  <2> SUFFICES ASSUME m \notin S PROVE FALSE
    OBVIOUS
  <2>1. PICK x \in S : TRUE
    OBVIOUS
  <2>2. x \in Nat /\ x <= m /\ x # m
    BY <1>3
  <2> HIDE DEF m
  <2>3. m - 1 \in Nat
    BY <1>3, <2>2
  <2>4. \A y \in S : y <= m - 1
    BY <1>3
  <2>5. m - 1 \in Bounds
    BY <2>3, <2>4
  <2>6. m <= m - 1
    BY <1>2, <2>5 DEF m
  <2> QED BY <1>3, <2>6
<1> HIDE DEF m
<1> QED BY <1>3, <1>4 DEF Max

LEMMA MaxOfNaturals ==
  ASSUME NEW n \in Nat, NEW S \in SUBSET (1 .. n), S # {}
  PROVE  Max(S) \in S /\ \A x \in S : x <= Max(S)
<1>1. S \in SUBSET (0 .. n)
  OBVIOUS
<1> QED BY <1>1, MaxUpTo

(* A finite set of naturals has, for every n below its cardinality, an      *)
(* element with n smaller ones: Nth, which picks the target the round-robin *)
(* cursor points at, is defined.  By the least n without such an element.   *)
LEMMA EveryPlaceIsTaken ==
  ASSUME NEW S \in SUBSET Nat, IsFiniteSet(S), NEW n \in Nat, n < Cardinality(S)
  PROVE  \E i \in S : Cardinality({j \in S : j < i}) = n
<1> DEFINE Below(i) == {j \in S : j < i}
           Bad == {k \in Nat : k < Cardinality(S) /\ \A i \in S : Cardinality(Below(i)) # k}
<1>1. Cardinality(S) \in Nat
  BY FS_CardinalityType
<1>2. SUFFICES ASSUME Bad # {} PROVE FALSE
  <2>1. n \notin Bad
    BY <1>2
  <2> QED BY <2>1
<1> DEFINE m == Min(Bad)
<1>3. m \in Bad /\ \A k \in Bad : m <= k
  <2> HIDE DEF Bad
  <2>1. Bad \in SUBSET Nat
    BY DEF Bad
  <2> QED BY <1>2, <2>1, MinOfNaturals
<1>4. m \in Nat /\ m < Cardinality(S)
  BY <1>3
<1>5. \A i \in S : Cardinality(Below(i)) # m
  BY <1>3
<1> HIDE DEF m
<1>6. S # {}
  BY <1>4, FS_EmptySet
<1>7. CASE m = 0
  <2>1. Min(S) \in S /\ \A x \in S : Min(S) <= x
    BY <1>6, MinOfNaturals
  <2>2. Below(Min(S)) = {}
    <3> SUFFICES ASSUME NEW x \in S, x < Min(S) PROVE FALSE
      OBVIOUS
    <3>1. x \in Nat /\ Min(S) \in Nat /\ Min(S) <= x
      BY <2>1
    <3> QED BY <3>1
  <2>3. Cardinality(Below(Min(S))) = 0
    BY <2>2, FS_EmptySet
  <2> QED BY <1>5, <1>7, <2>1, <2>3
<1>8. CASE m # 0
  <2>1. m - 1 \in Nat /\ m - 1 < Cardinality(S)
    BY <1>1, <1>4, <1>8
  <2>2. m - 1 \notin Bad
    BY <1>3, <1>4
  <2>3. PICK i \in S : Cardinality(Below(i)) = m - 1
    BY <2>1, <2>2
  <2> DEFINE L == {j \in S : j <= i}
             U == S \ L
  <2>4. Cardinality(L) = m /\ IsFiniteSet(L)
    <3>1. IsFiniteSet(Below(i))
      BY FS_Subset
    <3>2. L = Below(i) \cup {i} /\ i \notin Below(i)
      <4>1. i \in Nat /\ \A x \in S : x <= i <=> x < i \/ x = i
        OBVIOUS
      <4>2. ~ (i < i)
        BY <4>1
      <4> QED BY <4>1, <4>2, Zenon
    <3>3. Cardinality(Below(i) \cup {i}) = Cardinality(Below(i)) + 1
      BY <3>1, <3>2, FS_AddElement
    <3>4. L \in SUBSET S
      OBVIOUS
    <3>5. IsFiniteSet(L)
      BY <3>4, FS_Subset
    <3>6. Cardinality(L) = m - 1 + 1
      BY <2>3, <3>2, <3>3
    <3> QED BY <1>4, <3>5, <3>6
  <2>5. U # {}
    <3>1. SUFFICES ASSUME U = {} PROVE FALSE
      OBVIOUS
    <3>2. S = L
      BY <3>1
    <3> QED BY <1>4, <2>4, <3>2
  <2>6. Min(U) \in U /\ \A x \in U : Min(U) <= x
    <3>1. U \in SUBSET Nat
      OBVIOUS
    <3> HIDE DEF U
    <3> QED BY <2>5, <3>1, MinOfNaturals
  <2>7. Below(Min(U)) = L
    <3> DEFINE u == Min(U)
    <3>1. u \in S /\ ~ (u <= i) /\ u \in Nat /\ i \in Nat
      BY <2>6
    <3>2. \A x \in S : ~ (x <= i) => u <= x
      BY <2>6
    <3> HIDE DEF u
    <3>3. \A x \in S : x < u <=> x <= i
      BY <3>1, <3>2
    <3> QED BY <3>3 DEF u
  <2> QED BY <1>5, <2>4, <2>6, <2>7
<1> QED BY <1>7, <1>8

(* That element is the one Nth picks. *)
LEMMA NthIsMember ==
  ASSUME NEW S \in SUBSET Nat, IsFiniteSet(S), NEW n \in Nat, n < Cardinality(S)
  PROVE  Nth(S, n) \in S
BY EveryPlaceIsTaken DEF Nth

(* Counted from the smallest, the elements of a finite set ascend, and none *)
(* is left out.                                                             *)
LEMMA NthAscends ==
  ASSUME NEW S \in SUBSET Nat, IsFiniteSet(S)
  PROVE  /\ Cardinality(S) \in Nat
         /\ \A n \in 1 .. Cardinality(S) : Nth(S, n - 1) \in S
         /\ \A m, n \in 1 .. Cardinality(S) : m < n => Nth(S, m - 1) < Nth(S, n - 1)
         /\ \A k \in S : \E n \in 1 .. Cardinality(S) : Nth(S, n - 1) = k
<1> DEFINE Below(i) == {j \in S : j < i}
           At(n) == Nth(S, n - 1)
<1>1. Cardinality(S) \in Nat
  BY FS_CardinalityType
<1>2. \A i : Below(i) \in SUBSET S /\ IsFiniteSet(Below(i)) /\ Cardinality(Below(i)) \in Nat
  <2>1. \A T \in SUBSET S : IsFiniteSet(T) /\ Cardinality(T) \in Nat
    BY FS_Subset, FS_CardinalityType
  <2> QED BY <2>1
<1>3. ASSUME NEW n \in 1 .. Cardinality(S)
      PROVE  At(n) \in S /\ Cardinality(Below(At(n))) = n - 1
  <2>1. n - 1 \in Nat /\ n - 1 < Cardinality(S)
    BY <1>1
  <2>2. At(n) \in S
    BY <2>1, NthIsMember
  <2>3. \E i \in S : Cardinality(Below(i)) = n - 1
    BY <2>1, EveryPlaceIsTaken
  <2> QED BY <2>2, <2>3 DEF Nth
<1>4. ASSUME NEW i \in S, NEW j \in S, i < j
      PROVE  Cardinality(Below(i)) < Cardinality(Below(j))
  <2>1. Below(i) \in SUBSET Below(j) /\ i \in Below(j) /\ i \notin Below(i)
    <3>1. i \in Nat /\ j \in Nat /\ ~ (i < i) /\ \A x \in S : x < i => x < j
      BY <1>4
    <3> QED BY <1>4, <3>1, Zenon
  <2>2. Cardinality(Below(i)) <= Cardinality(Below(j)) /\ Cardinality(Below(i)) # Cardinality(Below(j))
    BY <1>2, <2>1, FS_Subset
  <2> QED BY <1>2, <2>2
<1>5. ASSUME NEW m \in 1 .. Cardinality(S), NEW n \in 1 .. Cardinality(S), m < n
      PROVE  At(m) < At(n)
  <2>1. At(m) \in Nat /\ At(n) \in Nat
    BY <1>3
  <2>2. ~ (At(n) < At(m)) /\ At(n) # At(m)
    <3> DEFINE x == At(m)
               y == At(n)
    <3>1. x \in S /\ y \in S /\ Cardinality(Below(x)) = m - 1 /\ Cardinality(Below(y)) = n - 1
      BY <1>3
    <3> HIDE DEF x, y, Below
    <3>2. y < x => Cardinality(Below(y)) < Cardinality(Below(x))
      BY <1>4, <3>1
    <3>3. m \in Nat /\ n \in Nat
      BY <1>1
    <3> QED BY <1>5, <3>1, <3>2, <3>3 DEF x, y
  <2> QED BY <2>1, <2>2
<1>6. ASSUME NEW k \in S
      PROVE  \E n \in 1 .. Cardinality(S) : At(n) = k
  <2> DEFINE n == Cardinality(Below(k)) + 1
  <2>1. k \notin Below(k)
    OBVIOUS
  <2>2. Cardinality(Below(k)) < Cardinality(S)
    <3>1. Cardinality(Below(k)) <= Cardinality(S) /\ Cardinality(Below(k)) # Cardinality(S)
      BY <1>2, <2>1, FS_Subset
    <3> QED BY <1>1, <1>2, <3>1
  <2>3. n \in 1 .. Cardinality(S) /\ n - 1 = Cardinality(Below(k))
    <3>1. Cardinality(Below(k)) \in Nat
      BY <1>2
    <3> HIDE DEF Below
    <3> QED BY <1>1, <2>2, <3>1
  <2> HIDE DEF n
  <2>4. At(n) \in S /\ Cardinality(Below(At(n))) = Cardinality(Below(k))
    BY <1>3, <2>3
  <2>5. At(n) = k
    <3> DEFINE x == At(n)
    <3>1. x \in S /\ Cardinality(Below(x)) = Cardinality(Below(k))
      BY <2>4
    <3>2. Cardinality(Below(k)) \in Nat
      BY <1>2
    <3> HIDE DEF x, Below
    <3>3. ~ (x < k) /\ ~ (k < x)
      BY <1>4, <3>1, <3>2
    <3>4. x \in Nat /\ k \in Nat
      BY <3>1
    <3> QED BY <3>3, <3>4 DEF x
  <2> QED BY <2>3, <2>5
<1> QED BY <1>1, <1>3, <1>5, <1>6

(* A subsequence has the elements at the chosen positions, in their order, *)
(* and no others.                                                          *)
LEMMA SubsequenceElements ==
  ASSUME NEW s, NEW S \in SUBSET DOMAIN s, DOMAIN s \in SUBSET Nat, IsFiniteSet(DOMAIN s)
  PROVE  /\ Cardinality(S) \in Nat
         /\ DOMAIN Subsequence(s, S) = 1 .. Cardinality(S)
         /\ \A k \in S : \E n \in DOMAIN Subsequence(s, S) : Subsequence(s, S)[n] = s[k]
         /\ \A n \in DOMAIN Subsequence(s, S) : \E k \in S : Subsequence(s, S)[n] = s[k]
         /\ \A m, n \in DOMAIN Subsequence(s, S) : m < n =>
              \E j, k \in S : j < k /\ Subsequence(s, S)[m] = s[j] /\ Subsequence(s, S)[n] = s[k]
<1>1. IsFiniteSet(S) /\ S \in SUBSET Nat
  BY FS_Subset
<1>2. /\ Cardinality(S) \in Nat
      /\ \A n \in 1 .. Cardinality(S) : Nth(S, n - 1) \in S
      /\ \A m, n \in 1 .. Cardinality(S) : m < n => Nth(S, m - 1) < Nth(S, n - 1)
      /\ \A k \in S : \E n \in 1 .. Cardinality(S) : Nth(S, n - 1) = k
  BY <1>1, NthAscends
<1>3. /\ DOMAIN Subsequence(s, S) = 1 .. Cardinality(S)
      /\ \A n \in 1 .. Cardinality(S) : Subsequence(s, S)[n] = s[Nth(S, n - 1)]
  BY DEF Subsequence
<1>4. \A k \in S : \E n \in DOMAIN Subsequence(s, S) : Subsequence(s, S)[n] = s[k]
  <2> SUFFICES ASSUME NEW k \in S
               PROVE  \E n \in DOMAIN Subsequence(s, S) : Subsequence(s, S)[n] = s[k]
    OBVIOUS
  <2>1. PICK n \in 1 .. Cardinality(S) : Nth(S, n - 1) = k
    BY <1>2
  <2> QED BY <1>3, <2>1
<1>5. \A m, n \in DOMAIN Subsequence(s, S) : m < n =>
        \E j, k \in S : j < k /\ Subsequence(s, S)[m] = s[j] /\ Subsequence(s, S)[n] = s[k]
  <2> SUFFICES ASSUME NEW m \in DOMAIN Subsequence(s, S), NEW n \in DOMAIN Subsequence(s, S), m < n
               PROVE  \E j, k \in S : /\ j < k
                                      /\ Subsequence(s, S)[m] = s[j]
                                      /\ Subsequence(s, S)[n] = s[k]
    OBVIOUS
  <2>1. m \in 1 .. Cardinality(S) /\ n \in 1 .. Cardinality(S)
    BY <1>3
  <2>2. Nth(S, m - 1) \in S /\ Nth(S, n - 1) \in S /\ Nth(S, m - 1) < Nth(S, n - 1)
    BY <1>2, <2>1
  <2> QED BY <1>3, <2>1, <2>2
<1> QED BY <1>2, <1>3, <1>4, <1>5

(* It is a sequence of what it was picked from. *)
LEMMA SubsequenceType ==
  ASSUME NEW T, NEW s \in Seq(T), NEW S \in SUBSET DOMAIN s
  PROVE  /\ Subsequence(s, S) \in Seq(T)
         /\ Len(Subsequence(s, S)) = Cardinality(S)
         /\ S # {} => Subsequence(s, S) # <<>>
<1>1. DOMAIN s = 1 .. Len(s) /\ Len(s) \in Nat /\ \A k \in DOMAIN s : s[k] \in T
  BY LenProperties, ElementOfSeq
<1>2. DOMAIN s \in SUBSET Nat /\ IsFiniteSet(DOMAIN s)
  BY <1>1, FS_Interval
<1>3. /\ Cardinality(S) \in Nat
      /\ DOMAIN Subsequence(s, S) = 1 .. Cardinality(S)
      /\ \A n \in DOMAIN Subsequence(s, S) : \E k \in S : Subsequence(s, S)[n] = s[k]
  BY <1>2, SubsequenceElements
<1>4. Subsequence(s, S) = [n \in 1 .. Cardinality(S) |-> Subsequence(s, S)[n]]
  BY <1>3 DEF Subsequence
<1>5. \A n \in 1 .. Cardinality(S) : Subsequence(s, S)[n] \in T
  BY <1>1, <1>3
<1> HIDE DEF Subsequence
<1>6. Subsequence(s, S) \in Seq(T) /\ Len(Subsequence(s, S)) = Cardinality(S)
  BY <1>3, <1>4, <1>5
<1>7. S # {} => Cardinality(S) # 0
  BY <1>2, FS_Subset, FS_EmptySet
<1> QED BY <1>6, <1>7, EmptySeq

(* Removing position i of a sequence keeps every other element, keeps the   *)
(* order, and adds none.                                                    *)
LEMMA RemoveAtElements ==
  ASSUME NEW S, NEW q \in Seq(S), NEW i \in DOMAIN q
  PROVE  /\ RemoveAt(q, i) \in Seq(S)
         /\ Len(RemoveAt(q, i)) = Len(q) - 1
         /\ \A j \in DOMAIN RemoveAt(q, i) :
              RemoveAt(q, i)[j] = q[IF j < i THEN j ELSE j + 1]
<1> DEFINE front == SubSeq(q, 1, i - 1)
           back == SubSeq(q, i + 1, Len(q))
<1>1. Len(q) \in Nat /\ DOMAIN q = 1..Len(q) /\ \A j \in 1..Len(q) : q[j] \in S
  BY LenProperties, ElementOfSeq
<1>2. i \in 1..Len(q)
  BY <1>1
<1>3. front \in Seq(S) /\ Len(front) = i - 1 /\ \A j \in 1..i - 1 : front[j] = q[j]
  <2>1. \A j \in 1..i - 1 : q[j] \in S
    BY <1>1, <1>2
  <2>2. /\ front \in Seq(S)
        /\ Len(front) = IF 1 <= i - 1 THEN i - 1 - 1 + 1 ELSE 0
        /\ \A j \in 1..i - 1 - 1 + 1 : front[j] = q[1 + j - 1]
    <3> 1 \in Int /\ i - 1 \in Int
      BY <1>2
    <3> QED BY <2>1, SubSeqProperties
  <2> QED BY <1>2, <2>2
<1>4. /\ back \in Seq(S) /\ Len(back) = Len(q) - i
      /\ \A j \in 1..Len(q) - i : back[j] = q[i + j]
  <2>1. \A j \in i + 1..Len(q) : q[j] \in S
    BY <1>1, <1>2
  <2>2. /\ back \in Seq(S)
        /\ Len(back) = IF i + 1 <= Len(q) THEN Len(q) - (i + 1) + 1 ELSE 0
        /\ \A j \in 1..Len(q) - (i + 1) + 1 : back[j] = q[i + 1 + j - 1]
    <3> i + 1 \in Int /\ Len(q) \in Int
      BY <1>1, <1>2
    <3> QED BY <2>1, SubSeqProperties
  <2>3. Len(q) - (i + 1) + 1 = Len(q) - i
    BY <1>1, <1>2
  <2>4. Len(back) = Len(q) - i
    BY <1>1, <1>2, <2>2
  <2>5. \A j \in 1..Len(q) - i : j \in 1..Len(q) - (i + 1) + 1 /\ i + 1 + j - 1 = i + j
    BY <1>1, <1>2
  <2> HIDE DEF back
  <2> QED BY <2>2, <2>4, <2>5
<1> DEFINE whole == front \o back
<1> HIDE DEF front, back
<1>5. /\ whole \in Seq(S)
      /\ Len(whole) = Len(front) + Len(back)
      /\ \A j \in 1..Len(front) + Len(back) :
           whole[j] = IF j <= Len(front) THEN front[j] ELSE back[j - Len(front)]
  BY <1>3, <1>4, ConcatProperties
<1>6. RemoveAt(q, i) = whole
  BY DEF RemoveAt, front, back
<1> HIDE DEF whole
<1>7. Len(whole) = Len(q) - 1 /\ DOMAIN whole = 1..Len(q) - 1
  <2>1. DOMAIN whole = 1..Len(whole)
    BY <1>5, LenProperties
  <2> QED BY <1>1, <1>2, <1>3, <1>4, <1>5, <2>1
<1>8. ASSUME NEW j \in 1..Len(q) - 1
      PROVE  whole[j] = q[IF j < i THEN j ELSE j + 1]
  <2>1. j \in 1..Len(front) + Len(back) /\ j \in Nat /\ i \in Nat
    BY <1>1, <1>2, <1>3, <1>4
  <2>2. whole[j] = IF j <= i - 1 THEN front[j] ELSE back[j - (i - 1)]
    BY <1>3, <1>5, <2>1
  <2>3. CASE j < i
    <3>1. j <= i - 1 /\ j \in 1..i - 1
      BY <2>1, <2>3
    <3> QED BY <1>3, <2>2, <2>3, <3>1
  <2>4. CASE ~ (j < i)
    <3>1. ~ (j <= i - 1) /\ j - (i - 1) \in 1..Len(q) - i /\ i + (j - (i - 1)) = j + 1
      BY <1>1, <2>1, <2>4
    <3> QED BY <1>4, <2>2, <2>4, <3>1
  <2> QED BY <2>3, <2>4
<1> QED BY <1>5, <1>6, <1>7, <1>8

(* The line s holds exactly the members of S, each once. *)
IsLineOf(s, S) == s \in Seq(S) /\ IsInjective(s) /\ ToSet(s) = S

(* Whoever joins a line at its end. *)
LEMMA JoinLine ==
  ASSUME NEW S, NEW s, IsLineOf(s, S), NEW x, x \notin S
  PROVE  /\ IsLineOf(Append(s, x), S \cup {x})
         /\ s = <<>> => Head(Append(s, x)) = x
         /\ s # <<>> => Head(Append(s, x)) = Head(s)
<1>1. Len(s) \in Nat /\ DOMAIN s = 1..Len(s) /\ \A j \in 1..Len(s) : s[j] \in S
  BY LenProperties, ElementOfSeq DEF IsLineOf
<1>2. s \in Seq(S \cup {x})
  BY DEF IsLineOf
<1>3. /\ Append(s, x) \in Seq(S \cup {x})
      /\ Len(Append(s, x)) = Len(s) + 1
      /\ \A j \in 1..Len(s) : Append(s, x)[j] = s[j]
      /\ Append(s, x)[Len(s) + 1] = x
  BY <1>2, AppendProperties
<1>4. DOMAIN Append(s, x) = 1..Len(s) + 1
  BY <1>1, <1>3, LenProperties
<1> DEFINE t == Append(s, x)
<1> HIDE DEF t
<1>5. IsInjective(t)
  BY <1>1, <1>3, <1>4 DEF IsLineOf, IsInjective, t
<1>6. ToSet(t) = S \cup {x}
  BY <1>1, <1>3, <1>4 DEF IsLineOf, ToSet, t
<1>7. s = <<>> => Head(t) = x
  BY <1>3, HeadTailProperties DEF t
<1>8. s # <<>> => Head(t) = Head(s)
  BY <1>1, <1>3 DEF t, IsLineOf
<1> QED BY <1>3, <1>5, <1>6, <1>7, <1>8 DEF t, IsLineOf

(* Whoever leaves a line, from any place. *)
LEMMA LeaveLine ==
  ASSUME NEW S, NEW s, IsLineOf(s, S), NEW i \in DOMAIN s
  PROVE  /\ s[i] \in S
         /\ IsLineOf(RemoveAt(s, i), S \ {s[i]})
         /\ s[i] # Head(s) => Head(RemoveAt(s, i)) = Head(s)
<1> DEFINE t == RemoveAt(s, i)
           x == s[i]
<1>1. Len(s) \in Nat /\ DOMAIN s = 1..Len(s) /\ \A j \in 1..Len(s) : s[j] \in S
  BY LenProperties, ElementOfSeq DEF IsLineOf
<1>2. /\ t \in Seq(S) /\ Len(t) = Len(s) - 1
      /\ \A j \in DOMAIN t : t[j] = s[IF j < i THEN j ELSE j + 1]
  BY RemoveAtElements DEF IsLineOf
<1>3. DOMAIN t = 1..Len(s) - 1 /\ i \in 1..Len(s)
  BY <1>1, <1>2, LenProperties
<1> HIDE DEF t
<1>4. \A j \in 1..Len(s) - 1 :
        t[j] # x /\ (IF j < i THEN j ELSE j + 1) \in 1..Len(s)
  BY <1>1, <1>2, <1>3 DEF IsLineOf, IsInjective
<1>5. IsInjective(t)
  <2> SUFFICES ASSUME NEW j \in 1..Len(s) - 1, NEW k \in 1..Len(s) - 1, t[j] = t[k]
               PROVE  j = k
    BY <1>3 DEF IsInjective
  <2>1. (IF j < i THEN j ELSE j + 1) = (IF k < i THEN k ELSE k + 1)
    BY <1>1, <1>2, <1>3, <1>4 DEF IsLineOf, IsInjective
  <2> QED BY <1>1, <1>3, <2>1
<1>6. \A y \in S \ {x} : \E j \in 1..Len(s) - 1 : t[j] = y
  <2> SUFFICES ASSUME NEW y \in S \ {x} PROVE \E j \in 1..Len(s) - 1 : t[j] = y
    OBVIOUS
  <2>1. PICK k \in 1..Len(s) : s[k] = y
    BY <1>1 DEF IsLineOf, ToSet
  <2>2. k # i
    BY <2>1
  <2> DEFINE j == IF k < i THEN k ELSE k - 1
  <2>3. j \in 1..Len(s) - 1 /\ (IF j < i THEN j ELSE j + 1) = k
    BY <1>1, <1>3, <2>2
  <2> HIDE DEF j
  <2>4. t[j] = y
    BY <1>2, <1>3, <2>1, <2>3
  <2> QED BY <2>3, <2>4
<1>7. ToSet(t) = S \ {x}
  <2>1. \A j \in 1..Len(s) - 1 : t[j] \in S \ {x}
    BY <1>1, <1>2, <1>3, <1>4
  <2>2. ToSet(t) = {t[j] : j \in 1..Len(s) - 1}
    BY <1>3 DEF ToSet
  <2> QED BY <1>6, <2>1, <2>2
<1>8. t \in Seq(S \ {x})
  BY <1>2, <1>3, <1>7, ElementOfSeq, SeqDef DEF ToSet
<1>9. x # Head(s) => Head(t) = Head(s)
  <2> SUFFICES ASSUME x # Head(s) PROVE Head(t) = Head(s)
    OBVIOUS
  <2>1. Head(s) = s[1] /\ Head(t) = t[1]
    BY <1>2, HeadTailProperties DEF IsLineOf
  <2>2. i # 1 /\ 1 \in 1..Len(s) - 1
    BY <1>1, <1>3, <2>1
  <2>3. t[1] = s[1]
    BY <1>2, <1>3, <2>2
  <2> QED BY <2>1, <2>3
<1> QED BY <1>1, <1>3, <1>5, <1>7, <1>8, <1>9 DEF IsLineOf, t

(* Whoever leaves a line from its head. *)
LEMMA ServeLine ==
  ASSUME NEW S, NEW s, IsLineOf(s, S), s # <<>>
  PROVE  Head(s) \in S /\ IsLineOf(Tail(s), S \ {Head(s)})
<1>1. Len(s) \in Nat /\ DOMAIN s = 1..Len(s) /\ 1 \in DOMAIN s /\ Head(s) = s[1]
  BY LenProperties, EmptySeq, HeadTailProperties DEF IsLineOf
<1>2. RemoveAt(s, 1) = Tail(s)
  <2> DEFINE front == SubSeq(s, 1, 1 - 1)
             back == SubSeq(s, 1 + 1, Len(s))
  <2>1. front = <<>>
    BY <1>1, SubSeqEmpty
  <2>2. back = Tail(s)
    BY <1>1, TailIsSubSeq DEF IsLineOf
  <2>3. Tail(s) \in Seq(S)
    BY HeadTailProperties DEF IsLineOf
  <2>4. <<>> \o Tail(s) = Tail(s)
    BY <2>3, ConcatEmptySeq
  <2>5. RemoveAt(s, 1) = front \o back
    BY DEF RemoveAt
  <2> HIDE DEF front, back
  <2> QED BY <2>1, <2>2, <2>4, <2>5
<1>3. s[1] \in S /\ IsLineOf(RemoveAt(s, 1), S \ {s[1]})
  BY <1>1, LeaveLine
<1> QED BY <1>1, <1>2, <1>3

=============================================================================
