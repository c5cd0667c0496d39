----------------------------- MODULE SetsProofs -----------------------------
(***************************************************************************)
(* Sets, for any values whose equal ones share a key, any order of them    *)
(* and any lists a set is combined with.                                   *)
(*                                                                         *)
(* The argument: the index is always the one built anew over the elements  *)
(* (SInv), so looking among its candidates is scanning, and what is added  *)
(* is not there yet.  java.util.HashMap's chains hold the elements of each *)
(* bucket in the order they were added, whenever the table was split       *)
(* (PlacedIn); walking them is the stable sort of hash_order, as an order  *)
(* of finitely many things has one enumeration (RankedOnly).               *)
(***************************************************************************)
EXTENDS Sets, CommonLemmas, FiniteSetTheorems, FunctionTheorems

-----------------------------------------------------------------------------
\* R puts the members of S one before the other.
Lines(S, R) ==
    /\ \A i \in S : <<i, i>> \notin R
    /\ \A i, j \in S : i # j => <<i, j>> \in R \/ <<j, i>> \in R
    /\ \A i, j, k \in S : <<i, j>> \in R /\ <<j, k>> \in R => <<i, k>> \in R

\* f lists the members of S in the order R.
Lists(f, n, S, R) ==
    /\ n \in Nat /\ f \in [1 .. n -> S]
    /\ \A k, m \in 1 .. n : k < m => <<f[k], f[m]>> \in R
    /\ \A i \in S : \E k \in 1 .. n : f[k] = i

\* The interval from 1 to n has n members.
LEMMA Counting ==
    ASSUME NEW n \in Nat
    PROVE  IsFiniteSet(1 .. n) /\ Cardinality(1 .. n) = n
BY FS_Interval

\* A member later in a finite order has more before it.
LEMMA LaterHasMore ==
    ASSUME NEW S, IsFiniteSet(S), NEW R, Lines(S, R), NEW i \in S
    PROVE  LET place(x) == Cardinality({j \in S : <<j, x>> \in R})
           IN  /\ place(i) \in 0 .. Cardinality(S) - 1
               /\ \A k \in S : <<i, k>> \in R => place(i) < place(k)
<1> DEFINE Low(x) == {j \in S : <<j, x>> \in R}
<1>1. Cardinality(S) \in Nat
  BY FS_CardinalityType
<1>2. \A x \in S : IsFiniteSet(Low(x)) /\ Cardinality(Low(x)) \in Nat
  <2>1. ASSUME NEW x \in S PROVE Low(x) \in SUBSET S
    OBVIOUS
  <2> HIDE DEF Low
  <2> QED BY <2>1, FS_Subset, FS_CardinalityType
<1>3. Cardinality(Low(i)) <= Cardinality(S) - 1
  <2>1. IsFiniteSet(S \ {i}) /\ Cardinality(S \ {i}) = Cardinality(S) - 1
    BY FS_RemoveElement
  <2>2. Low(i) \in SUBSET (S \ {i})
    BY DEF Lines
  <2> HIDE DEF Low
  <2> QED BY <2>1, <2>2, FS_Subset
<1>4. ASSUME NEW k \in S, <<i, k>> \in R
      PROVE  Cardinality(Low(i)) < Cardinality(Low(k))
  <2>1. Low(i) \in SUBSET Low(k) /\ i \in Low(k) /\ i \notin Low(i)
    BY <1>4 DEF Lines
  <2>2. Low(k) # Low(i)
    BY <2>1
  <2> HIDE DEF Low
  <2>3. Cardinality(Low(i)) <= Cardinality(Low(k)) /\ Cardinality(Low(k)) # Cardinality(Low(i))
    BY <1>2, <2>1, <2>2, FS_Subset
  <2> QED BY <1>2, <2>3
<1> QED BY <1>1, <1>2, <1>3, <1>4

\* Ranked lists a finite set in its order.
LEMMA RankedIs ==
    ASSUME NEW S, IsFiniteSet(S), NEW R, Lines(S, R)
    PROVE  /\ Lists(Ranked(S, R), Cardinality(S), S, R)
           /\ \A k \in 1 .. Cardinality(S) : Cardinality({j \in S : <<j, Ranked(S, R)[k]>> \in R}) = k - 1
<1> DEFINE n == Cardinality(S)
           place(x) == Cardinality({j \in S : <<j, x>> \in R})
           f == [x \in S |-> place(x)]
           at == Ranked(S, R)
<1>1. n \in Nat
  BY FS_CardinalityType
<1>2. \A i \in S : place(i) \in 0 .. n - 1
  BY LaterHasMore
<1>3. \A i, k \in S : <<i, k>> \in R => place(i) < place(k)
  BY LaterHasMore
<1>4. ASSUME NEW i \in S, NEW k \in S, i # k PROVE place(i) # place(k)
  <2>1. <<i, k>> \in R \/ <<k, i>> \in R
    BY <1>4 DEF Lines
  <2>2. place(i) < place(k) \/ place(k) < place(i)
    BY <1>3, <2>1
  <2>3. place(i) \in Int /\ place(k) \in Int
    BY <1>2
  <2> HIDE DEF place
  <2> QED BY <2>2, <2>3
<1>5. \A p \in 0 .. n - 1 : \E i \in S : place(i) = p
  <2>1. f \in [S -> 0 .. n - 1]
    BY <1>2
  <2>2. \A i, k \in S : f[i] = f[k] => i = k
    BY <1>4
  <2> HIDE DEF place
  <2>3. f \in Injection(S, 0 .. n - 1)
    <3> HIDE DEF f, n
    <3> QED BY <2>1, <2>2, Fun_IsInj
  <2>4. IsFiniteSet(0 .. n - 1) /\ Cardinality(0 .. n - 1) = n
    <3> HIDE DEF n
    <3>1. n - 1 \in Int /\ (IF 0 > n - 1 THEN 0 ELSE n - 1 - 0 + 1) = n
      BY <1>1
    <3> QED BY <3>1, FS_Interval
  <2>5. f \in Surjection(S, 0 .. n - 1)
    <3> HIDE DEF f
    <3> QED BY <2>3, <2>4, FS_Injection
  <2>6. \A p \in 0 .. n - 1 : \E i \in S : f[i] = p
    <3> HIDE DEF f, n
    <3> QED BY <2>5, Fun_SurjectionProperties
  <2> QED BY <2>6
<1>6. ASSUME NEW k \in 1 .. n
      PROVE  at[k] \in S /\ place(at[k]) = k - 1
  <2>1. k - 1 \in 0 .. n - 1
    BY <1>1
  <2>2. \E i \in S : place(i) = k - 1
    BY <1>5, <2>1
  <2>3. at[k] = CHOOSE i \in S : place(i) = k - 1
    BY DEF Ranked
  <2> HIDE DEF place, at
  <2> QED BY <2>2, <2>3
<1>7. at \in [1 .. n -> S]
  BY <1>6 DEF Ranked
<1>8. ASSUME NEW k \in 1 .. n, NEW m \in 1 .. n, k < m
      PROVE  <<at[k], at[m]>> \in R
  <2>1. place(at[k]) = k - 1 /\ place(at[m]) = m - 1 /\ at[k] \in S /\ at[m] \in S
    BY <1>6
  <2>2. k - 1 < m - 1
    BY <1>1, <1>8
  <2>3. at[k] # at[m]
    <3> HIDE DEF place, at
    <3> QED BY <2>1, <2>2
  <2>4. CASE <<at[m], at[k]>> \in R
    <3>1. place(at[m]) < place(at[k])
      BY <1>3, <2>1, <2>4
    <3> HIDE DEF place, at
    <3> QED BY <2>1, <2>2, <3>1
  <2> HIDE DEF place, at
  <2> QED BY <2>1, <2>3, <2>4 DEF Lines
<1>9. ASSUME NEW i \in S PROVE \E k \in 1 .. n : at[k] = i
  <2>1. place(i) + 1 \in 1 .. n
    BY <1>1, <1>2
  <2>2. at[place(i) + 1] \in S /\ place(at[place(i) + 1]) = place(i)
    BY <1>1, <1>2, <1>6, <2>1
  <2> HIDE DEF place, at
  <2>3. at[place(i) + 1] = i
    BY <1>4, <2>2
  <2> QED BY <2>1, <2>3
<1> HIDE DEF at
<1> QED BY <1>1, <1>6, <1>7, <1>8, <1>9 DEF Lists, at

\* There is no other list of a set in an order.
LEMMA RankedOnly ==
    ASSUME NEW S, NEW R, Lines(S, R), NEW f, NEW n, Lists(f, n, S, R)
    PROVE  IsFiniteSet(S) /\ Cardinality(S) = n /\ Ranked(S, R) = f
<1> DEFINE place(x) == Cardinality({j \in S : <<j, x>> \in R})
<1>1. n \in Nat /\ f \in [1 .. n -> S]
  BY DEF Lists
<1>2. ASSUME NEW k \in 1 .. n, NEW m \in 1 .. n, f[k] = f[m] PROVE k = m
  <2>1. ~(k < m) /\ ~(m < k)
    BY <1>1, <1>2 DEF Lists, Lines
  <2> QED BY <1>1, <2>1
<1>3. f \in Bijection(1 .. n, S)
  BY <1>1, <1>2, Fun_IsBij DEF Lists
<1>4. IsFiniteSet(S) /\ Cardinality(S) = n
  <2>1. IsFiniteSet(1 .. n) /\ Cardinality(1 .. n) = n
    BY <1>1, FS_Interval
  <2>2. ExistsBijection(1 .. n, S)
    BY <1>3, Fun_ExistsBij
  <2> QED BY <2>1, <2>2, FS_Bijection
<1>5. ASSUME NEW k \in 1 .. n PROVE place(f[k]) = k - 1
  <2> DEFINE Low == {j \in S : <<j, f[k]>> \in R}
             g == [m \in 1 .. k - 1 |-> f[m]]
  <2>1. 1 .. k - 1 \subseteq 1 .. n /\ k - 1 \in Nat
    BY <1>1
  <2>2. ASSUME NEW m \in 1 .. k - 1 PROVE f[m] \in Low
    <3>1. m \in 1 .. n /\ m < k
      BY <2>1
    <3> QED BY <1>1, <3>1 DEF Lists
  <2>3. g \in [1 .. k - 1 -> Low]
    BY <2>2
  <2>4. \A a, b \in 1 .. k - 1 : g[a] = g[b] => a = b
    BY <1>2, <2>1
  <2>5. ASSUME NEW j \in Low PROVE \E m \in 1 .. k - 1 : g[m] = j
    <3>1. PICK m \in 1 .. n : f[m] = j
      BY DEF Lists
    <3>2. m # k
      BY <1>1, <2>5, <3>1 DEF Lines
    <3>3. ~(k < m)
      <4> SUFFICES ASSUME k < m PROVE FALSE
        OBVIOUS
      <4>1. <<f[k], f[m]>> \in R
        BY DEF Lists
      <4>2. f[k] \in S /\ f[m] \in S /\ <<f[m], f[k]>> \in R
        BY <1>1, <3>1
      <4> QED BY <4>1, <4>2 DEF Lines
    <3>4. m \in 1 .. k - 1
      BY <1>1, <3>2, <3>3
    <3> QED BY <3>1, <3>4
  <2>6. g \in Bijection(1 .. k - 1, Low)
    <3> HIDE DEF g, Low
    <3> QED BY <2>3, <2>4, <2>5, Fun_IsBij
  <2>7. IsFiniteSet(1 .. k - 1) /\ Cardinality(1 .. k - 1) = k - 1
    BY <2>1, FS_Interval
  <2> HIDE DEF g, Low
  <2>8. Cardinality(Low) = k - 1
    BY <2>6, <2>7, Fun_ExistsBij, FS_Bijection
  <2> QED BY <2>8 DEF Low
<1>6. ASSUME NEW k \in 1 .. n
      PROVE  (CHOOSE i \in S : place(i) = k - 1) = f[k]
  <2>1. f[k] \in S /\ place(f[k]) = k - 1
    BY <1>1, <1>5
  <2>2. ASSUME NEW i \in S, place(i) = k - 1 PROVE i = f[k]
    <3>1. PICK m \in 1 .. n : f[m] = i
      BY DEF Lists
    <3>2. place(f[m]) = m - 1
      BY <1>5
    <3> HIDE DEF place
    <3> QED BY <1>1, <2>2, <3>1, <3>2
  <2> HIDE DEF place
  <2> QED BY <2>1, <2>2
<1>7. Ranked(S, R) = [k \in 1 .. n |-> f[k]]
  BY <1>4, <1>6 DEF Ranked
<1>8. f = [k \in 1 .. n |-> f[k]]
  BY <1>1
<1> QED BY <1>4, <1>7, <1>8

-----------------------------------------------------------------------------
\* The positions of a list, the earlier before the later.
LEMMA EarlierLines ==
    ASSUME NEW S \in SUBSET Nat
    PROVE  Lines(S, Earlier(S))
<1>1. \A i, j \in S : <<i, j>> \in Earlier(S) <=> i < j
  BY DEF Earlier
<1> QED BY <1>1 DEF Lines

\* The elements of s at the places f goes through.
Through(s, f, n) == [k \in 1 .. n |-> s[f[k]]]

\* f goes through these positions upwards.
Climbs(f, n, keep) ==
    /\ f \in [1 .. n -> keep]
    /\ \A k, m \in 1 .. n : k < m => f[k] < f[m]
    /\ \A i \in keep : \E k \in 1 .. n : f[k] = i

\* The elements at some positions, in their order: what a function that goes
\* through these positions upwards leads to.
LEMMA PickedOnly ==
    ASSUME NEW s, NEW keep \in SUBSET Nat, NEW n \in Nat, NEW f, Climbs(f, n, keep)
    PROVE  Cardinality(keep) = n /\ Picked(s, keep) = Through(s, f, n)
<1> USE DEF Climbs
<1>1. Lines(keep, Earlier(keep))
  BY EarlierLines
<1>2. ASSUME NEW k \in 1 .. n, NEW m \in 1 .. n, k < m
      PROVE  <<f[k], f[m]>> \in Earlier(keep)
  BY <1>2 DEF Earlier
<1>3. Lists(f, n, keep, Earlier(keep))
  BY <1>2 DEF Lists
<1>4. Cardinality(keep) = n /\ Ranked(keep, Earlier(keep)) = f
  BY <1>1, <1>3, RankedOnly
<1>5. DOMAIN f = 1 .. n
  OBVIOUS
<1> QED BY <1>4, <1>5 DEF Picked, Through

\* There is such a function, for the positions of a list.
LEMMA PickedIs ==
    ASSUME NEW V, NEW s \in Seq(V), NEW keep \in SUBSET (DOMAIN s)
    PROVE  \E f :
              /\ Cardinality(keep) \in 0 .. Len(s)
              /\ Climbs(f, Cardinality(keep), keep)
              /\ Picked(s, keep) = Through(s, f, Cardinality(keep))
              /\ Picked(s, keep) \in Seq(V) /\ Len(Picked(s, keep)) = Cardinality(keep)
<1> DEFINE f == Ranked(keep, Earlier(keep))
           n == Cardinality(keep)
<1>1. Len(s) \in Nat /\ DOMAIN s = 1 .. Len(s) /\ \A i \in 1 .. Len(s) : s[i] \in V
  BY LenProperties
<1>2. IsFiniteSet(keep) /\ n \in 0 .. Len(s)
  <2>1. IsFiniteSet(1 .. Len(s)) /\ Cardinality(1 .. Len(s)) = Len(s)
    BY <1>1, FS_Interval
  <2>2. IsFiniteSet(keep) /\ n <= Len(s) /\ n \in Nat
    BY <1>1, <2>1, FS_Subset, FS_CardinalityType
  <2> QED BY <1>1, <2>2
<1>3. keep \in SUBSET Nat
  BY <1>1
<1>4. Lists(f, n, keep, Earlier(keep))
  BY <1>2, <1>3, EarlierLines, RankedIs
<1>5. f \in [1 .. n -> keep] /\ DOMAIN f = 1 .. n
  BY <1>4 DEF Lists
<1>6. \A k, m \in 1 .. n : k < m => f[k] < f[m]
  <2>1. \A i, j \in keep : <<i, j>> \in Earlier(keep) => i < j
    BY DEF Earlier
  <2> HIDE DEF f, n
  <2> QED BY <1>4, <1>5, <2>1 DEF Lists
<1>7. \A i \in keep : \E k \in 1 .. n : f[k] = i
  BY <1>4 DEF Lists
<1>8. Picked(s, keep) = Through(s, f, n)
  BY <1>5 DEF Picked, Through
<1>9. Picked(s, keep) \in Seq(V) /\ Len(Picked(s, keep)) = n
  <2>1. \A k \in 1 .. n : s[f[k]] \in V
    <3> HIDE DEF f, n
    <3> QED BY <1>1, <1>5
  <2> HIDE DEF f
  <2>2. Through(s, f, n) \in Seq(V)
    BY <1>2, <2>1, IsASeq DEF Through
  <2> HIDE DEF n
  <2>3. n \in Nat
    BY <1>1, <1>2
  <2> QED BY <1>8, <2>2, <2>3 DEF Through
<1> HIDE DEF f
<1> QED BY <1>2, <1>5, <1>6, <1>7, <1>8, <1>9 DEF Climbs

-----------------------------------------------------------------------------
\* t has elements of s, each from a position of its own.
From(t, s) ==
    \E f \in [DOMAIN t -> DOMAIN s] :
       /\ \A k, m \in DOMAIN t : k # m => f[k] # f[m]
       /\ \A k \in DOMAIN t : t[k] = s[f[k]]

\* The elements at some positions come from the list.
LEMMA PickedFrom ==
    ASSUME NEW V, NEW s \in Seq(V), NEW keep \in SUBSET (DOMAIN s)
    PROVE  From(Picked(s, keep), s) /\ Picked(s, keep) \in Seq(V)
<1> DEFINE n == Cardinality(keep)
           t == Picked(s, keep)
<1>1. PICK f :
         /\ n \in 0 .. Len(s)
         /\ Climbs(f, n, keep)
         /\ t = Through(s, f, n)
         /\ t \in Seq(V) /\ Len(t) = n
  BY PickedIs
<1>1a. /\ f \in [1 .. n -> keep]
       /\ \A k, j \in 1 .. n : k < j => f[k] < f[j]
       /\ \A i \in keep : \E k \in 1 .. n : f[k] = i
  BY <1>1 DEF Climbs
<1>2. DOMAIN t = 1 .. n /\ DOMAIN s = 1 .. Len(s) /\ Len(s) \in Nat
  BY <1>1, <1>1a, LenProperties
<1>3. f \in [DOMAIN t -> DOMAIN s]
  BY <1>1, <1>1a, <1>2
<1>4. ASSUME NEW k \in DOMAIN t, NEW m \in DOMAIN t, k # m PROVE f[k] # f[m]
  <2>1. k < m \/ m < k
    BY <1>1, <1>1a, <1>2, <1>4
  <2>2. f[k] < f[m] \/ f[m] < f[k]
    BY <1>1, <1>1a, <1>2, <2>1
  <2>3. f[k] \in Nat /\ f[m] \in Nat
    BY <1>2, <1>3
  <2> QED BY <2>2, <2>3
<1>5. \A k \in DOMAIN t : t[k] = s[f[k]]
  BY <1>1, <1>2 DEF Through
<1> HIDE DEF t
<1>6. From(t, s)
  BY <1>3, <1>4, <1>5 DEF From
<1> QED BY <1>1, <1>1a, <1>6 DEF t

\* What comes from a list that comes from another comes from that one.
LEMMA FromFrom ==
    ASSUME NEW s, NEW t, NEW u, From(u, t), From(t, s)
    PROVE  From(u, s)
<1>1. PICK f \in [DOMAIN t -> DOMAIN s] :
         /\ \A k, m \in DOMAIN t : k # m => f[k] # f[m]
         /\ \A k \in DOMAIN t : t[k] = s[f[k]]
  BY DEF From
<1>2. PICK g \in [DOMAIN u -> DOMAIN t] :
         /\ \A k, m \in DOMAIN u : k # m => g[k] # g[m]
         /\ \A k \in DOMAIN u : u[k] = t[g[k]]
  BY DEF From
<1> DEFINE h == [k \in DOMAIN u |-> f[g[k]]]
<1>3. h \in [DOMAIN u -> DOMAIN s]
  BY <1>1, <1>2
<1>4. \A k, m \in DOMAIN u : k # m => h[k] # h[m]
  BY <1>1, <1>2
<1>5. \A k \in DOMAIN u : u[k] = s[h[k]]
  BY <1>1, <1>2
<1> QED BY <1>3, <1>4, <1>5 DEF From

\* All positions of a list give the list.
LEMMA PickedWhole ==
    ASSUME NEW V, NEW s \in Seq(V)
    PROVE  Picked(s, DOMAIN s) = s
<1>1. Len(s) \in Nat /\ DOMAIN s = 1 .. Len(s) /\ s \in [1 .. Len(s) -> V]
  BY LenProperties
<1> DEFINE f == [k \in 1 .. Len(s) |-> k]
<1>2. Picked(s, DOMAIN s) = Through(s, f, Len(s))
  <2>1. f \in [1 .. Len(s) -> DOMAIN s] /\ DOMAIN s \in SUBSET Nat
    BY <1>1
  <2>2. \A k, m \in 1 .. Len(s) : k < m => f[k] < f[m]
    OBVIOUS
  <2>3. \A i \in DOMAIN s : \E k \in 1 .. Len(s) : f[k] = i
    BY <1>1
  <2> HIDE DEF f
  <2>4. Climbs(f, Len(s), DOMAIN s)
    BY <2>1, <2>2, <2>3 DEF Climbs
  <2> QED BY <1>1, <2>1, <2>4, PickedOnly
<1> QED BY <1>1, <1>2 DEF Through

\* As many elements as the list has are the list.
LEMMA PickedAsMany ==
    ASSUME NEW V, NEW s \in Seq(V), NEW keep \in SUBSET (DOMAIN s),
           ~(Len(Picked(s, keep)) < Len(s))
    PROVE  Picked(s, keep) = s
<1>1. Len(s) \in Nat /\ DOMAIN s = 1 .. Len(s)
  BY LenProperties
<1>2. Len(Picked(s, keep)) = Cardinality(keep) /\ Cardinality(keep) \in 0 .. Len(s)
  BY PickedIs
<1>3. IsFiniteSet(1 .. Len(s)) /\ Cardinality(1 .. Len(s)) = Len(s)
  BY <1>1, Counting
<1>4. keep = DOMAIN s
  BY <1>1, <1>2, <1>3, FS_Subset
<1> QED BY <1>4, PickedWhole

\* The positions among some that hold a member of X.
Among(s, keep, X) == {i \in keep : s[i] \in X}

\* Picking by value from what was picked is picking by both.
LEMMA PickedPicked ==
    ASSUME NEW V, NEW s \in Seq(V), NEW keep \in SUBSET (DOMAIN s), NEW X
    PROVE  LET t == Picked(s, keep)
           IN  Picked(t, Among(t, DOMAIN t, X)) = Picked(s, Among(s, keep, X))
<1> DEFINE n == Cardinality(keep)
           t == Picked(s, keep)
           K == {k \in DOMAIN t : t[k] \in X}
           both == {i \in keep : s[i] \in X}
           m == Cardinality(K)
<1>1. PICK f :
         /\ n \in 0 .. Len(s)
         /\ Climbs(f, n, keep)
         /\ t = Through(s, f, n)
         /\ t \in Seq(V) /\ Len(t) = n
  BY PickedIs
<1>1a. /\ f \in [1 .. n -> keep]
       /\ \A k, j \in 1 .. n : k < j => f[k] < f[j]
       /\ \A i \in keep : \E k \in 1 .. n : f[k] = i
  BY <1>1 DEF Climbs
<1>2. DOMAIN t = 1 .. n /\ Len(s) \in Nat /\ DOMAIN s = 1 .. Len(s)
  BY <1>1, <1>1a, LenProperties
<1>3. \A k \in 1 .. n : t[k] = s[f[k]]
  BY <1>1 DEF Through
<1> HIDE DEF t
<1>4. PICK g :
         /\ m \in 0 .. Len(t)
         /\ Climbs(g, m, K)
         /\ Picked(t, K) = Through(t, g, m)
  <2>1. K \in SUBSET (DOMAIN t) /\ t \in Seq(V)
    BY <1>1
  <2> HIDE DEF K
  <2> QED BY <2>1, PickedIs
<1>4a. /\ g \in [1 .. m -> K]
       /\ \A k, j \in 1 .. m : k < j => g[k] < g[j]
       /\ \A i \in K : \E k \in 1 .. m : g[k] = i
  BY <1>4 DEF Climbs
<1> DEFINE h == [k \in 1 .. m |-> f[g[k]]]
<1>5. \A k \in 1 .. m : g[k] \in 1 .. n /\ s[f[g[k]]] \in X
  <2>1. \A k \in K : k \in 1 .. n /\ s[f[k]] \in X
    BY <1>2, <1>3
  <2> HIDE DEF K, m
  <2> QED BY <1>4, <1>4a, <2>1
<1>6. h \in [1 .. m -> both]
  <2>1. \A k \in 1 .. m : f[g[k]] \in both
    BY <1>1a, <1>5
  <2> HIDE DEF both, m
  <2> QED BY <2>1
<1>7. \A k, j \in 1 .. m : k < j => h[k] < h[j]
  <2> SUFFICES ASSUME NEW k \in 1 .. m, NEW j \in 1 .. m, k < j PROVE f[g[k]] < f[g[j]]
    OBVIOUS
  <2>1. g[k] < g[j] /\ g[k] \in 1 .. n /\ g[j] \in 1 .. n
    BY <1>4, <1>4a, <1>5
  <2> HIDE DEF m, n
  <2> QED BY <1>1, <1>1a, <2>1
<1>8. ASSUME NEW i \in both PROVE \E k \in 1 .. m : h[k] = i
  <2>1. PICK k \in 1 .. n : f[k] = i
    BY <1>1, <1>1a
  <2>2. k \in K
    BY <1>2, <1>3, <2>1
  <2>3. PICK j \in 1 .. m : g[j] = k
    BY <1>4, <1>4a, <2>2
  <2> QED BY <2>1, <2>3
<1>9. both \in SUBSET Nat /\ m \in Nat
  BY <1>1, <1>1a, <1>2, <1>4, <1>4a
<1>10. Picked(s, both) = Through(s, h, m)
  <2>1. Climbs(h, m, both)
    <3> HIDE DEF both, m, h
    <3> QED BY <1>6, <1>7, <1>8 DEF Climbs
  <2> HIDE DEF both, m, h
  <2> QED BY <1>9, <2>1, PickedOnly
<1>11. Through(t, g, m) = Through(s, h, m)
  <2>1. \A k \in 1 .. m : t[g[k]] = s[f[g[k]]]
    BY <1>3, <1>5
  <2> HIDE DEF K, m
  <2> QED BY <2>1 DEF Through
<1>12. Picked(t, K) = Picked(s, both)
  BY <1>4, <1>10, <1>11
<1> QED BY <1>12 DEF t, Among

\* Picking from a list with one more element.
LEMMA PickedAppend ==
    ASSUME NEW V, NEW s \in Seq(V), NEW v \in V, NEW keep \in SUBSET (DOMAIN s)
    PROVE  /\ Picked(Append(s, v), keep) = Picked(s, keep)
           /\ Picked(Append(s, v), keep \cup {Len(s) + 1}) = Append(Picked(s, keep), v)
<1> DEFINE n == Cardinality(keep)
           t == Picked(s, keep)
           u == Append(s, v)
           more == keep \cup {Len(s) + 1}
<1>1. PICK f :
         /\ n \in 0 .. Len(s)
         /\ Climbs(f, n, keep)
         /\ t = Through(s, f, n)
         /\ t \in Seq(V) /\ Len(t) = n
  BY PickedIs
<1>1a. /\ f \in [1 .. n -> keep]
       /\ \A k, j \in 1 .. n : k < j => f[k] < f[j]
       /\ \A i \in keep : \E k \in 1 .. n : f[k] = i
  BY <1>1 DEF Climbs
<1>2. Len(s) \in Nat /\ DOMAIN s = 1 .. Len(s)
  BY LenProperties
<1>3. /\ u \in Seq(V) /\ Len(u) = Len(s) + 1 /\ u[Len(s) + 1] = v
      /\ \A i \in 1 .. Len(s) : u[i] = s[i]
  BY <1>2, AppendProperties
<1>4. keep \in SUBSET Nat /\ n \in Nat
  BY <1>1, <1>1a, <1>2
<1>5. Picked(u, keep) = t
  <2>1. Picked(u, keep) = Through(u, f, n)
    <3> HIDE DEF u, n
    <3> QED BY <1>1, <1>1a, <1>4, PickedOnly
  <2>2. \A k \in 1 .. n : u[f[k]] = s[f[k]]
    <3> HIDE DEF u, n
    <3> QED BY <1>1a, <1>2, <1>3
  <2> HIDE DEF u, n
  <2> QED BY <1>1, <2>1, <2>2 DEF Through
<1>6. Picked(u, more) = Append(t, v)
  <2> DEFINE g == [k \in 1 .. n + 1 |-> IF k = n + 1 THEN Len(s) + 1 ELSE f[k]]
  <2>1. \A k \in 1 .. n + 1 : k # n + 1 => k \in 1 .. n
    BY <1>4
  <2>2. g \in [1 .. n + 1 -> more] /\ more \in SUBSET Nat
    <3>1. \A k \in 1 .. n + 1 : g[k] \in more
      BY <1>1a, <2>1
    <3> QED BY <1>2, <1>4, <3>1
  <2>3. ASSUME NEW k \in 1 .. n + 1, NEW j \in 1 .. n + 1, k < j PROVE g[k] < g[j]
    <3>1. k \in 1 .. n
      BY <1>4, <2>3
    <3>2. f[k] \in 1 .. Len(s) /\ g[k] = f[k]
      BY <1>1a, <1>2, <1>4, <3>1
    <3>3. CASE j = n + 1
      BY <1>2, <3>2, <3>3
    <3>4. CASE j # n + 1
      BY <1>1, <1>1a, <2>1, <2>3, <3>1, <3>2, <3>4
    <3> QED BY <3>3, <3>4
  <2>4. ASSUME NEW i \in more PROVE \E k \in 1 .. n + 1 : g[k] = i
    <3>1. CASE i \in keep
      <4>1. PICK k \in 1 .. n : f[k] = i
        BY <1>1, <1>1a, <3>1
      <4>2. k \in 1 .. n + 1 /\ k # n + 1
        BY <1>4
      <4> QED BY <4>1, <4>2
    <3>2. CASE i = Len(s) + 1
      <4>1. n + 1 \in 1 .. n + 1
        BY <1>4
      <4> QED BY <3>2, <4>1
    <3> QED BY <3>1, <3>2
  <2>5. Picked(u, more) = Through(u, g, n + 1)
    <3>1. n + 1 \in Nat
      BY <1>4
    <3>2. Climbs(g, n + 1, more)
      <4> HIDE DEF n, g, more
      <4> QED BY <2>2, <2>3, <2>4 DEF Climbs
    <3> HIDE DEF u, n, g, more
    <3> QED BY <2>2, <3>1, <3>2, PickedOnly
  <2>6. Append(t, v) \in Seq(V) /\ Len(Append(t, v)) = n + 1
        /\ \A k \in 1 .. n + 1 : Append(t, v)[k] = IF k = n + 1 THEN v ELSE t[k]
    <3> HIDE DEF t, n
    <3>1. \A k \in 1 .. n + 1 : k # n + 1 => k \in 1 .. n
      BY <1>4
    <3> QED BY <1>1, <1>1a, <3>1, AppendProperties
  <2>7. \A k \in 1 .. n + 1 : u[g[k]] = Append(t, v)[k]
    <3> SUFFICES ASSUME NEW k \in 1 .. n + 1 PROVE u[g[k]] = Append(t, v)[k]
      OBVIOUS
    <3>1. CASE k = n + 1
      <4>1. g[k] = Len(s) + 1
        BY <3>1
      <4> HIDE DEF u, g, t, n
      <4> QED BY <1>3, <2>6, <3>1, <4>1
    <3>2. CASE k # n + 1
      <4>1. k \in 1 .. n /\ g[k] = f[k] /\ f[k] \in 1 .. Len(s)
        BY <1>1a, <1>2, <2>1, <3>2
      <4>2. t[k] = s[f[k]]
        BY <1>1, <4>1 DEF Through
      <4> HIDE DEF u, g, t, n
      <4> QED BY <1>3, <2>6, <3>2, <4>1, <4>2
    <3> QED BY <3>1, <3>2
  <2>8. Append(t, v) = [k \in 1 .. n + 1 |-> Append(t, v)[k]]
    <3> HIDE DEF t, n
    <3>1. DOMAIN Append(t, v) = 1 .. n + 1
      BY <2>6, LenProperties
    <3>2. Append(t, v) \in [1 .. n + 1 -> V]
      BY <2>6, LenProperties
    <3> QED BY <3>2
  <2> HIDE DEF u, g, t, n, more
  <2> QED BY <2>5, <2>7, <2>8 DEF Through
<1> QED BY <1>5, <1>6

-----------------------------------------------------------------------------
\* A relation a stable sort can go by: two positions that are not below each
\* other are below the same ones.
Weak(S, below) ==
    /\ \A i, j \in S : <<i, j>> \in below => <<j, i>> \notin below
    /\ \A i, j, k \in S : <<i, k>> \in below => <<i, j>> \in below \/ <<j, k>> \in below

\* A stable sort puts the positions in one order.
LEMMA StablyLines ==
    ASSUME NEW S \in SUBSET Nat, NEW below, Weak(S, below)
    PROVE  Lines(S, Stably(S, below))
<1> DEFINE R == Stably(S, below)
<1>1. \A i, j \in S : <<i, j>> \in R <=> <<i, j>> \in below \/ (<<j, i>> \notin below /\ i < j)
  BY DEF Stably
<1> HIDE DEF R
<1>2. \A i \in S : <<i, i>> \notin R
  BY <1>1 DEF Weak
<1>3. \A i, j \in S : i # j => <<i, j>> \in R \/ <<j, i>> \in R
  BY <1>1
<1>4. ASSUME NEW i \in S, NEW j \in S, NEW k \in S, <<i, j>> \in R, <<j, k>> \in R
      PROVE  <<i, k>> \in R
  <2>1. <<k, j>> \notin below /\ <<j, i>> \notin below
    BY <1>1, <1>4 DEF Weak
  <2>2. <<k, i>> \notin below
    BY <2>1 DEF Weak
  <2>3. <<i, j>> \in below => <<i, k>> \in below
    BY <2>1 DEF Weak
  <2>4. <<j, k>> \in below => <<i, k>> \in below
    BY <2>1 DEF Weak
  <2>5. <<i, j>> \in below \/ <<j, k>> \in below \/ (i < j /\ j < k)
    BY <1>1, <1>4
  <2>6. (i < j /\ j < k) => i < k
    OBVIOUS
  <2> QED BY <1>1, <2>2, <2>3, <2>4, <2>5, <2>6
<1> QED BY <1>2, <1>3, <1>4 DEF Lines, R

\* Sorting lists the same elements, none below the one before it.
LEMMA SortedIs ==
    ASSUME NEW V, NEW s \in Seq(V), NEW below, Weak(DOMAIN s, below)
    PROVE  LET at == Ranked(DOMAIN s, Stably(DOMAIN s, below))
           IN  /\ Lines(DOMAIN s, Stably(DOMAIN s, below))
               /\ Lists(at, Len(s), DOMAIN s, Stably(DOMAIN s, below))
               /\ SortedBy(s, below) = Through(s, at, Len(s))
               /\ SortedBy(s, below) \in Seq(V) /\ Len(SortedBy(s, below)) = Len(s)
               /\ ToSet(SortedBy(s, below)) = ToSet(s)
               /\ From(SortedBy(s, below), s)
<1> DEFINE R == Stably(DOMAIN s, below)
           at == Ranked(DOMAIN s, R)
           t == SortedBy(s, below)
<1>1. Len(s) \in Nat /\ DOMAIN s = 1 .. Len(s) /\ \A i \in 1 .. Len(s) : s[i] \in V
  BY LenProperties
<1>2. Lines(DOMAIN s, R)
  <2>1. DOMAIN s \in SUBSET Nat
    BY <1>1
  <2> QED BY <2>1, StablyLines
<1>3. IsFiniteSet(DOMAIN s) /\ Cardinality(DOMAIN s) = Len(s)
  BY <1>1, Counting
<1>4. Lists(at, Len(s), DOMAIN s, R)
  <2> HIDE DEF R
  <2> QED BY <1>2, <1>3, RankedIs
<1> HIDE DEF R
<1>5. at \in [1 .. Len(s) -> 1 .. Len(s)] /\ DOMAIN at = 1 .. Len(s)
  BY <1>1, <1>4 DEF Lists
<1>6. t = Through(s, at, Len(s))
  BY <1>5 DEF SortedBy, Through, R
<1> HIDE DEF at
<1>7. t \in Seq(V) /\ Len(t) = Len(s)
  <2>1. \A k \in 1 .. Len(s) : s[at[k]] \in V
    BY <1>1, <1>5
  <2>2. Through(s, at, Len(s)) \in Seq(V)
    BY <1>1, <2>1, IsASeq DEF Through
  <2> HIDE DEF t
  <2> QED BY <1>1, <1>6, <2>2 DEF Through
<1>8. DOMAIN t = 1 .. Len(s) /\ \A k \in 1 .. Len(s) : t[k] = s[at[k]]
  <2> HIDE DEF t
  <2> QED BY <1>6 DEF Through
<1>9. ToSet(t) = ToSet(s)
  <2>1. \A k \in 1 .. Len(s) : \E i \in 1 .. Len(s) : t[k] = s[i]
    BY <1>5, <1>8
  <2>2. ASSUME NEW i \in 1 .. Len(s) PROVE \E k \in 1 .. Len(s) : t[k] = s[i]
    <3>1. PICK k \in 1 .. Len(s) : at[k] = i
      BY <1>1, <1>4 DEF Lists
    <3> QED BY <1>8, <3>1
  <2> HIDE DEF t
  <2>3. \A x : x \in ToSet(t) <=> \E k \in 1 .. Len(s) : t[k] = x
    BY <1>8 DEF ToSet
  <2>4. \A x : x \in ToSet(s) <=> \E i \in 1 .. Len(s) : s[i] = x
    BY <1>1 DEF ToSet
  <2>5. ASSUME NEW x PROVE x \in ToSet(t) <=> x \in ToSet(s)
    BY <2>1, <2>2, <2>3, <2>4
  <2> QED BY <2>5
<1>10. ASSUME NEW k \in DOMAIN t, NEW m \in DOMAIN t, k # m PROVE at[k] # at[m]
  <2>1. k \in 1 .. Len(s) /\ m \in 1 .. Len(s)
    BY <1>8
  <2>2. k < m \/ m < k
    BY <1>10, <2>1
  <2>3. <<at[k], at[m]>> \in R \/ <<at[m], at[k]>> \in R
    BY <1>4, <2>1, <2>2 DEF Lists
  <2> QED BY <1>1, <1>2, <1>5, <2>1, <2>3 DEF Lines
<1>11. From(t, s)
  <2>1. at \in [DOMAIN t -> DOMAIN s]
    BY <1>1, <1>5, <1>8
  <2> HIDE DEF t
  <2> QED BY <1>8, <1>10, <2>1 DEF From
<1> HIDE DEF t
<1> QED BY <1>2, <1>4, <1>6, <1>7, <1>9, <1>11 DEF at, R, t

-----------------------------------------------------------------------------
\* Looking among the candidates of the index finds what a scan finds.
LEMMA IndexFinds ==
    ASSUME NEW eq \in SetEqs, NEW items \in Seq(SetValues), NEW v \in SetValues
    PROVE  Has(items, eq, v) <=> \E i \in DOMAIN items : EqualUnder(eq, items[i], v)
<1> DEFINE key(i) == KeyUnder(eq, items[i])
           index == BuildIndex(items, eq)
<1>1. \A i \in DOMAIN items : items[i] \in SetValues
  BY LenProperties
<1>2. \A i \in DOMAIN items : EqualUnder(eq, items[i], v) =>
         key(i) = KeyUnder(eq, v) \/ Keyless \in {key(i), KeyUnder(eq, v)}
  BY <1>1, EqualityAssumption
<1>3. CASE Keyless \in {key(i) : i \in DOMAIN items}
  <2>1. index.on = FALSE
    BY <1>3 DEF BuildIndex, IndexOff, Index
  <2> QED BY <2>1 DEF Has, IndexMember, Candidates
<1>4. CASE Keyless \notin {key(i) : i \in DOMAIN items}
  <2>1. /\ index.on = TRUE
        /\ index.at = [k \in {key(i) : i \in DOMAIN items} |-> {i \in DOMAIN items : key(i) = k}]
    BY <1>4 DEF BuildIndex, Index
  <2> HIDE DEF index
  <2>2. \A i \in DOMAIN items : key(i) # Keyless
    BY <1>4
  <2>3. CASE KeyUnder(eq, v) = Keyless
    BY <2>3 DEF Has, IndexMember, Candidates, index
  <2>4. CASE KeyUnder(eq, v) # Keyless
    <3>1. Candidates(index, items, eq, v) = {i \in DOMAIN items : key(i) = KeyUnder(eq, v)}
      BY <2>1, <2>4 DEF Candidates
    <3>2. \A i \in DOMAIN items : EqualUnder(eq, items[i], v) => key(i) = KeyUnder(eq, v)
      BY <1>2, <2>2, <2>4
    <3>3. Has(items, eq, v) <=> \E i \in {j \in DOMAIN items : key(j) = KeyUnder(eq, v)} : EqualUnder(eq, items[i], v)
      BY <3>1 DEF Has, IndexMember, index
    <3> QED BY <3>2, <3>3
  <2> QED BY <2>3, <2>4
<1> QED BY <1>3, <1>4

\* Recording what is appended is building the index anew.
LEMMA RecordedIs ==
    ASSUME NEW eq, NEW items \in Seq(SetValues), NEW v \in SetValues
    PROVE  Recorded(BuildIndex(items, eq), KeyUnder(eq, v), Len(items) + 1) = BuildIndex(Append(items, v), eq)
<1> DEFINE n == Len(items)
           more == Append(items, v)
           key == KeyUnder(eq, v)
           keys == {KeyUnder(eq, items[i]) : i \in DOMAIN items}
           moreKeys == {KeyUnder(eq, more[i]) : i \in DOMAIN more}
<1>1. n \in Nat /\ DOMAIN items = 1 .. n
  BY LenProperties
<1>2. /\ DOMAIN more = 1 .. n + 1 /\ more[n + 1] = v
      /\ \A i \in 1 .. n : more[i] = items[i]
  <2>1. more \in Seq(SetValues) /\ Len(more) = n + 1
    BY AppendProperties
  <2> QED BY <1>1, <2>1, LenProperties, AppendProperties
<1>3. 1 .. n + 1 = (1 .. n) \cup {n + 1} /\ n + 1 \notin 1 .. n
  BY <1>1
<1> HIDE DEF more, n
<1>4. moreKeys = keys \cup {key}
  BY <1>1, <1>2, <1>3
<1>5. CASE Keyless \in keys \/ key = Keyless
  <2>1. Keyless \in moreKeys
    BY <1>4, <1>5
  <2>2. Keyless \in keys => ~BuildIndex(items, eq).on
    BY DEF BuildIndex, IndexOff, Index
  <2> QED BY <1>5, <2>1, <2>2 DEF Recorded, BuildIndex, more
<1>6. CASE Keyless \notin keys /\ key # Keyless
  <2> DEFINE at == [k \in keys |-> {i \in DOMAIN items : KeyUnder(eq, items[i]) = k}]
             moreAt == [k \in moreKeys |-> {i \in DOMAIN more : KeyUnder(eq, more[i]) = k}]
             recorded == [k \in keys \cup {key} |-> {i \in {n + 1} : k = key} \cup UNION {at[j] : j \in keys \cap {k}}]
  <2>1. BuildIndex(items, eq) = [on |-> TRUE, at |-> at]
    BY <1>6 DEF BuildIndex, Index
  <2>2. BuildIndex(more, eq) = [on |-> TRUE, at |-> moreAt]
    BY <1>4, <1>6 DEF BuildIndex, Index
  <2>3. Recorded(BuildIndex(items, eq), key, n + 1) = [on |-> TRUE, at |-> recorded]
    BY <1>6, <2>1 DEF Recorded, Index
  <2>4. ASSUME NEW k \in moreKeys PROVE recorded[k] = moreAt[k]
    <3>1. recorded[k] = {i \in {n + 1} : k = key} \cup UNION {at[j] : j \in keys \cap {k}}
      BY <1>4
    <3>2. UNION {at[j] : j \in keys \cap {k}} = {i \in 1 .. n : KeyUnder(eq, items[i]) = k}
      <4>1. \A i \in 1 .. n : KeyUnder(eq, items[i]) = k => k \in keys
        BY <1>1
      <4>2. k \in keys => at[k] = {i \in 1 .. n : KeyUnder(eq, items[i]) = k}
        BY <1>1
      <4> HIDE DEF at, keys
      <4> QED BY <4>1, <4>2
    <3>3. moreAt[k] = {i \in 1 .. n + 1 : KeyUnder(eq, more[i]) = k}
      BY <1>2
    <3> HIDE DEF recorded, moreAt, at
    <3> QED BY <1>2, <1>3, <3>1, <3>2, <3>3
  <2>5. recorded = moreAt
    <3> HIDE DEF keys, at
    <3> QED BY <1>4, <2>4
  <2> HIDE DEF recorded, moreAt
  <2> QED BY <2>2, <2>3, <2>5 DEF more, n
<1> QED BY <1>5, <1>6 DEF more, n

-----------------------------------------------------------------------------
Sizes == Nat \ {0}

\* A capacity doubles until it is not small, and ends there.
LEMMA DoublingIs ==
    ASSUME NEW N \in Nat, NEW small \in SUBSET (0 .. N)
    PROVE  /\ \A c \in Sizes : Doubling(small)[c] = IF c \in small THEN Doubling(small)[2 * c] ELSE c
           /\ \A c \in Sizes : Doubling(small)[c] \in Sizes \ small
<1> DEFINE S == Sizes
           rank == [c \in S |-> IF c \in small THEN N + 1 - c ELSE 0]
           next == [c \in S |-> IF c \in small THEN 2 * c ELSE c]
           base == [c \in S |-> c]
           step == [c \in S |-> [v \in S |-> v]]
           from == CHOOSE f : f = [c \in S |-> IF c \in small THEN f[2 * c] ELSE c]
<1>1. \A c \in S : 2 * c \in S /\ 2 * c # c /\ (c \in small => c \in 1 .. N)
  BY DEF Sizes
<1>2. base \in [S -> S] /\ step \in [S -> [S -> S]] /\ next \in [S -> S]
  BY <1>1
<1>3. Leads(S, N + 1, rank, next)
  <2>1. \A c \in S : rank[c] \in 0 .. N + 1
    BY <1>1
  <2>2. \A c \in S : next[c] = c \/ rank[next[c]] < rank[c]
    <3> SUFFICES ASSUME NEW c \in S, c \in small PROVE rank[2 * c] < rank[c]
      BY <1>1
    <3>1. c \in 1 .. N /\ 2 * c \in S
      BY <1>1
    <3> QED BY <3>1
  <2>3. rank \in [S -> 0 .. N + 1]
    BY <2>1
  <2> HIDE DEF rank, next
  <2> QED BY <1>2, <2>2, <2>3 DEF Leads
<1>4. PICK f \in [S -> S] : Recursive(f, S, next, base, step)
  <2> HIDE DEF S, rank, next, base, step
  <2> QED BY <1>2, <1>3, RecursionAlong, Zenon
<1>5. ASSUME NEW c \in S PROVE f[c] = IF c \in small THEN f[2 * c] ELSE c
  <2>1. f[c] = IF next[c] = c THEN base[c] ELSE step[c][f[next[c]]]
    BY <1>4 DEF Recursive
  <2> QED BY <1>1, <2>1
<1>6. f = [c \in S |-> IF c \in small THEN f[2 * c] ELSE c]
  <2> HIDE DEF S
  <2> QED BY <1>5
<1>7. from = [c \in S |-> IF c \in small THEN from[2 * c] ELSE c]
  <2> HIDE DEF S
  <2> QED BY <1>6, Zenon
<1>8. Doubling(small) = from
  BY DEF Doubling, Sizes
<1> HIDE DEF from
<1>9. \A c \in S : from[c] = IF c \in small THEN from[2 * c] ELSE c
  BY <1>7
<1>10. \A c \in S : from[c] \in S \ small
  <2> DEFINE T == {c \in S : from[c] \notin S \ small}
  <2> SUFFICES ASSUME T # {} PROVE FALSE
    OBVIOUS
  <2>1. \E x \in T : next[x] = x \/ next[x] \notin T
    <3>1. rank \in [S -> Nat] /\ \A x \in S : next[x] = x \/ rank[next[x]] < rank[x]
      <4> HIDE DEF rank, next
      <4> QED BY <1>3 DEF Leads
    <3>2. T \in SUBSET S
      OBVIOUS
    <3> HIDE DEF rank, next, T, S
    <3> QED BY <1>2, <3>1, <3>2, LeadsOut
  <2>2. PICK x \in T : next[x] = x \/ next[x] \notin T
    BY <2>1
  <2>3. x \in S /\ 2 * x \in S /\ 2 * x # x /\ from[x] = IF x \in small THEN from[2 * x] ELSE x
    BY <1>1, <1>9
  <2>4. x \in small
    <3> HIDE DEF S
    <3> QED BY <2>3
  <2>5. 2 * x \notin T
    BY <2>2, <2>3, <2>4
  <2> HIDE DEF S
  <2> QED BY <2>3, <2>4, <2>5
<1> QED BY <1>8, <1>9, <1>10

\* The capacities too small for n elements.
SmallFor(n) == {c \in Nat : Full(n, c)}

\* A table's capacity, and the doubling of it.
LEMMA DoubledIs ==
    ASSUME NEW n \in Nat
    PROVE  /\ TableSizeFor(n) \in Sizes
           /\ \A c \in Sizes : Doubled(n, c) = IF Full(n, c) THEN Doubled(n, 2 * c) ELSE c
           /\ \A c \in Sizes : Doubled(n, c) \in Sizes /\ ~Full(n, Doubled(n, c))
<1>1. TableSizeFor(n) \in Sizes
  <2> DEFINE small == {c \in Nat : c < n}
  <2>1. small \in SUBSET (0 .. n) /\ 1 \in Sizes
    BY DEF Sizes
  <2> HIDE DEF small
  <2>2. Doubling(small)[1] \in Sizes
    BY <2>1, DoublingIs
  <2> QED BY <2>2 DEF TableSizeFor, small
<1> DEFINE small == SmallFor(n)
<1>2. small \in SUBSET (0 .. 2 * n) /\ 2 * n \in Nat
  BY DEF SmallFor, Full
<1>3. \A c \in Sizes : Full(n, c) <=> c \in small
  BY DEF SmallFor, Sizes
<1>4. \A c : Doubled(n, c) = Doubling(small)[c]
  BY DEF Doubled, SmallFor
<1> HIDE DEF small
<1>5. /\ \A c \in Sizes : Doubling(small)[c] = IF c \in small THEN Doubling(small)[2 * c] ELSE c
      /\ \A c \in Sizes : Doubling(small)[c] \in Sizes \ small
  BY <1>2, DoublingIs
<1> QED BY <1>1, <1>3, <1>4, <1>5

\* One element more doubles the capacity once, if it is full then.
LEMMA DoubledNext ==
    ASSUME NEW n \in Nat, NEW c \in Sizes
    PROVE  Doubled(n + 1, c) = IF Full(n + 1, Doubled(n, c)) THEN 2 * Doubled(n, c) ELSE Doubled(n, c)
<1> DEFINE Right(x) == Doubled(n + 1, x) = IF Full(n + 1, Doubled(n, x)) THEN 2 * Doubled(n, x) ELSE Doubled(n, x)
           T == {x \in Sizes : ~Right(x)}
           rank == [x \in Sizes |-> IF Full(n, x) THEN 2 * n + 1 - x ELSE 0]
           next == [x \in Sizes |-> IF Full(n, x) THEN 2 * x ELSE x]
<1> SUFFICES ASSUME T # {} PROVE FALSE
  OBVIOUS
<1>1. \A x \in Sizes : 2 * x \in Sizes /\ 2 * x # x
  BY DEF Sizes
<1>2. \A x \in Sizes : Full(n, x) => x \in 1 .. 2 * n
  BY DEF Sizes, Full
<1>3. rank \in [Sizes -> Nat] /\ next \in [Sizes -> Sizes]
  <2>1. \A x \in Sizes : (IF Full(n, x) THEN 2 * n + 1 - x ELSE 0) \in Nat
    BY <1>2
  <2> QED BY <1>1, <2>1
<1>4. \A x \in Sizes : next[x] = x \/ rank[next[x]] < rank[x]
  <2> SUFFICES ASSUME NEW x \in Sizes, Full(n, x) PROVE rank[2 * x] < rank[x]
    OBVIOUS
  <2>1. x \in 1 .. 2 * n /\ 2 * x \in Sizes
    BY <1>1, <1>2
  <2> QED BY <2>1
<1>5. PICK x \in T : next[x] = x \/ next[x] \notin T
  <2>1. T \in SUBSET Sizes
    OBVIOUS
  <2> HIDE DEF rank, next, T
  <2> QED BY <1>3, <1>4, <2>1, LeadsOut
<1>6. x \in Sizes /\ 2 * x \in Sizes /\ 2 * x # x /\ ~Right(x)
  BY <1>1
<1>7. /\ Doubled(n, x) = IF Full(n, x) THEN Doubled(n, 2 * x) ELSE x
      /\ Doubled(n + 1, x) = IF Full(n + 1, x) THEN Doubled(n + 1, 2 * x) ELSE x
      /\ Doubled(n + 1, 2 * x) = IF Full(n + 1, 2 * x) THEN Doubled(n + 1, 2 * (2 * x)) ELSE 2 * x
  <2>1. n + 1 \in Nat
    OBVIOUS
  <2> QED BY <1>6, <2>1, DoubledIs
<1>8. CASE Full(n, x)
  <2>1. Right(2 * x)
    BY <1>5, <1>6, <1>8
  <2>2. Full(n + 1, x)
    BY <1>6, <1>8 DEF Full, Sizes
  <2> QED BY <1>6, <1>7, <1>8, <2>1, <2>2
<1>9. CASE ~Full(n, x)
  <2>1. ~Full(n + 1, 2 * x)
    BY <1>6, <1>9 DEF Full, Sizes
  <2> QED BY <1>6, <1>7, <1>9, <2>1
<1> QED BY <1>8, <1>9

\* The bucket of a value in a table of half the capacity.
LEMMA BucketHalves ==
    ASSUME NEW v \in SetValues, NEW c \in Sizes
    PROVE  /\ BucketOf(v, 2 * c) \in 0 .. 2 * c - 1
           /\ BucketOf(v, 2 * c) % c = BucketOf(v, c) /\ BucketOf(v, c) \in 0 .. c - 1
<1>1. HashOf(v) \in Nat /\ c \in Nat \ {0}
  BY SetsAssumption DEF Sizes
<1> DEFINE h == HashOf(v)
           r == h % (2 * c)
<1>2. h % c \in 0 .. c - 1 /\ r \in 0 .. 2 * c - 1 /\ 0 % c = 0
  BY <1>1
<1>3. r % c = h % c
  <2> HIDE DEF h, r
  <2>1. h \in Nat /\ 2 * c \in Nat \ {0} /\ r = h % (2 * c)
    BY <1>1 DEF h, r
  <2>2. PICK q \in Nat : h = (2 * c) * q + r /\ r \in Nat
    <3> DEFINE cc == 2 * c
    <3>1. cc \in Nat \ {0} /\ r = h % cc
      BY <2>1
    <3> HIDE DEF cc
    <3>2. h = cc * (h \div cc) + r /\ r \in Nat /\ h \div cc \in Nat
      BY <2>1, <3>1
    <3> QED BY <3>2 DEF cc
  <2>3. PICK k \in Nat : r = c * k + (r % c) /\ r % c \in 0 .. c - 1
    <3>1. r = c * (r \div c) + (r % c) /\ r % c \in 0 .. c - 1 /\ r \div c \in Nat
      BY <1>1, <2>2
    <3> QED BY <3>1
  <2>4. h = c * (2 * q + k) + (r % c) /\ 2 * q + k \in Nat
    BY <1>1, <2>2, <2>3
  <2>5. (c * (2 * q + k) + (r % c)) % c = r % c
    BY <1>1, <2>3, <2>4, RemainderIs
  <2> QED BY <2>4, <2>5
<1> QED BY <1>1, <1>2, <1>3 DEF BucketOf

-----------------------------------------------------------------------------
\* The table with these elements, put in this order, at a capacity.
InBucket(items, cap, b) == {i \in DOMAIN items : BucketOf(items[i], cap) = b}
PlacedIn(items, cap) ==
    [cap |-> cap, size |-> Len(items), chains |-> [b \in 0 .. cap - 1 |-> Picked(items, InBucket(items, cap, b))]]
Laid(items, req) == PlacedIn(items, Doubled(Len(items), TableSizeFor(req)))

\* A new element goes to the end of its chain.
LEMMA ChainedIs ==
    ASSUME NEW s \in Seq(SetValues), NEW v \in SetValues, NEW c \in Sizes
    PROVE  Chained(PlacedIn(s, c), v) = PlacedIn(Append(s, v), c)
<1> DEFINE u == Append(s, v)
           at == BucketOf(v, c)
           old == [b \in 0 .. c - 1 |-> Picked(s, InBucket(s, c, b))]
           new == [b \in 0 .. c - 1 |-> Picked(u, InBucket(u, c, b))]
<1>1. /\ Len(s) \in Nat /\ DOMAIN s = 1 .. Len(s) /\ at \in 0 .. c - 1
      /\ u \in Seq(SetValues) /\ DOMAIN u = 1 .. Len(s) + 1 /\ Len(u) = Len(s) + 1
      /\ u[Len(s) + 1] = v /\ \A i \in 1 .. Len(s) : u[i] = s[i]
  BY BucketHalves, AppendProperties, LenProperties
<1>2. ASSUME NEW b \in 0 .. c - 1
      PROVE  new[b] = IF b = at THEN Append(old[b], v) ELSE old[b]
  <2> DEFINE keep == InBucket(s, c, b)
  <2>1. InBucket(u, c, b) = IF b = at THEN keep \cup {Len(s) + 1} ELSE keep
    <3>1. \A i : i \in 1 .. Len(s) + 1 <=> i \in 1 .. Len(s) \/ i = Len(s) + 1
      BY <1>1
    <3>2. \A i : i \in InBucket(u, c, b) <=> i \in 1 .. Len(s) + 1 /\ BucketOf(u[i], c) = b
      BY <1>1 DEF InBucket
    <3>3. \A i : i \in keep <=> i \in 1 .. Len(s) /\ BucketOf(s[i], c) = b
      BY <1>1 DEF InBucket
    <3>4. Len(s) + 1 \notin 1 .. Len(s)
      BY <1>1
    <3> HIDE DEF keep, u
    <3>5. CASE b = at
      <4>1. \A i : i \in InBucket(u, c, b) <=> i \in keep \/ i = Len(s) + 1
        BY <1>1, <3>1, <3>2, <3>3, <3>4, <3>5
      <4> QED BY <3>5, <4>1
    <3>6. CASE b # at
      <4>1. \A i : i \in InBucket(u, c, b) <=> i \in keep
        BY <1>1, <3>1, <3>2, <3>3, <3>4, <3>6
      <4> QED BY <3>6, <4>1
    <3> QED BY <3>5, <3>6
  <2>2. keep \in SUBSET (DOMAIN s)
    BY DEF InBucket
  <2> HIDE DEF keep
  <2>3. /\ Picked(u, keep) = Picked(s, keep)
        /\ Picked(u, keep \cup {Len(s) + 1}) = Append(Picked(s, keep), v)
    BY <2>2, PickedAppend
  <2>4. old[b] = Picked(s, keep) /\ new[b] = Picked(u, InBucket(u, c, b))
    BY DEF keep
  <2> HIDE DEF u, old, new
  <2> QED BY <2>1, <2>3, <2>4
<1>3. [old EXCEPT ![at] = Append(@, v)] = new
  <2>1. DOMAIN old = 0 .. c - 1 /\ DOMAIN new = 0 .. c - 1 /\ new = [b \in 0 .. c - 1 |-> new[b]]
    OBVIOUS
  <2> HIDE DEF old, new, at
  <2> QED BY <1>1, <1>2, <2>1
<1>4. PlacedIn(s, c) = [cap |-> c, size |-> Len(s), chains |-> old]
  BY DEF PlacedIn
<1>5. PlacedIn(u, c) = [cap |-> c, size |-> Len(s) + 1, chains |-> new]
  <2> HIDE DEF u
  <2> QED BY <1>1 DEF PlacedIn, u
<1>6. Chained(PlacedIn(s, c), v) = [cap |-> c, size |-> Len(s) + 1, chains |-> [old EXCEPT ![at] = Append(@, v)]]
  <2> HIDE DEF old
  <2> QED BY <1>4 DEF Chained
<1> QED BY <1>3, <1>5, <1>6

\* Splitting each chain in two places the elements at twice the capacity.
LEMMA SplitIs ==
    ASSUME NEW s \in Seq(SetValues), NEW c \in Sizes
    PROVE  Split(PlacedIn(s, c)) = PlacedIn(s, 2 * c)
<1> DEFINE t == PlacedIn(s, c)
           old(b) == t.chains[b % c]
           part(b) == Picked(old(b), {i \in DOMAIN old(b) : BucketOf(old(b)[i], 2 * c) = b})
           full(b) == Picked(s, InBucket(s, 2 * c, b))
<1>1. \A i \in DOMAIN s : s[i] \in SetValues
  BY LenProperties
<1>2. t.cap = c /\ t.size = Len(s)
  BY DEF PlacedIn
<1>3. ASSUME NEW b \in 0 .. 2 * c - 1 PROVE part(b) = full(b)
  <2> DEFINE keep == InBucket(s, c, b % c)
             X == {x \in SetValues : BucketOf(x, 2 * c) = b}
             both == Among(s, keep, X)
             held == Picked(s, keep)
  <2>1. b % c \in 0 .. c - 1
    BY DEF Sizes
  <2>2. old(b) = held
    BY <2>1 DEF PlacedIn
  <2>3. keep \in SUBSET (DOMAIN s)
    BY DEF InBucket
  <2>4. \A i \in DOMAIN s : BucketOf(s[i], 2 * c) = b => BucketOf(s[i], c) = b % c
    BY <1>1, BucketHalves
  <2>5. both = InBucket(s, 2 * c, b)
    BY <1>1, <2>4 DEF InBucket, Among
  <2> HIDE DEF t, keep, X, both
  <2>6. held \in Seq(SetValues)
    BY <2>3, PickedFrom
  <2>7. \A i \in DOMAIN held : held[i] \in SetValues
    <3> HIDE DEF held
    <3> QED BY <2>6, LenProperties
  <2>8. Picked(held, Among(held, DOMAIN held, X)) = Picked(s, both)
    BY <2>3, PickedPicked DEF both
  <2> HIDE DEF held
  <2>9. Among(held, DOMAIN held, X) = {i \in DOMAIN held : BucketOf(held[i], 2 * c) = b}
    BY <2>7 DEF Among, X
  <2> QED BY <2>2, <2>5, <2>8, <2>9
<1>4. Split(t) = [cap |-> 2 * c, size |-> Len(s), chains |-> [b \in 0 .. 2 * c - 1 |-> part(b)]]
  <2> HIDE DEF t
  <2> QED BY <1>2 DEF Split
<1>5. [b \in 0 .. 2 * c - 1 |-> part(b)] = [b \in 0 .. 2 * c - 1 |-> full(b)]
  <2> HIDE DEF part, full
  <2> QED BY <1>3
<1> QED BY <1>4, <1>5 DEF PlacedIn

\* Putting an element in a table lays it out over one element more.
LEMMA PutIs ==
    ASSUME NEW s \in Seq(SetValues), NEW v \in SetValues, NEW req \in Nat
    PROVE  Put(Laid(s, req), v) = Laid(Append(s, v), req)
<1> DEFINE n == Len(s)
           first == TableSizeFor(req)
           c == Doubled(n, first)
           u == Append(s, v)
<1>1. n \in Nat /\ u \in Seq(SetValues) /\ Len(u) = n + 1
  BY AppendProperties, LenProperties
<1> HIDE DEF n, u
<1>2. first \in Sizes
  BY DoubledIs
<1> HIDE DEF first
<1>3. c \in Sizes
  BY <1>1, <1>2, DoubledIs
<1>4. Doubled(n + 1, first) = IF Full(n + 1, c) THEN 2 * c ELSE c
  BY <1>1, <1>2, DoubledNext
<1> HIDE DEF c
<1>5. Laid(s, req) = PlacedIn(s, c) /\ Laid(u, req) = PlacedIn(u, IF Full(n + 1, c) THEN 2 * c ELSE c)
  BY <1>1, <1>4 DEF Laid, c, first, n
<1>6. PlacedIn(s, c).size = n /\ PlacedIn(s, c).cap = c
  BY DEF PlacedIn, n
<1>7. Chained(PlacedIn(s, c), v) = PlacedIn(u, c)
  BY <1>3, ChainedIs DEF u
<1>8. Split(PlacedIn(u, c)) = PlacedIn(u, 2 * c)
  BY <1>1, <1>3, SplitIs
<1>9. Put(PlacedIn(s, c), v) = IF Full(n + 1, c) THEN PlacedIn(u, 2 * c) ELSE PlacedIn(u, c)
  BY <1>6, <1>7, <1>8 DEF Put
<1> QED BY <1>5, <1>9 DEF u

-----------------------------------------------------------------------------
\* No two of the first m elements are one, under an equality.
ApartTo(s, eq, m) == \A i, j \in DOMAIN s : (i # j /\ i <= m /\ j <= m) => ~EqualUnder(eq, s[i], s[j])
Apart(s, eq) == ApartTo(s, eq, Len(s))

\* t holds elements of the first n of s, each from a position of its own.
FromFirst(t, s, n) ==
    \E f \in [DOMAIN t -> 1 .. n] :
       /\ \A k, m \in DOMAIN t : k # m => f[k] # f[m]
       /\ \A k \in DOMAIN t : t[k] = s[f[k]]

\* t begins with the first m elements of s, as far as n.
Begins(t, s, m, n) ==
    /\ \A k \in 1 .. n : k <= m => k \in DOMAIN t /\ t[k] = s[k]
    /\ n <= m => Len(t) = n

\* What dedup_values has after n elements.
Deduped(t, items, eq, m, n) ==
    t \in Seq(SetValues) /\ Apart(t, eq) /\ FromFirst(t, items, n) /\ Begins(t, items, m, n)

\* One more element that comes from a position of its own.
LEMMA FromFirstNext ==
    ASSUME NEW s \in Seq(SetValues), NEW t \in Seq(SetValues), NEW n \in 1 .. Len(s), FromFirst(t, s, n - 1)
    PROVE  FromFirst(t, s, n) /\ FromFirst(Append(t, s[n]), s, n)
<1> DEFINE u == Append(t, s[n])
<1>1. PICK f \in [DOMAIN t -> 1 .. n - 1] :
         /\ \A k, m \in DOMAIN t : k # m => f[k] # f[m]
         /\ \A k \in DOMAIN t : t[k] = s[f[k]]
  BY DEF FromFirst
<1>2. Len(s) \in Nat /\ s[n] \in SetValues /\ Len(t) \in Nat /\ DOMAIN t = 1 .. Len(t)
  BY LenProperties
<1>3. /\ DOMAIN u = 1 .. Len(t) + 1 /\ u[Len(t) + 1] = s[n]
      /\ \A i \in 1 .. Len(t) : u[i] = t[i]
  BY <1>2, AppendProperties, LenProperties
<1>4. 1 .. n - 1 \subseteq 1 .. n /\ n \in 1 .. n /\ n \notin 1 .. n - 1
  BY <1>2
<1>5. FromFirst(t, s, n)
  BY <1>1, <1>4 DEF FromFirst
<1> DEFINE g == [k \in 1 .. Len(t) + 1 |-> IF k = Len(t) + 1 THEN n ELSE f[k]]
<1>6. \A k \in 1 .. Len(t) + 1 : k # Len(t) + 1 => k \in DOMAIN t
  BY <1>2
<1>7. g \in [DOMAIN u -> 1 .. n]
  <2>1. \A k \in 1 .. Len(t) + 1 : g[k] \in 1 .. n
    BY <1>1, <1>4, <1>6
  <2> HIDE DEF u
  <2> QED BY <1>3, <2>1
<1>8. \A k, m \in 1 .. Len(t) + 1 : k # m => g[k] # g[m]
  BY <1>1, <1>4, <1>6
<1>9. \A k \in 1 .. Len(t) + 1 : u[k] = s[g[k]]
  <2> HIDE DEF u
  <2> QED BY <1>1, <1>2, <1>3, <1>6
<1> HIDE DEF u, g
<1>10. FromFirst(u, s, n)
  <2>1. \A k, m \in DOMAIN u : k # m => g[k] # g[m]
    BY <1>3, <1>8
  <2>2. \A k \in DOMAIN u : u[k] = s[g[k]]
    BY <1>3, <1>9
  <2> QED BY <1>7, <2>1, <2>2 DEF FromFirst
<1> QED BY <1>5, <1>10 DEF u

\* The next element is kept, unless one of those kept is the same.
LEMMA OnceIs ==
    ASSUME NEW items \in Seq(SetValues), NEW eq \in SetEqs, NEW m \in Nat, ApartTo(items, eq, m),
           NEW n \in 1 .. Len(items), NEW t, Deduped(t, items, eq, m, n - 1)
    PROVE  Deduped(Once(t, eq, items[n]), items, eq, m, n)
<1> DEFINE v == items[n]
           u == Append(t, v)
<1>1. /\ t \in Seq(SetValues) /\ Apart(t, eq) /\ FromFirst(t, items, n - 1) /\ Begins(t, items, m, n - 1)
      /\ Len(items) \in Nat /\ DOMAIN items = 1 .. Len(items) /\ v \in SetValues
  BY LenProperties DEF Deduped
<1>2. /\ Len(t) \in Nat /\ DOMAIN t = 1 .. Len(t) /\ \A i \in 1 .. Len(t) : t[i] \in SetValues
      /\ u \in Seq(SetValues) /\ Len(u) = Len(t) + 1 /\ DOMAIN u = 1 .. Len(t) + 1 /\ u[Len(t) + 1] = v
      /\ \A i \in 1 .. Len(t) : u[i] = t[i]
  BY <1>1, AppendProperties, LenProperties
<1>3. Has(t, eq, v) <=> \E i \in DOMAIN t : EqualUnder(eq, t[i], v)
  BY <1>1, IndexFinds
<1>4. FromFirst(t, items, n) /\ FromFirst(u, items, n)
  BY <1>1, FromFirstNext
<1>5. n <= m => ~Has(t, eq, v)
  <2> SUFFICES ASSUME n <= m, NEW i \in DOMAIN t, EqualUnder(eq, t[i], v) PROVE FALSE
    BY <1>3
  <2>1. Len(t) = n - 1
    BY <1>1 DEF Begins
  <2>2. i \in 1 .. n - 1
    BY <1>2, <2>1
  <2>3. t[i] = items[i] /\ i # n /\ i \in DOMAIN items /\ n \in DOMAIN items /\ i <= m
    BY <1>1, <2>2 DEF Begins
  <2> QED BY <2>3 DEF ApartTo
<1>6. CASE Has(t, eq, v)
  <2>1. Begins(t, items, m, n)
    <3>1. ~(n <= m)
      BY <1>5, <1>6
    <3>2. \A k \in 1 .. n : k <= m => k \in 1 .. n - 1
      BY <1>1, <3>1
    <3> QED BY <1>1, <3>1, <3>2 DEF Begins
  <2> QED BY <1>1, <1>4, <1>6, <2>1 DEF Once, Deduped
<1>7. CASE ~Has(t, eq, v)
  <2>1. Begins(u, items, m, n)
    <3>1. \A k \in 1 .. n - 1 : k <= m => k \in DOMAIN t /\ t[k] = items[k]
      BY <1>1 DEF Begins
    <3>2. \A k \in 1 .. n - 1 : k <= m => k \in DOMAIN u /\ u[k] = items[k]
      <4> HIDE DEF u
      <4> QED BY <1>2, <3>1
    <3>3. n <= m => Len(t) = n - 1
      BY <1>1 DEF Begins
    <3>4. n <= m => Len(u) = n /\ n \in DOMAIN u /\ u[n] = v
      <4> HIDE DEF u, v
      <4> QED BY <1>1, <1>2, <3>3
    <3>5. \A k \in 1 .. n : k \in 1 .. n - 1 \/ k = n
      BY <1>1
    <3> HIDE DEF u
    <3> QED BY <3>2, <3>4, <3>5 DEF Begins
  <2>2. Apart(u, eq)
    <3>1. \A i \in 1 .. Len(t) : ~EqualUnder(eq, t[i], v) /\ ~EqualUnder(eq, v, t[i])
      BY <1>1, <1>2, <1>3, <1>7, EqualityAssumption
    <3>2. \A i, j \in 1 .. Len(t) : i # j => ~EqualUnder(eq, t[i], t[j])
      <4>1. \A i \in 1 .. Len(t) : i <= Len(t)
        BY <1>2
      <4> QED BY <1>1, <1>2, <4>1 DEF Apart, ApartTo
    <3>3. \A k \in 1 .. Len(t) + 1 : k \in 1 .. Len(t) \/ k = Len(t) + 1
      BY <1>2
    <3>4. ASSUME NEW i \in DOMAIN u, NEW j \in DOMAIN u, i # j PROVE ~EqualUnder(eq, u[i], u[j])
      <4> HIDE DEF u, v
      <4> QED BY <1>2, <3>1, <3>2, <3>3, <3>4
    <3> HIDE DEF u
    <3> QED BY <3>4 DEF Apart, ApartTo
  <2> HIDE DEF u
  <2>3. Deduped(u, items, eq, m, n)
    BY <1>2, <1>4, <2>1, <2>2 DEF Deduped
  <2> QED BY <1>7, <2>3 DEF Once, u
<1> QED BY <1>6, <1>7

\* dedup_values: of the elements that are one it keeps one, the first m of
\* them as they are if they are apart.
LEMMA DedupIs ==
    ASSUME NEW items \in Seq(SetValues), NEW eq \in SetEqs, NEW m \in 0 .. Len(items), ApartTo(items, eq, m)
    PROVE  /\ Dedup(items, eq) \in Seq(SetValues) /\ Apart(Dedup(items, eq), eq)
           /\ From(Dedup(items, eq), items)
           /\ Len(Dedup(items, eq)) >= m /\ \A i \in 1 .. m : Dedup(items, eq)[i] = items[i]
           /\ m = Len(items) => Dedup(items, eq) = items
<1> DEFINE n == Len(items)
           V == Seq(SetValues)
           step == [k \in 1 .. n |-> [out \in V |-> Once(out, eq, items[k])]]
           upTo == CHOOSE h : h = [k \in 0 .. n |-> IF k = 0 THEN <<>> ELSE Once(h[k - 1], eq, items[k])]
<1>1. n \in Nat /\ DOMAIN items = 1 .. n /\ \A k \in 1 .. n : items[k] \in SetValues
  BY LenProperties
<1>2. step \in [1 .. n -> [V -> V]] /\ <<>> \in V
  <2>1. \A out \in V : \A k \in 1 .. n : Once(out, eq, items[k]) \in V
    BY <1>1, AppendProperties DEF Once
  <2> HIDE DEF V, n
  <2>2. \A k \in 1 .. n : [out \in V |-> Once(out, eq, items[k])] \in [V -> V]
    BY <2>1
  <2>3. <<>> \in V
    BY DEF V
  <2> QED BY <2>2, <2>3
<1> DEFINE none == <<>>
<1>3. PICK h \in [0 .. n -> V] : Loops(h, n, none, step)
  <2>1. none \in V
    BY <1>2
  <2> HIDE DEF V, n, step, none
  <2> QED BY <1>1, <1>2, <2>1, LoopExists
<1>3a. h[0] = <<>> /\ \A k \in 1 .. n : h[k] = step[k][h[k - 1]]
  BY <1>3 DEF Loops
<1>4. h = [k \in 0 .. n |-> IF k = 0 THEN <<>> ELSE Once(h[k - 1], eq, items[k])]
  <2>1. ASSUME NEW k \in 0 .. n, k # 0 PROVE h[k] = Once(h[k - 1], eq, items[k])
    <3>1. k \in 1 .. n /\ k - 1 \in 0 .. n
      BY <1>1, <2>1
    <3>2. h[k - 1] \in V
      BY <1>3, <3>1
    <3> HIDE DEF V, n
    <3> QED BY <1>3a, <3>1, <3>2
  <2> HIDE DEF V, n, step
  <2> QED BY <1>3, <1>3a, <2>1
<1>5. upTo = [k \in 0 .. n |-> IF k = 0 THEN <<>> ELSE Once(upTo[k - 1], eq, items[k])]
  <2> HIDE DEF V, n, step
  <2> QED BY <1>4, Zenon
<1>6. Dedup(items, eq) = upTo[n]
  BY DEF Dedup
<1> HIDE DEF upTo
<1>7. upTo[0] = <<>> /\ \A k \in 1 .. n : upTo[k] = Once(upTo[k - 1], eq, items[k])
  <2>1. 0 \in 0 .. n /\ \A k \in 1 .. n : k \in 0 .. n /\ k # 0
    BY <1>1
  <2> HIDE DEF n
  <2> QED BY <1>5, <2>1
<1> DEFINE T == {k \in 0 .. n : Deduped(upTo[k], items, eq, m, k)}
<1>8. 0 \in T
  <2>1. Begins(<<>>, items, m, 0) /\ Apart(<<>>, eq)
    BY DEF Begins, Apart, ApartTo
  <2>2. FromFirst(<<>>, items, 0)
    <3> DEFINE f == [k \in DOMAIN <<>> |-> 1]
    <3>1. DOMAIN <<>> = {}
      OBVIOUS
    <3>2. f \in [DOMAIN <<>> -> 1 .. 0]
      BY <3>1
    <3> HIDE DEF f
    <3> QED BY <3>1, <3>2 DEF FromFirst
  <2>3. 0 \in 0 .. n
    BY <1>1
  <2> HIDE DEF n
  <2> QED BY <1>2, <1>7, <2>1, <2>2, <2>3 DEF Deduped
<1>9. ASSUME NEW k \in 1 .. n, k - 1 \in T PROVE k \in T
  <2>1. Deduped(upTo[k - 1], items, eq, m, k - 1)
    BY <1>9
  <2>2. Deduped(Once(upTo[k - 1], eq, items[k]), items, eq, m, k)
    BY <2>1, OnceIs
  <2>3. k \in 0 .. n
    BY <1>1
  <2> HIDE DEF n
  <2> QED BY <1>7, <2>2, <2>3
<1>10. n \in T
  <2> HIDE DEF T
  <2>1. 0 .. n \subseteq T
    <3> HIDE DEF n
    <3> QED BY <1>1, <1>8, <1>9, IntervalInduction
  <2> QED BY <1>1, <2>1
<1> DEFINE D == upTo[n]
<1>11. D \in Seq(SetValues) /\ Apart(D, eq) /\ FromFirst(D, items, n) /\ Begins(D, items, m, n)
  BY <1>10 DEF Deduped
<1> HIDE DEF D, T
<1>12. From(D, items)
  BY <1>1, <1>11 DEF FromFirst, From
<1>13. Len(D) >= m /\ \A i \in 1 .. m : D[i] = items[i]
  <2>1. \A i \in 1 .. m : i \in DOMAIN D /\ D[i] = items[i]
    BY <1>1, <1>11 DEF Begins
  <2>2. Len(D) \in Nat /\ DOMAIN D = 1 .. Len(D)
    BY <1>11, LenProperties
  <2>3. m \in 1 .. m => m <= Len(D)
    BY <2>1, <2>2
  <2> QED BY <1>1, <2>1, <2>2, <2>3
<1>14. m = n => D = items
  <2>1. m = n => Len(D) = n
    BY <1>1, <1>11 DEF Begins
  <2> QED BY <1>1, <1>11, <1>13, <2>1, SeqEqual
<1> QED BY <1>6, <1>11, <1>12, <1>13, <1>14 DEF D

-----------------------------------------------------------------------------
\* The values in a set ordered by a closure, and lists of them whose
\* comparator tells their elements apart.
Ordered == {v \in SetValues : v \in Comparables}
ComparedApart(s) == \A i, j \in DOMAIN s : i # j => ComparatorOrder(s[i], s[j]) # 0

\* A value its comparator finds in no place is put at the end.
LEMMA PushedIs ==
    ASSUME NEW t \in Seq(Ordered), ComparedApart(t), NEW v \in Ordered
    PROVE  Pushed(t, v) \in Seq(Ordered) /\ ComparedApart(Pushed(t, v))
<1> DEFINE u == Append(t, v)
<1>1. Len(t) \in Nat /\ DOMAIN t = 1 .. Len(t) /\ \A i \in 1 .. Len(t) : t[i] \in Ordered
  BY LenProperties
<1>2. /\ u \in Seq(Ordered) /\ DOMAIN u = 1 .. Len(t) + 1 /\ u[Len(t) + 1] = v
      /\ \A i \in 1 .. Len(t) : u[i] = t[i]
  BY <1>1, AppendProperties, LenProperties
<1> HIDE DEF u
<1>3. ASSUME \A i \in 1 .. Len(t) : ComparatorOrder(t[i], v) # 0, NEW i \in DOMAIN u, NEW j \in DOMAIN u, i # j
      PROVE  ComparatorOrder(u[i], u[j]) # 0
  <2>1. \A x \in Ordered : ComparatorKey(x) \in Int
    BY OrderAssumption DEF Ordered
  <2>2. \A k \in 1 .. Len(t) + 1 : k \in 1 .. Len(t) \/ k = Len(t) + 1
    BY <1>1
  <2>3. CASE i = Len(t) + 1
    BY <1>1, <1>2, <1>3, <2>1, <2>2, <2>3 DEF ComparatorOrder
  <2>4. CASE j = Len(t) + 1
    BY <1>1, <1>2, <1>3, <2>1, <2>2, <2>4 DEF ComparatorOrder
  <2>5. CASE i \in 1 .. Len(t) /\ j \in 1 .. Len(t)
    BY <1>1, <1>2, <1>3, <2>5 DEF ComparedApart
  <2> QED BY <1>2, <2>2, <2>3, <2>4, <2>5
<1>4. CASE Position(t, v) = {}
  <2>1. \A i \in 1 .. Len(t) : ComparatorOrder(t[i], v) # 0
    BY <1>1, <1>4 DEF Position
  <2>2. ComparedApart(u)
    BY <1>3, <2>1 DEF ComparedApart
  <2> QED BY <1>2, <1>4, <2>2 DEF Pushed, u
<1>5. CASE Position(t, v) # {}
  BY <1>5 DEF Pushed
<1> QED BY <1>4, <1>5

\* So is each of many of them.
LEMMA PushedByIs ==
    ASSUME NEW items \in Seq(Ordered), ComparedApart(items), NEW more \in Seq(Ordered)
    PROVE  PushedBy(items, more) \in Seq(Ordered) /\ ComparedApart(PushedBy(items, more))
<1> DEFINE n == Len(more)
           V == {t \in Seq(Ordered) : ComparedApart(t)}
           step == [k \in 1 .. n |-> [out \in V |-> Pushed(out, more[k])]]
           upTo == CHOOSE h : h = [k \in 0 .. n |-> IF k = 0 THEN items ELSE Pushed(h[k - 1], more[k])]
<1>1. n \in Nat /\ \A k \in 1 .. n : more[k] \in Ordered
  BY LenProperties
<1>2. step \in [1 .. n -> [V -> V]]
  <2>1. \A out \in V : \A k \in 1 .. n : Pushed(out, more[k]) \in V
    BY <1>1, PushedIs
  <2> HIDE DEF V, n
  <2> QED BY <2>1
<1>3. PICK h \in [0 .. n -> V] : Loops(h, n, items, step)
  <2>1. items \in V
    OBVIOUS
  <2> HIDE DEF V, n, step
  <2> QED BY <1>1, <1>2, <2>1, LoopExists
<1>4. h = [k \in 0 .. n |-> IF k = 0 THEN items ELSE Pushed(h[k - 1], more[k])]
  <2>1. ASSUME NEW k \in 0 .. n, k # 0 PROVE h[k] = Pushed(h[k - 1], more[k])
    <3>1. k \in 1 .. n /\ k - 1 \in 0 .. n
      BY <1>1, <2>1
    <3>2. h[k - 1] \in V /\ h[k] = step[k][h[k - 1]]
      BY <1>3, <3>1 DEF Loops
    <3> HIDE DEF V, n
    <3> QED BY <3>1, <3>2
  <2>2. h[0] = items
    BY <1>3 DEF Loops
  <2> HIDE DEF V, n, step
  <2> QED BY <1>3, <2>1, <2>2
<1>5. upTo = [k \in 0 .. n |-> IF k = 0 THEN items ELSE Pushed(upTo[k - 1], more[k])]
  <2> HIDE DEF V, n, step
  <2> QED BY <1>4, Zenon
<1>6. PushedBy(items, more) = upTo[n]
  BY DEF PushedBy
<1> HIDE DEF upTo
<1> DEFINE T == {k \in 0 .. n : upTo[k] \in V}
<1>7. 0 \in T
  <2>1. 0 \in 0 .. n
    BY <1>1
  <2> HIDE DEF n
  <2> QED BY <1>5, <2>1
<1>8. ASSUME NEW k \in 1 .. n, k - 1 \in T PROVE k \in T
  <2>1. k \in 0 .. n /\ k # 0
    BY <1>1
  <2>2. upTo[k] = Pushed(upTo[k - 1], more[k])
    <3> HIDE DEF n
    <3> QED BY <1>5, <2>1
  <2>3. upTo[k - 1] \in Seq(Ordered) /\ ComparedApart(upTo[k - 1]) /\ more[k] \in Ordered
    BY <1>1, <1>8
  <2>4. Pushed(upTo[k - 1], more[k]) \in V
    BY <2>3, PushedIs
  <2> QED BY <2>1, <2>2, <2>4
<1>9. upTo[n] \in V
  <2> HIDE DEF T
  <2>1. 0 .. n \subseteq T
    <3> HIDE DEF n
    <3> QED BY <1>1, <1>7, <1>8, IntervalInduction
  <2> QED BY <1>1, <2>1 DEF T
<1> QED BY <1>6, <1>9

-----------------------------------------------------------------------------
\* Putting the elements after the first ones in the table of those lays it
\* out over all of them.
LEMMA PutAllIs ==
    ASSUME NEW items \in Seq(SetValues), NEW from \in 0 .. Len(items), NEW req \in Nat
    PROVE  PutAll(Laid(SubSeq(items, 1, from), req), from, items) = Laid(items, req)
<1> DEFINE n == Len(items) - from
           t == Laid(SubSeq(items, 1, from), req)
           g == [k \in 0 .. n |-> Laid(SubSeq(items, 1, from + k), req)]
           upTo == CHOOSE h : h = [k \in 0 .. n |-> IF k = 0 THEN t ELSE Put(h[k - 1], items[from + k])]
<1>1. /\ Len(items) \in Nat /\ n \in Nat /\ from \in Nat /\ n + from = Len(items)
      /\ \A i \in 1 .. Len(items) : items[i] \in SetValues
  BY LenProperties
<1>2. ASSUME NEW k \in 1 .. n
      PROVE  g[k] = Put(g[k - 1], items[from + k])
  <2> DEFINE before == SubSeq(items, 1, from + (k - 1))
  <2>1. k - 1 \in 0 .. n /\ k \in 0 .. n /\ from + k \in 1 .. Len(items) /\ from + k - 1 = from + (k - 1)
    BY <1>1
  <2>2. before \in Seq(SetValues)
    <3>1. \A i \in 1 .. from + (k - 1) : items[i] \in SetValues
      BY <1>1
    <3>2. from + (k - 1) \in Int
      BY <1>1
    <3> QED BY <3>1, <3>2, SubSeqProperties
  <2>3. SubSeq(items, 1, from + k) = Append(before, items[from + k])
    <3>1. 1 \in 1 .. Len(items)
      BY <2>1
    <3>2. SubSeq(items, 1, from + k) = before \o <<items[from + k]>>
      BY <2>1, <3>1, SubSeqRecursiveSecond
    <3> HIDE DEF before
    <3> QED BY <1>1, <2>1, <2>2, <3>2, AppendIsConcat
  <2>4. g[k] = Laid(Append(before, items[from + k]), req) /\ g[k - 1] = Laid(before, req)
    BY <2>1, <2>3
  <2>5. items[from + k] \in SetValues
    BY <1>1, <2>1
  <2> HIDE DEF before, g, n
  <2> QED BY <2>2, <2>4, <2>5, PutIs
<1>3. g[0] = t
  <2>1. 0 \in 0 .. n /\ from + 0 = from
    BY <1>1
  <2> QED BY <2>1
<1>4. g = [k \in 0 .. n |-> IF k = 0 THEN t ELSE Put(g[k - 1], items[from + k])]
  <2>1. \A k \in 0 .. n : k # 0 => k \in 1 .. n
    BY <1>1
  <2>2. DOMAIN g = 0 .. n /\ g = [k \in 0 .. n |-> g[k]]
    OBVIOUS
  <2> HIDE DEF g, n, t
  <2> QED BY <1>2, <1>3, <2>1, <2>2
<1>5. upTo = [k \in 0 .. n |-> IF k = 0 THEN t ELSE Put(upTo[k - 1], items[from + k])]
  <2> HIDE DEF g, n, t
  <2> QED BY <1>4, Zenon
<1>6. PutAll(t, from, items) = upTo[n]
  BY DEF PutAll
<1> HIDE DEF upTo
<1> DEFINE T == {k \in 0 .. n : upTo[k] = g[k]}
<1>7. 0 \in T
  <2>1. 0 \in 0 .. n
    BY <1>1
  <2> HIDE DEF n, g, t
  <2> QED BY <1>3, <1>5, <2>1
<1>8. ASSUME NEW k \in 1 .. n, k - 1 \in T PROVE k \in T
  <2>1. k \in 0 .. n /\ k # 0
    BY <1>1
  <2> HIDE DEF n, g, t
  <2> QED BY <1>2, <1>5, <1>8, <2>1
<1>9. upTo[n] = g[n]
  <2> HIDE DEF T, g, t
  <2>1. 0 .. n \subseteq T
    <3> HIDE DEF n
    <3> QED BY <1>1, <1>7, <1>8, IntervalInduction
  <2> QED BY <1>1, <2>1 DEF T
<1>10. g[n] = Laid(items, req)
  <2>1. from + n = Len(items) /\ n \in 0 .. n
    BY <1>1
  <2>2. SubSeq(items, 1, Len(items)) = items
    BY SubSeqFull
  <2> QED BY <2>1, <2>2
<1> QED BY <1>6, <1>9, <1>10

-----------------------------------------------------------------------------
\* The places of a table, chain after chain.
LEMMA ChainwiseLines ==
    ASSUME NEW S \in SUBSET (Nat \X Nat)
    PROVE  /\ \A p, q \in S : <<p, q>> \in Chainwise(S) <=> p[1] < q[1] \/ (p[1] = q[1] /\ p[2] < q[2])
           /\ Lines(S, Chainwise(S))
<1> DEFINE R == Chainwise(S)
<1>1. \A p, q \in S : <<p, q>> \in R <=> p[1] < q[1] \/ (p[1] = q[1] /\ p[2] < q[2])
  BY DEF Chainwise
<1>2. \A p \in S : p[1] \in Nat /\ p[2] \in Nat /\ p = <<p[1], p[2]>>
  OBVIOUS
<1> HIDE DEF R
<1>3. \A p \in S : <<p, p>> \notin R
  BY <1>1, <1>2
<1>4. ASSUME NEW p \in S, NEW q \in S, p # q PROVE <<p, q>> \in R \/ <<q, p>> \in R
  <2>1. p[1] # q[1] \/ p[2] # q[2]
    BY <1>2, <1>4
  <2> QED BY <1>1, <1>2, <2>1
<1>5. ASSUME NEW p \in S, NEW q \in S, NEW u \in S, <<p, q>> \in R, <<q, u>> \in R
      PROVE  <<p, u>> \in R
  <2>1. p[1] < q[1] \/ (p[1] = q[1] /\ p[2] < q[2])
    BY <1>1, <1>5
  <2>2. q[1] < u[1] \/ (q[1] = u[1] /\ q[2] < u[2])
    BY <1>1, <1>5
  <2>3. p[1] < u[1] \/ (p[1] = u[1] /\ p[2] < u[2])
    BY <1>2, <2>1, <2>2
  <2> QED BY <1>1, <2>3
<1> QED BY <1>1, <1>3, <1>4, <1>5 DEF Lines, R

\* The positions of a bucket's elements, upwards.
ClimbOf(items, c, b) ==
    CHOOSE f : /\ Climbs(f, Cardinality(InBucket(items, c, b)), InBucket(items, c, b))
               /\ Picked(items, InBucket(items, c, b)) = Through(items, f, Cardinality(InBucket(items, c, b)))
\* How far along its chain an element is.
Along(items, c, i) ==
    LET b == BucketOf(items[i], c)
    IN  CHOOSE k \in 1 .. Cardinality(InBucket(items, c, b)) : ClimbOf(items, c, b)[k] = i

\* An element is at its place of its chain, and those before it in the list
\* are before it there.
LEMMA ChainIs ==
    ASSUME NEW items \in Seq(SetValues), NEW c \in Sizes
    PROVE  LET chains == PlacedIn(items, c).chains
               bucket(i) == BucketOf(items[i], c)
               r(i) == Along(items, c, i)
           IN  /\ DOMAIN chains = 0 .. c - 1
               /\ \A i \in DOMAIN items : bucket(i) \in 0 .. c - 1 /\ r(i) \in DOMAIN chains[bucket(i)]
                                          /\ chains[bucket(i)][r(i)] = items[i]
               /\ \A b \in 0 .. c - 1 : DOMAIN chains[b] \subseteq Nat
               /\ \A b \in 0 .. c - 1 : \A k \in DOMAIN chains[b] : \E i \in DOMAIN items : bucket(i) = b /\ r(i) = k
               /\ \A i, j \in DOMAIN items : (bucket(i) = bucket(j) /\ i < j) => r(i) < r(j)
<1> DEFINE chains == PlacedIn(items, c).chains
           bucket(i) == BucketOf(items[i], c)
           r(i) == Along(items, c, i)
           In(b) == InBucket(items, c, b)
           size(b) == Cardinality(In(b))
           f(b) == ClimbOf(items, c, b)
<1>1. DOMAIN items \in SUBSET Nat /\ \A i \in DOMAIN items : items[i] \in SetValues
  BY LenProperties
<1>2. DOMAIN chains = 0 .. c - 1 /\ \A b \in 0 .. c - 1 : chains[b] = Picked(items, In(b))
  BY DEF PlacedIn
<1>3. ASSUME NEW b
      PROVE  /\ size(b) \in Nat
             /\ Climbs(f(b), size(b), In(b)) /\ Picked(items, In(b)) = Through(items, f(b), size(b))
  <2>1. In(b) \in SUBSET (DOMAIN items)
    BY DEF InBucket
  <2>2. \E g : /\ size(b) \in 0 .. Len(items)
               /\ Climbs(g, size(b), In(b)) /\ Picked(items, In(b)) = Through(items, g, size(b))
    <3> HIDE DEF In
    <3> QED BY <2>1, PickedIs
  <2> QED BY <2>2 DEF ClimbOf
<1>4. \A b : /\ size(b) \in Nat /\ f(b) \in [1 .. size(b) -> In(b)]
             /\ \A k, m \in 1 .. size(b) : k < m => f(b)[k] < f(b)[m]
             /\ \A i \in In(b) : \E k \in 1 .. size(b) : f(b)[k] = i
  <2> HIDE DEF size, f, In
  <2> QED BY <1>3 DEF Climbs
<1>5. \A b \in 0 .. c - 1 : DOMAIN chains[b] = 1 .. size(b) /\ \A k \in 1 .. size(b) : chains[b][k] = items[f(b)[k]]
  <2> HIDE DEF chains, size, f, In
  <2> QED BY <1>2, <1>3 DEF Through
<1>6. \A i, b : i \in In(b) <=> i \in DOMAIN items /\ bucket(i) = b
  BY DEF InBucket
<1>7. \A i \in DOMAIN items : bucket(i) \in 0 .. c - 1
  BY <1>1, BucketHalves
<1>8. ASSUME NEW i \in DOMAIN items
      PROVE  r(i) \in 1 .. size(bucket(i)) /\ f(bucket(i))[r(i)] = i
  <2>1. \E k \in 1 .. size(bucket(i)) : f(bucket(i))[k] = i
    <3> HIDE DEF size, f, In, bucket
    <3> QED BY <1>4, <1>6
  <2>2. r(i) = CHOOSE k \in 1 .. size(bucket(i)) : f(bucket(i))[k] = i
    BY DEF Along
  <2> HIDE DEF r, size, f, In, bucket
  <2> QED BY <2>1, <2>2
<1>9. ASSUME NEW b \in 0 .. c - 1, NEW k \in 1 .. size(b)
      PROVE  \E i \in DOMAIN items : bucket(i) = b /\ r(i) = k
  <2> DEFINE i == f(b)[k]
  <2> HIDE DEF r, size, f, In, bucket
  <2>1. i \in In(b)
    BY <1>4
  <2>2. i \in DOMAIN items /\ bucket(i) = b
    BY <1>6, <2>1
  <2>3. r(i) \in 1 .. size(b) /\ f(b)[r(i)] = f(b)[k]
    BY <1>8, <2>2
  <2>4. f(b)[k] \in Nat /\ size(b) \in Nat
    BY <1>1, <1>4, <2>2
  <2>5. ~(r(i) < k) /\ ~(k < r(i))
    <3> HIDE DEF i
    <3>1. r(i) < k => f(b)[r(i)] < f(b)[k]
      BY <1>4, <2>3
    <3>2. k < r(i) => f(b)[k] < f(b)[r(i)]
      BY <1>4, <2>3
    <3> QED BY <2>3, <2>4, <3>1, <3>2
  <2>6. r(i) = k
    BY <2>3, <2>4, <2>5
  <2> QED BY <2>2, <2>6
<1>10. ASSUME NEW i \in DOMAIN items, NEW j \in DOMAIN items, bucket(i) = bucket(j), i < j
       PROVE  r(i) < r(j)
  <2> HIDE DEF r, size, f, In, bucket
  <2> DEFINE b == bucket(i)
  <2>1. r(i) \in 1 .. size(b) /\ r(j) \in 1 .. size(b) /\ f(b)[r(i)] = i /\ f(b)[r(j)] = j
    BY <1>8, <1>10
  <2>2. r(j) < r(i) => j < i
    <3> HIDE DEF b
    <3> QED BY <1>4, <2>1
  <2>3. r(i) # r(j)
    BY <1>1, <1>10, <2>1
  <2>4. size(b) \in Nat
    BY <1>4
  <2> HIDE DEF b
  <2> QED BY <1>1, <1>10, <2>1, <2>2, <2>3, <2>4
<1>11. \A b \in 0 .. c - 1 : DOMAIN chains[b] \subseteq Nat
  <2>1. \A b : 1 .. size(b) \subseteq Nat
    BY <1>4
  <2> HIDE DEF chains, size
  <2> QED BY <1>5, <2>1
<1>12. \A i \in DOMAIN items : bucket(i) \in 0 .. c - 1 /\ r(i) \in DOMAIN chains[bucket(i)] /\ chains[bucket(i)][r(i)] = items[i]
  <2> HIDE DEF r, size, f, In, bucket, chains
  <2> SUFFICES ASSUME NEW i \in DOMAIN items
               PROVE  bucket(i) \in 0 .. c - 1 /\ r(i) \in DOMAIN chains[bucket(i)] /\ chains[bucket(i)][r(i)] = items[i]
    OBVIOUS
  <2>1. bucket(i) \in 0 .. c - 1 /\ r(i) \in 1 .. size(bucket(i)) /\ f(bucket(i))[r(i)] = i
    BY <1>7, <1>8
  <2>2. DOMAIN chains[bucket(i)] = 1 .. size(bucket(i)) /\ chains[bucket(i)][r(i)] = items[f(bucket(i))[r(i)]]
    BY <1>5, <2>1
  <2> QED BY <2>1, <2>2
<1>13. \A b \in 0 .. c - 1 : \A k \in DOMAIN chains[b] : \E i \in DOMAIN items : bucket(i) = b /\ r(i) = k
  <2> HIDE DEF r, size, f, In, bucket, chains
  <2> QED BY <1>5, <1>9
<1> HIDE DEF r, bucket, chains
<1>14. \A i, j \in DOMAIN items : (bucket(i) = bucket(j) /\ i < j) => r(i) < r(j)
  BY <1>10
<1>15. DOMAIN chains = 0 .. c - 1
  BY <1>2
<1> QED BY <1>11, <1>12, <1>13, <1>14, <1>15 DEF r, bucket, chains

\* Walking the chains is the stable sort by the buckets.
LEMMA IteratedIs ==
    ASSUME NEW items \in Seq(SetValues), NEW c \in Sizes
    PROVE  Iterated(PlacedIn(items, c)) = HashOrderIn(items, c)
<1> DEFINE t == PlacedIn(items, c)
           D == DOMAIN items
           n == Len(items)
           bucket(i) == BucketOf(items[i], c)
           r(i) == Along(items, c, i)
           below == {p \in PairsOf(items) : BucketOf(items[p[1]], c) < BucketOf(items[p[2]], c)}
           R == Stably(D, below)
           at == Ranked(D, R)
           S == Places(t)
           F == [k \in 1 .. n |-> <<bucket(at[k]), r(at[k])>>]
<1>1. /\ DOMAIN t.chains = 0 .. c - 1
      /\ \A i \in D : bucket(i) \in 0 .. c - 1 /\ r(i) \in DOMAIN t.chains[bucket(i)] /\ t.chains[bucket(i)][r(i)] = items[i]
      /\ \A b \in 0 .. c - 1 : DOMAIN t.chains[b] \subseteq Nat
      /\ \A b \in 0 .. c - 1 : \A k \in DOMAIN t.chains[b] : \E i \in D : bucket(i) = b /\ r(i) = k
      /\ \A i, j \in D : (bucket(i) = bucket(j) /\ i < j) => r(i) < r(j)
  BY ChainIs
<1>2. n \in Nat /\ D = 1 .. n
  BY LenProperties
<1> HIDE DEF r, bucket, t
<1>3. \A i, j \in D : <<i, j>> \in below <=> bucket(i) < bucket(j)
  BY DEF PairsOf, bucket
<1>4. Weak(D, below)
  <2> HIDE DEF below, D
  <2>1. \A i \in D : bucket(i) \in Int
    BY <1>1
  <2> QED BY <1>3, <2>1 DEF Weak
<1>5. Lists(at, n, D, R) /\ SortedBy(items, below) = Through(items, at, n)
  <2> HIDE DEF below
  <2> QED BY <1>4, SortedIs
<1>6. \A i, j \in D : <<i, j>> \in R => bucket(i) < bucket(j) \/ (bucket(i) = bucket(j) /\ i < j)
  <2>1. \A i \in D : bucket(i) \in Int
    BY <1>1
  <2>2. \A i, j \in D : <<i, j>> \in R => <<i, j>> \in below \/ (<<j, i>> \notin below /\ i < j)
    BY DEF Stably
  <2> HIDE DEF below, R, D
  <2> SUFFICES ASSUME NEW i \in D, NEW j \in D, <<i, j>> \in R
               PROVE  bucket(i) < bucket(j) \/ (bucket(i) = bucket(j) /\ i < j)
    OBVIOUS
  <2>3. bucket(i) \in Int /\ bucket(j) \in Int
    BY <2>1
  <2>4. bucket(i) < bucket(j) \/ (~(bucket(j) < bucket(i)) /\ i < j)
    BY <1>3, <2>2
  <2> QED BY <2>3, <2>4
<1> HIDE DEF below, R, at
<1>7. /\ \A k \in 1 .. n : at[k] \in D
      /\ \A k, m \in 1 .. n : k < m => <<at[k], at[m]>> \in R
      /\ \A i \in D : \E k \in 1 .. n : at[k] = i
  BY <1>5 DEF Lists
<1> HIDE DEF D, n
<1>8. \A b, k : <<b, k>> \in S <=> b \in 0 .. c - 1 /\ k \in DOMAIN t.chains[b]
  BY <1>1 DEF Places
<1>9. \A p \in S : \E b \in 0 .. c - 1 : \E k \in DOMAIN t.chains[b] : p = <<b, k>>
  BY <1>1 DEF Places
<1>10. S \in SUBSET (Nat \X Nat)
  <2>1. 0 .. c - 1 \subseteq Nat
    BY DEF Sizes
  <2> HIDE DEF S
  <2> QED BY <1>1, <1>9, <2>1
<1> HIDE DEF S
<1>11. F \in [1 .. n -> S]
  <2>1. \A k \in 1 .. n : <<bucket(at[k]), r(at[k])>> \in S
    BY <1>1, <1>7, <1>8
  <2> QED BY <2>1
<1>12. /\ \A p, q \in S : <<p, q>> \in Chainwise(S) <=> p[1] < q[1] \/ (p[1] = q[1] /\ p[2] < q[2])
       /\ Lines(S, Chainwise(S))
  BY <1>10, ChainwiseLines
<1>13. ASSUME NEW k \in 1 .. n, NEW m \in 1 .. n, k < m PROVE <<F[k], F[m]>> \in Chainwise(S)
  <2>1. at[k] \in D /\ at[m] \in D /\ <<at[k], at[m]>> \in R
    BY <1>7, <1>13
  <2>2. bucket(at[k]) < bucket(at[m]) \/ (bucket(at[k]) = bucket(at[m]) /\ r(at[k]) < r(at[m]))
    BY <1>1, <1>6, <2>1
  <2>3. F[k] \in S /\ F[m] \in S
    <3> HIDE DEF F
    <3> QED BY <1>11
  <2>4. F[k][1] = bucket(at[k]) /\ F[k][2] = r(at[k]) /\ F[m][1] = bucket(at[m]) /\ F[m][2] = r(at[m])
    OBVIOUS
  <2> HIDE DEF F
  <2> QED BY <1>12, <2>2, <2>3, <2>4
<1>14. ASSUME NEW p \in S PROVE \E k \in 1 .. n : F[k] = p
  <2>1. PICK b \in 0 .. c - 1 : \E k \in DOMAIN t.chains[b] : p = <<b, k>>
    BY <1>9
  <2>2. PICK k \in DOMAIN t.chains[b] : p = <<b, k>>
    BY <2>1
  <2>3. PICK i \in D : bucket(i) = b /\ r(i) = k
    BY <1>1
  <2>4. PICK m \in 1 .. n : at[m] = i
    BY <1>7
  <2> QED BY <2>2, <2>3, <2>4
<1>15. F = Ranked(S, Chainwise(S))
  <2>1. Lists(F, n, S, Chainwise(S))
    <3> HIDE DEF F
    <3> QED BY <1>2, <1>11, <1>13, <1>14 DEF Lists
  <2> HIDE DEF F
  <2> QED BY <1>12, <2>1, RankedOnly
<1>16. Iterated(t) = [k \in 1 .. n |-> t.chains[F[k][1]][F[k][2]]]
  <2>1. DOMAIN F = 1 .. n
    OBVIOUS
  <2> HIDE DEF F
  <2> QED BY <1>15, <2>1 DEF Iterated, S
<1>17. \A k \in 1 .. n : t.chains[F[k][1]][F[k][2]] = items[at[k]]
  BY <1>1, <1>7
<1>18. Iterated(t) = Through(items, at, n)
  <2> HIDE DEF F
  <2> QED BY <1>16, <1>17 DEF Through
<1> QED BY <1>5, <1>18 DEF HashOrderIn, t, below

-----------------------------------------------------------------------------
\* The values a set of a kind is given, and what tells two of them apart.
GivenTo(kind) == {v \in SetValues : kind.impl \in {"tree", "treeby"} => v \in Comparables}
Distinct(kind, s) == IF kind.impl = "treeby" THEN ComparedApart(s) ELSE Apart(s, EqOf(kind))

\* The inductive invariant: the elements are values the set is given, no two
\* of them one; the index is the one over them; the table of a set nothing
\* was removed from is theirs.
StateOf(kind, items, index, tab, gone) ==
    /\ kind \in Kinds
    /\ items \in Seq(GivenTo(kind)) /\ Distinct(kind, items)
    /\ index = BuildIndex(items, EqOf(kind))
    /\ (kind.impl = "hash" /\ ~gone) => tab = Laid(items, kind.req)
SInv == StateOf(setKind, setItems, setIndex, table, removed)

\* A list of members of a set is a list of those of a larger one.
LEMMA SeqWider ==
    ASSUME NEW A, NEW B, A \subseteq B, NEW s \in Seq(A)
    PROVE  s \in Seq(B)
OBVIOUS

\* What comes from a list holds its values, and no two that are one.
LEMMA FromDistinct ==
    ASSUME NEW V, NEW G, NEW s \in Seq(G), NEW t \in Seq(V), From(t, s)
    PROVE  /\ t \in Seq(G)
           /\ \A kind : Distinct(kind, s) => Distinct(kind, t)
<1>1. PICK f \in [DOMAIN t -> DOMAIN s] :
         /\ \A k, m \in DOMAIN t : k # m => f[k] # f[m]
         /\ \A k \in DOMAIN t : t[k] = s[f[k]]
  BY DEF From
<1>2. /\ Len(t) \in Nat /\ DOMAIN t = 1 .. Len(t) /\ t \in [1 .. Len(t) -> V]
      /\ Len(s) \in Nat /\ DOMAIN s = 1 .. Len(s) /\ \A i \in DOMAIN s : s[i] \in G
  BY LenProperties
<1>3. t \in Seq(G)
  <2>1. \A k \in 1 .. Len(t) : t[k] \in G
    BY <1>1, <1>2
  <2>2. t = [k \in 1 .. Len(t) |-> t[k]]
    BY <1>2
  <2>3. [k \in 1 .. Len(t) |-> t[k]] \in Seq(G)
    BY <1>2, <2>1, IsASeq
  <2> QED BY <2>2, <2>3
<1>4. ComparedApart(s) => ComparedApart(t)
  BY <1>1 DEF ComparedApart
<1>5. ASSUME NEW eq, Apart(s, eq) PROVE Apart(t, eq)
  <2>1. \A i, j \in DOMAIN s : i # j => ~EqualUnder(eq, s[i], s[j])
    BY <1>2, <1>5 DEF Apart, ApartTo
  <2>2. \A i, j \in DOMAIN t : i # j => ~EqualUnder(eq, t[i], t[j])
    BY <1>1, <2>1
  <2> QED BY <2>2 DEF Apart, ApartTo
<1> QED BY <1>3, <1>4, <1>5 DEF Distinct

\* What a kind of set is given, and the equality it goes by.
LEMMA KindIs ==
    ASSUME NEW kind \in Kinds
    PROVE  /\ kind.impl \in {"linked", "hash", "tree", "treeby"} /\ kind.req \in Nat
           /\ EqOf(kind) \in SetEqs /\ GivenTo(kind) \subseteq SetValues
           /\ kind.impl = "treeby" => GivenTo(kind) = Ordered
           /\ kind.impl = "tree" => EqOf(kind) = "groovy"
BY DEF Kinds, EqOf, SetEqs, GivenTo, Ordered

\* A set presents its elements, each once, in the order of its kind.
LEMMA PresentedIs ==
    ASSUME NEW kind \in Kinds, NEW items \in Seq(GivenTo(kind)), Distinct(kind, items)
    PROVE  LET shown == SetElements(items, kind)
           IN  /\ shown \in Seq(GivenTo(kind)) /\ From(shown, items)
               /\ Len(shown) = Len(items) /\ ToSet(shown) = ToSet(items)
               /\ kind.impl = "tree" => \A i \in 1 .. Len(shown) - 1 : OrderOf(shown[i], shown[i + 1]) < 0
               /\ kind.impl = "treeby" => \A i \in 1 .. Len(shown) - 1 : ComparatorOrder(shown[i], shown[i + 1]) < 0
<1> DEFINE shown == SetElements(items, kind)
           G == GivenTo(kind)
           Plainly == shown \in Seq(G) /\ From(shown, items) /\ Len(shown) = Len(items) /\ ToSet(shown) = ToSet(items)
           Follows(i, below) ==
               \E j \in DOMAIN items, k \in DOMAIN items :
                  /\ shown[i] = items[j] /\ shown[i + 1] = items[k]
                  /\ <<j, k>> \in below \/ (<<k, j>> \notin below /\ j # k)
<1>1. /\ Len(items) \in Nat /\ DOMAIN items = 1 .. Len(items) /\ \A i \in DOMAIN items : items[i] \in G
      /\ items \in Seq(SetValues)
  <2>1. Len(items) \in Nat /\ DOMAIN items = 1 .. Len(items) /\ \A i \in DOMAIN items : items[i] \in G
    BY LenProperties
  <2> HIDE DEF G
  <2>2. G \subseteq SetValues
    BY KindIs DEF G
  <2> QED BY <2>1, <2>2, SeqWider DEF G
<1>2. ASSUME NEW below, Weak(DOMAIN items, below), shown = SortedBy(items, below)
      PROVE  Plainly /\ \A i \in 1 .. Len(shown) - 1 : Follows(i, below)
  <2> DEFINE R == Stably(DOMAIN items, below)
             at == Ranked(DOMAIN items, R)
  <2>1. /\ Lists(at, Len(items), DOMAIN items, R)
        /\ shown = Through(items, at, Len(items))
        /\ shown \in Seq(G) /\ Len(shown) = Len(items)
        /\ ToSet(shown) = ToSet(items) /\ From(shown, items)
    <3> HIDE DEF shown, G
    <3> QED BY <1>2, SortedIs DEF G
  <2> HIDE DEF shown, at, G
  <2>2. ASSUME NEW i \in 1 .. Len(shown) - 1
        PROVE  Follows(i, below)
    <3>1. i \in 1 .. Len(items) /\ i + 1 \in 1 .. Len(items) /\ i < i + 1
      BY <1>1, <2>1
    <3>2. at[i] \in DOMAIN items /\ at[i + 1] \in DOMAIN items /\ <<at[i], at[i + 1]>> \in R
      BY <2>1, <3>1 DEF Lists
    <3>3. shown[i] = items[at[i]] /\ shown[i + 1] = items[at[i + 1]]
      BY <2>1, <3>1 DEF Through
    <3>4. <<at[i], at[i + 1]>> \in below \/ (<<at[i + 1], at[i]>> \notin below /\ at[i] < at[i + 1])
      BY <3>2 DEF Stably
    <3>5. at[i] < at[i + 1] => at[i] # at[i + 1]
      BY <1>1, <3>2
    <3> QED BY <3>2, <3>3, <3>4, <3>5
  <2> QED BY <2>1, <2>2
<1>3. CASE kind.impl = "linked"
  <2>1. shown = items
    BY <1>3 DEF SetElements
  <2>2. From(items, items)
    <3> DEFINE f == [k \in DOMAIN items |-> k]
    <3>1. f \in [DOMAIN items -> DOMAIN items] /\ \A k, m \in DOMAIN items : k # m => f[k] # f[m]
      OBVIOUS
    <3>2. \A k \in DOMAIN items : items[k] = items[f[k]]
      OBVIOUS
    <3> HIDE DEF f
    <3> QED BY <3>1, <3>2 DEF From
  <2> HIDE DEF shown
  <2> QED BY <1>3, <2>1, <2>2 DEF shown
<1>4. CASE kind.impl = "hash"
  <2> DEFINE c == Doubled(Len(items), TableSizeFor(kind.req))
             below == {p \in PairsOf(items) : BucketOf(items[p[1]], c) < BucketOf(items[p[2]], c)}
  <2>1. shown = SortedBy(items, below)
    BY <1>4 DEF SetElements, HashOrder, HashOrderIn
  <2>2. c \in Sizes
    BY <1>1, KindIs, DoubledIs
  <2> HIDE DEF c
  <2>3. \A i \in DOMAIN items : BucketOf(items[i], c) \in 0 .. c - 1
    <3>1. \A i \in DOMAIN items : items[i] \in SetValues
      BY <1>1, KindIs
    <3> QED BY <2>2, <3>1, BucketHalves
  <2>4. \A i, j \in DOMAIN items : <<i, j>> \in below <=> BucketOf(items[i], c) < BucketOf(items[j], c)
    BY DEF PairsOf
  <2> HIDE DEF below
  <2>5. Weak(DOMAIN items, below)
    <3>1. \A i \in DOMAIN items : BucketOf(items[i], c) \in Int
      BY <2>3
    <3> QED BY <2>4, <3>1 DEF Weak
  <2>6. Plainly
    <3> HIDE DEF shown
    <3> QED BY <1>2, <2>1, <2>5
  <2> HIDE DEF shown
  <2> QED BY <1>4, <2>6 DEF shown
<1>5. CASE kind.impl = "tree"
  <2> DEFINE below == {p \in PairsOf(items) : OrderOf(items[p[1]], items[p[2]]) < 0}
  <2>1. shown = SortedBy(items, below)
    BY <1>5 DEF SetElements
  <2>2. \A i, j \in DOMAIN items : <<i, j>> \in below <=> OrderOf(items[i], items[j]) < 0
    BY DEF PairsOf
  <2> HIDE DEF below, shown
  <2>3. \A i \in DOMAIN items : items[i] \in Comparables
    BY <1>1, <1>5 DEF GivenTo
  <2>4. Weak(DOMAIN items, below)
    BY <2>2, <2>3, OrderAssumption DEF Weak
  <2>5. \A j, k \in DOMAIN items : <<j, k>> \notin below /\ <<k, j>> \notin below => j = k
    <3>1. \A j, k \in DOMAIN items : j # k => ~EqualUnder("groovy", items[j], items[k])
      BY <1>1, <1>5, KindIs DEF Distinct, Apart, ApartTo
    <3> QED BY <2>2, <2>3, <3>1, OrderAssumption
  <2>6. Plainly /\ \A i \in 1 .. Len(shown) - 1 : OrderOf(shown[i], shown[i + 1]) < 0
    <3>1. ASSUME NEW i \in 1 .. Len(shown) - 1 PROVE OrderOf(shown[i], shown[i + 1]) < 0
      <4>1. PICK j \in DOMAIN items, k \in DOMAIN items :
               /\ shown[i] = items[j] /\ shown[i + 1] = items[k]
               /\ <<j, k>> \in below \/ (<<k, j>> \notin below /\ j # k)
        <5>1. Follows(i, below)
          <6> HIDE DEF Follows, Plainly
          <6> QED BY <1>2, <2>1, <2>4
        <5> QED BY <5>1
      <4>2. <<j, k>> \in below
        BY <2>5, <4>1
      <4> QED BY <2>2, <4>1, <4>2
    <3> QED BY <1>2, <2>1, <2>4, <3>1
  <2> QED BY <1>5, <2>6 DEF shown
<1>6. CASE kind.impl = "treeby"
  <2> DEFINE below == {p \in PairsOf(items) : ComparatorOrder(items[p[1]], items[p[2]]) < 0}
  <2>1. shown = SortedBy(items, below)
    BY <1>6 DEF SetElements
  <2>2. \A i, j \in DOMAIN items : <<i, j>> \in below <=> ComparatorOrder(items[i], items[j]) < 0
    BY DEF PairsOf
  <2> HIDE DEF below, shown
  <2>3. \A i \in DOMAIN items : ComparatorKey(items[i]) \in Int
    BY <1>1, <1>6, OrderAssumption DEF GivenTo
  <2>4. Weak(DOMAIN items, below)
    <3>1. ASSUME NEW i \in DOMAIN items, NEW j \in DOMAIN items
          PROVE  <<i, j>> \in below <=> ComparatorKey(items[i]) < ComparatorKey(items[j])
      <4>1. <<i, j>> \in below <=> ComparatorKey(items[i]) - ComparatorKey(items[j]) < 0
        BY <2>2 DEF ComparatorOrder
      <4>2. ComparatorKey(items[i]) \in Int /\ ComparatorKey(items[j]) \in Int
        BY <2>3
      <4> QED BY <4>1, <4>2
    <3> QED BY <2>3, <3>1 DEF Weak
  <2>5. \A j, k \in DOMAIN items : <<j, k>> \notin below /\ <<k, j>> \notin below => j = k
    <3>1. \A j, k \in DOMAIN items : j # k => ComparatorOrder(items[j], items[k]) # 0
      BY <1>6 DEF Distinct, ComparedApart
    <3> QED BY <2>2, <2>3, <3>1 DEF ComparatorOrder
  <2>6. Plainly /\ \A i \in 1 .. Len(shown) - 1 : ComparatorOrder(shown[i], shown[i + 1]) < 0
    <3>1. ASSUME NEW i \in 1 .. Len(shown) - 1 PROVE ComparatorOrder(shown[i], shown[i + 1]) < 0
      <4>1. PICK j \in DOMAIN items, k \in DOMAIN items :
               /\ shown[i] = items[j] /\ shown[i + 1] = items[k]
               /\ <<j, k>> \in below \/ (<<k, j>> \notin below /\ j # k)
        <5>1. Follows(i, below)
          <6> HIDE DEF Follows, Plainly
          <6> QED BY <1>2, <2>1, <2>4
        <5> QED BY <5>1
      <4>2. <<j, k>> \in below
        BY <2>5, <4>1
      <4> QED BY <2>2, <4>1, <4>2
    <3> QED BY <1>2, <2>1, <2>4, <3>1
  <2> QED BY <1>6, <2>6 DEF shown
<1> HIDE DEF shown
<1>7. kind.impl \in {"linked", "hash", "tree", "treeby"}
  BY KindIs
<1> QED BY <1>3, <1>4, <1>5, <1>6, <1>7 DEF shown

-----------------------------------------------------------------------------
\* What SInv says, for the set of the current state.
LEMMA SInvSays ==
    ASSUME SInv
    PROVE  /\ setKind \in Kinds /\ EqOf(setKind) \in SetEqs /\ Given = GivenTo(setKind)
           /\ setItems \in Seq(Given) /\ setItems \in Seq(SetValues) /\ Distinct(setKind, setItems)
           /\ setIndex = BuildIndex(setItems, EqOf(setKind))
           /\ Len(setItems) \in Nat /\ DOMAIN setItems = 1 .. Len(setItems)
           /\ \A i \in DOMAIN setItems : setItems[i] \in Given /\ setItems[i] \in SetValues
<1>1. setKind \in Kinds /\ setItems \in Seq(GivenTo(setKind))
  BY DEF SInv, StateOf
<1>2. GivenTo(setKind) \subseteq SetValues /\ EqOf(setKind) \in SetEqs
  BY <1>1, KindIs
<1>3. Given = GivenTo(setKind)
  BY DEF Given, GivenTo
<1>4. setItems \in Seq(SetValues)
  BY <1>1, <1>2, SeqWider
<1>5. Len(setItems) \in Nat /\ DOMAIN setItems = 1 .. Len(setItems) /\ \A i \in DOMAIN setItems : setItems[i] \in GivenTo(setKind)
  BY <1>1, LenProperties
<1> QED BY <1>1, <1>2, <1>3, <1>4, <1>5 DEF SInv, StateOf

\* A set finds what a scan of its elements finds.
LEMMA MemberIs ==
    ASSUME SInv, NEW v \in Given
    PROVE  IsMember(v) <=> \E i \in DOMAIN setItems : OneElement(setItems[i], v)
<1>1. CASE setKind.impl = "treeby"
  BY <1>1 DEF IsMember, OneElement, Position
<1>2. CASE setKind.impl # "treeby"
  <2>1. v \in SetValues
    BY DEF Given
  <2>2. Has(setItems, EqOf(setKind), v) <=> \E i \in DOMAIN setItems : EqualUnder(EqOf(setKind), setItems[i], v)
    BY <2>1, SInvSays, IndexFinds
  <2>3. IsMember(v) <=> Has(setItems, EqOf(setKind), v)
    BY <1>2, SInvSays DEF IsMember, Has
  <2> QED BY <1>2, <2>2, <2>3 DEF OneElement, Same
<1> QED BY <1>1, <1>2

\* Of an element that is one with none, the index and the table are told.
LEMMA AddKeepsSInv ==
    ASSUME SInv, NEW via \in {"set", "view"}, NEW v \in Given, AddTo(via, v)
    PROVE  SInv'
<1> DEFINE kind == setKind
           items == setItems
           more == Append(setItems, v)
<1>1. /\ setKind' = setKind /\ removed' = removed
      /\ \/ UNCHANGED <<setItems, setIndex, table>>
         \/ ~IsMember(v) /\ SetPush(via, v)
  BY DEF AddTo, Counted
<1>2. CASE UNCHANGED <<setItems, setIndex, table>>
  BY <1>1, <1>2 DEF SInv, StateOf
<1>3. CASE ~Writable(via) /\ SetPush(via, v)
  BY <1>1, <1>3 DEF SInv, StateOf, SetPush
<1>4. CASE ~IsMember(v) /\ Writable(via) /\ SetPush(via, v)
  <2>1. v \in SetValues
    BY DEF Given
  <2>2. /\ setItems' = more
        /\ setIndex' = Recorded(setIndex, KeyUnder(EqOf(setKind), v), Len(setItems) + 1)
        /\ table' = Put(table, v)
    BY <1>4 DEF SetPush
  <2>3. setIndex' = BuildIndex(more, EqOf(setKind))
    BY <2>1, <2>2, SInvSays, RecordedIs
  <2>4. more \in Seq(Given)
    BY SInvSays, AppendProperties
  <2>5. /\ DOMAIN more = 1 .. Len(setItems) + 1 /\ more[Len(setItems) + 1] = v
        /\ \A i \in 1 .. Len(setItems) : more[i] = setItems[i]
    BY <2>4, SInvSays, AppendProperties, LenProperties
  <2>6. \A i \in 1 .. Len(setItems) : ~OneElement(setItems[i], v)
    BY <1>4, SInvSays, MemberIs
  <2>7. \A k \in 1 .. Len(setItems) + 1 : k \in 1 .. Len(setItems) \/ k = Len(setItems) + 1
    BY SInvSays
  <2> HIDE DEF more
  <2>8. Distinct(setKind, more)
    <3>1. CASE setKind.impl = "treeby"
      <4>1. \A x \in Given : ComparatorKey(x) \in Int
        BY <3>1, OrderAssumption DEF Given
      <4>2. \A i \in 1 .. Len(setItems) : ComparatorOrder(setItems[i], v) # 0 /\ ComparatorOrder(v, setItems[i]) # 0
        <5>1. ASSUME NEW i \in 1 .. Len(setItems)
              PROVE  ComparatorOrder(setItems[i], v) # 0 /\ ComparatorOrder(v, setItems[i]) # 0
          <6>1. ComparatorKey(setItems[i]) \in Int /\ ComparatorKey(v) \in Int
            BY <4>1, SInvSays
          <6>2. ComparatorOrder(setItems[i], v) # 0
            BY <2>6, <3>1 DEF OneElement
          <6> QED BY <6>1, <6>2 DEF ComparatorOrder
        <5> QED BY <5>1
      <4>3. \A i, j \in DOMAIN setItems : i # j => ComparatorOrder(setItems[i], setItems[j]) # 0
        BY <3>1, SInvSays DEF Distinct, ComparedApart
      <4>4. ASSUME NEW i \in DOMAIN more, NEW j \in DOMAIN more, i # j PROVE ComparatorOrder(more[i], more[j]) # 0
        BY <2>5, <2>7, <4>2, <4>3, <4>4, SInvSays
      <4> QED BY <3>1, <4>4 DEF Distinct, ComparedApart
    <3>2. CASE setKind.impl # "treeby"
      <4>1. \A i \in 1 .. Len(setItems) : ~EqualUnder(EqOf(setKind), setItems[i], v) /\ ~EqualUnder(EqOf(setKind), v, setItems[i])
        BY <2>1, <2>6, <3>2, SInvSays, EqualityAssumption DEF OneElement, Same
      <4>2. \A i, j \in DOMAIN setItems : i # j => ~EqualUnder(EqOf(setKind), setItems[i], setItems[j])
        BY <3>2, SInvSays DEF Distinct, Apart, ApartTo
      <4>3. ASSUME NEW i \in DOMAIN more, NEW j \in DOMAIN more, i # j PROVE ~EqualUnder(EqOf(setKind), more[i], more[j])
        BY <2>5, <2>7, <4>1, <4>2, <4>3, SInvSays
      <4> QED BY <3>2, <4>3 DEF Distinct, Apart, ApartTo
    <3> QED BY <3>1, <3>2
  <2>9. (setKind.impl = "hash" /\ ~removed) => Put(table, v) = Laid(more, setKind.req)
    <3> SUFFICES ASSUME setKind.impl = "hash", ~removed PROVE Put(table, v) = Laid(more, setKind.req)
      OBVIOUS
    <3>1. table = Laid(setItems, setKind.req)
      BY DEF SInv, StateOf
    <3>2. setKind.req \in Nat
      BY SInvSays, KindIs
    <3> QED BY <2>1, <3>1, <3>2, SInvSays, PutIs DEF more
  <2> QED BY <1>1, <2>2, <2>3, <2>4, <2>8, <2>9, SInvSays DEF SInv, StateOf
<1> QED BY <1>1, <1>2, <1>3, <1>4

\* What is left of the elements is stored, and the table knows nothing was
\* removed from it while all of them are left.
LEMMA StoreKeepsSInv ==
    ASSUME SInv, NEW via, NEW kept \in Seq(Given), Distinct(setKind, kept),
           setKind.impl = "hash" => Len(kept) < Len(setItems) \/ kept = setItems,
           setKind' = setKind, Store(via, kept), Shrinks(via, kept)
    PROVE  SInv'
<1>1. CASE ~Writable(via)
  BY <1>1 DEF SInv, StateOf, Store, Shrinks, StoreIndex
<1>2. CASE Writable(via)
  <2>1. setItems' = kept /\ setIndex' = BuildIndex(kept, EqOf(setKind))
    BY <1>2 DEF Store, StoreIndex
  <2>2. (setKind.impl = "hash" /\ ~removed') => table' = table /\ kept = setItems /\ ~removed
    BY <1>2 DEF Shrinks
  <2> QED BY <2>1, <2>2, SInvSays DEF SInv, StateOf
<1> QED BY <1>1, <1>2

\* Removing one value, on the set or on a view.
LEMMA RemoveKeepsSInv ==
    ASSUME SInv, NEW via, NEW v \in Given, RemoveFrom(via, v)
    PROVE  SInv'
<1> DEFINE keep == Left(v)
           kept == Picked(setItems, keep)
<1>1. /\ setKind' = setKind
      /\ \/ UNCHANGED <<setItems, setIndex, table, removed>>
         \/ Store(via, kept) /\ Shrinks(via, kept)
  BY DEF RemoveFrom, Counted
<1>2. keep \in SUBSET (DOMAIN setItems)
  BY DEF Left
<1> HIDE DEF keep
<1>3. From(kept, setItems) /\ kept \in Seq(Given)
  BY <1>2, SInvSays, PickedFrom
<1>4. Distinct(setKind, kept)
  BY <1>3, SInvSays, FromDistinct
<1>5. Len(kept) < Len(setItems) \/ kept = setItems
  BY <1>2, SInvSays, PickedAsMany
<1>6. CASE UNCHANGED <<setItems, setIndex, table, removed>>
  BY <1>1, <1>6 DEF SInv, StateOf
<1>7. CASE Store(via, kept) /\ Shrinks(via, kept)
  <2> HIDE DEF kept
  <2> QED BY <1>1, <1>3, <1>4, <1>5, <1>7, StoreKeepsSInv
<1> QED BY <1>1, <1>6, <1>7

\* Removing all values.
LEMMA ClearKeepsSInv ==
    ASSUME SInv, NEW via, ClearSet(via)
    PROVE  SInv'
<1> DEFINE kept == <<>>
<1>1. setKind' = setKind /\ Store(via, kept) /\ Shrinks(via, kept)
  BY DEF ClearSet, Counted
<1>2. kept \in Seq(Given) /\ Len(kept) = 0 /\ DOMAIN kept = {}
  OBVIOUS
<1>3. Distinct(setKind, kept)
  BY <1>2 DEF Distinct, ComparedApart, Apart, ApartTo
<1>4. Len(kept) < Len(setItems) \/ kept = setItems
  BY SInvSays, EmptySeq
<1> HIDE DEF kept
<1> QED BY <1>1, <1>2, <1>3, <1>4, StoreKeepsSInv

\* Of distinct elements, none is dropped as a second one.
LEMMA DedupDistinct ==
    ASSUME NEW kind \in Kinds, NEW items \in Seq(GivenTo(kind)), kind.impl # "treeby", Distinct(kind, items)
    PROVE  Dedup(items, EqOf(kind)) = items
<1>1. GivenTo(kind) \subseteq SetValues /\ EqOf(kind) \in SetEqs
  BY KindIs
<1>2. items \in Seq(SetValues) /\ Len(items) \in 0 .. Len(items)
  BY <1>1, SeqWider, LenProperties
<1>3. ApartTo(items, EqOf(kind), Len(items))
  BY DEF Distinct, Apart
<1> QED BY <1>1, <1>2, <1>3, DedupIs

\* The elements of any list that a set keeps: they come from the list, and
\* none is one with another.
LEMMA DedupKeeps ==
    ASSUME NEW kind \in Kinds, NEW items \in Seq(GivenTo(kind)), kind.impl = "treeby" => Distinct(kind, items)
    PROVE  /\ Dedup(items, EqOf(kind)) \in Seq(GivenTo(kind)) /\ Distinct(kind, Dedup(items, EqOf(kind)))
           /\ Dedup(items, EqOf(kind)) \in Seq(SetValues)
<1> DEFINE D == Dedup(items, EqOf(kind))
<1>1. GivenTo(kind) \subseteq SetValues /\ EqOf(kind) \in SetEqs
  BY KindIs
<1>2. items \in Seq(SetValues) /\ 0 \in 0 .. Len(items)
  BY <1>1, SeqWider, LenProperties
<1>3. ApartTo(items, EqOf(kind), 0)
  <2>1. DOMAIN items \in SUBSET (Nat \ {0})
    BY LenProperties
  <2> QED BY <2>1 DEF ApartTo
<1>4. D \in Seq(SetValues) /\ Apart(D, EqOf(kind)) /\ From(D, items)
  BY <1>1, <1>2, <1>3, DedupIs
<1> HIDE DEF D
<1>5. D \in Seq(GivenTo(kind)) /\ (Distinct(kind, items) => Distinct(kind, D))
  BY <1>4, FromDistinct
<1> QED BY <1>4, <1>5 DEF Distinct, D

\* Adding all values of a list, those that are there already left out.
LEMMA AddAllKeepsSInv ==
    ASSUME SInv, NEW more \in SetArguments \cap Seq(Given), AddAllTo("set", more)
    PROVE  SInv'
<1> DEFINE eq == EqOf(setKind)
           all == setItems \o more
           added == IF setKind.impl = "treeby" THEN PushedBy(setItems, more) ELSE Dedup(all, eq)
<1>1. /\ setKind' = setKind /\ removed' = removed
      /\ Store("set", added) /\ table' = PutAll(table, Len(setItems), added)
  BY DEF AddAllTo, Counted, Writable
<1>2. setItems' = added /\ setIndex' = BuildIndex(added, eq)
  BY <1>1 DEF Store, StoreIndex, Writable
<1>3. /\ all \in Seq(Given) /\ Len(all) = Len(setItems) + Len(more) /\ Len(more) \in Nat
      /\ \A i \in 1 .. Len(setItems) : all[i] = setItems[i]
  BY SInvSays, ConcatProperties, LenProperties
<1> HIDE DEF all
<1>4. CASE setKind.impl = "treeby"
  <2>1. Given = Ordered
    BY <1>4, SInvSays, KindIs
  <2>2. ComparedApart(setItems)
    BY <1>4, SInvSays DEF Distinct
  <2>3. PushedBy(setItems, more) \in Seq(Ordered) /\ ComparedApart(PushedBy(setItems, more))
    BY <2>1, <2>2, SInvSays, PushedByIs
  <2>4. added \in Seq(Given) /\ Distinct(setKind, added)
    BY <1>4, <2>1, <2>3 DEF Distinct
  <2> HIDE DEF added
  <2> QED BY <1>1, <1>2, <1>4, <2>4, SInvSays DEF SInv, StateOf
<1>5. CASE setKind.impl # "treeby"
  <2> DEFINE D == Dedup(all, eq)
             n == Len(setItems)
  <2>1. added = D
    BY <1>5
  <2>2. D \in Seq(Given) /\ D \in Seq(SetValues) /\ Distinct(setKind, D)
    BY <1>3, <1>5, SInvSays, DedupKeeps
  <2>3. Len(D) >= n /\ \A i \in 1 .. n : D[i] = all[i]
    <3>1. n \in 0 .. Len(all)
      BY <1>3, SInvSays
    <3>2. all \in Seq(SetValues)
      BY <1>3, SInvSays, KindIs, SeqWider
    <3>3. ApartTo(all, eq, n)
      <4>1. \A i, j \in 1 .. n : i # j => ~EqualUnder(eq, setItems[i], setItems[j])
        BY <1>5, SInvSays DEF Distinct, Apart, ApartTo
      <4>2. \A i \in DOMAIN all : i <= n => i \in 1 .. n
        BY <1>3, SInvSays, LenProperties
      <4> QED BY <1>3, <4>1, <4>2 DEF ApartTo
    <3> HIDE DEF eq, n
    <3> QED BY <3>1, <3>2, <3>3, SInvSays, DedupIs DEF eq
  <2>4. SubSeq(D, 1, n) = setItems
    <3> HIDE DEF D
    <3>1. Len(D) \in Nat /\ DOMAIN D = 1 .. Len(D) /\ \A i \in 1 .. Len(D) : D[i] \in Given
      BY <2>2, LenProperties
    <3>2. \A i \in 1 .. n : D[i] \in Given
      BY <2>3, <3>1, SInvSays
    <3>3. n \in Int /\ n \in Nat
      BY SInvSays
    <3>4. /\ SubSeq(D, 1, n) \in Seq(Given) /\ Len(SubSeq(D, 1, n)) = IF 1 <= n THEN n - 1 + 1 ELSE 0
          /\ \A i \in 1 .. n - 1 + 1 : SubSeq(D, 1, n)[i] = D[1 + i - 1]
      BY <3>2, <3>3, SubSeqProperties
    <3>5. Len(SubSeq(D, 1, n)) = n /\ \A i \in 1 .. n : SubSeq(D, 1, n)[i] = setItems[i]
      <4>1. n - 1 + 1 = n /\ \A i \in 1 .. n : 1 + i - 1 = i
        BY <3>3
      <4>2. Len(SubSeq(D, 1, n)) = n
        BY <3>3, <3>4
      <4>3. ASSUME NEW i \in 1 .. n PROVE SubSeq(D, 1, n)[i] = setItems[i]
        <5>1. SubSeq(D, 1, n)[i] = D[i]
          BY <3>4, <4>1
        <5> QED BY <1>3, <2>3, <5>1
      <4> QED BY <4>2, <4>3
    <3> HIDE DEF n
    <3> QED BY <3>4, <3>5, SInvSays, SeqEqual DEF n
  <2>5. (setKind.impl = "hash" /\ ~removed) => PutAll(table, n, D) = Laid(D, setKind.req)
    <3> SUFFICES ASSUME setKind.impl = "hash", ~removed PROVE PutAll(table, n, D) = Laid(D, setKind.req)
      OBVIOUS
    <3>1. table = Laid(SubSeq(D, 1, n), setKind.req)
      BY <2>4 DEF SInv, StateOf
    <3>2. setKind.req \in Nat /\ n \in 0 .. Len(D)
      <4>1. Len(D) \in Nat
        BY <2>2, LenProperties
      <4> QED BY <2>3, <4>1, SInvSays, KindIs
    <3> HIDE DEF D, n
    <3> QED BY <2>2, <3>1, <3>2, PutAllIs
  <2> HIDE DEF D, added
  <2> QED BY <1>1, <1>2, <2>1, <2>2, <2>5, SInvSays DEF SInv, StateOf
<1> QED BY <1>4, <1>5

\* Removing all values of a list.
LEMMA RemoveAllKeepsSInv ==
    ASSUME SInv, NEW less \in SetArguments \cap Seq(Given), RemoveAllFrom("set", less)
    PROVE  SInv'
<1> DEFINE matched == DOMAIN setItems \ PositionsMatched(setItems, less)
           others == DOMAIN setItems \ PositionsHeld(setItems, EqOf(setKind), less)
           kept == IF setKind.impl = "treeby" THEN Picked(setItems, matched)
                   ELSE Dedup(Picked(setItems, others), EqOf(setKind))
<1>1. setKind' = setKind /\ Store("set", kept) /\ Shrinks("set", kept)
  BY DEF RemoveAllFrom, Counted
<1>2. ASSUME NEW keep \in SUBSET (DOMAIN setItems)
      PROVE  /\ Picked(setItems, keep) \in Seq(Given) /\ Distinct(setKind, Picked(setItems, keep))
             /\ Len(Picked(setItems, keep)) < Len(setItems) \/ Picked(setItems, keep) = setItems
  <2>1. From(Picked(setItems, keep), setItems) /\ Picked(setItems, keep) \in Seq(Given)
    BY SInvSays, PickedFrom
  <2> QED BY <2>1, SInvSays, FromDistinct, PickedAsMany
<1>3. \E keep \in SUBSET (DOMAIN setItems) : kept = Picked(setItems, keep)
  <2>1. CASE setKind.impl = "treeby"
    BY <2>1
  <2>2. CASE setKind.impl # "treeby"
    <3>1. others \in SUBSET (DOMAIN setItems)
      OBVIOUS
    <3> HIDE DEF others
    <3>2. Dedup(Picked(setItems, others), EqOf(setKind)) = Picked(setItems, others)
      BY <1>2, <2>2, <3>1, SInvSays, DedupDistinct
    <3> QED BY <2>2, <3>1, <3>2
  <2> QED BY <2>1, <2>2
<1> HIDE DEF kept
<1>4. kept \in Seq(Given) /\ Distinct(setKind, kept) /\ (Len(kept) < Len(setItems) \/ kept = setItems)
  BY <1>2, <1>3
<1> QED BY <1>1, <1>4, StoreKeepsSInv

\* Keeping the values of a list.
LEMMA RetainAllKeepsSInv ==
    ASSUME SInv, NEW those \in SetArguments \cap Seq(Given), RetainAllOf("set", those)
    PROVE  SInv'
<1> DEFINE held == PositionsHeld(setItems, EqOf(setKind), those)
           some == Picked(setItems, held)
           kept == Dedup(some, EqOf(setKind))
<1>1. setKind' = setKind /\ Store("set", kept) /\ Shrinks("set", kept)
  BY DEF RetainAllOf, Counted
<1>2. held \in SUBSET (DOMAIN setItems)
  BY DEF PositionsHeld
<1> HIDE DEF held
<1>3. From(some, setItems) /\ some \in Seq(Given)
  BY <1>2, SInvSays, PickedFrom
<1>4. Distinct(setKind, some) /\ (Len(some) < Len(setItems) \/ some = setItems)
  BY <1>2, <1>3, SInvSays, FromDistinct, PickedAsMany
<1> HIDE DEF some
<1>5. kept \in Seq(Given) /\ Distinct(setKind, kept)
  BY <1>3, <1>4, SInvSays, DedupKeeps
<1>6. setKind.impl # "treeby" => kept = some
  BY <1>3, <1>4, SInvSays, DedupDistinct
<1> HIDE DEF kept
<1> QED BY <1>1, <1>4, <1>5, <1>6, StoreKeepsSInv

\* A new set holds the elements it is made of, each once.
LEMMA MakeSetKeepsSInv ==
    ASSUME SInv, NEW items \in Seq(Given), setKind.impl = "treeby" => Distinct(setKind, items),
           setKind' = setKind, MakeSet(items)
    PROVE  SInv'
<1> DEFINE once == Dedup(items, EqOf(setKind))
           first == TableSizeFor(setKind.req)
<1>1. /\ setItems' = once /\ setIndex' = BuildIndex(once, EqOf(setKind))
      /\ table' = PutAll(TableOf(setKind.req), 0, once)
  BY DEF MakeSet
<1>2. once \in Seq(Given) /\ Distinct(setKind, once) /\ once \in Seq(SetValues)
  BY SInvSays, DedupKeeps
<1> HIDE DEF once
<1>3. setKind.req \in Nat /\ 0 \in 0 .. Len(once)
  BY <1>2, SInvSays, KindIs, LenProperties
<1>4. TableOf(setKind.req) = Laid(<<>>, setKind.req)
  <2>1. first \in Sizes
    BY <1>3, DoubledIs
  <2>2. Doubled(0, first) = first
    <3>1. ~Full(0, first)
      BY <2>1 DEF Full, Sizes
    <3> HIDE DEF first
    <3> QED BY <2>1, <3>1, DoubledIs
  <2> HIDE DEF first
  <2>3. \A b : Picked(<<>>, InBucket(<<>>, first, b)) = <<>>
    <3>1. \A b : InBucket(<<>>, first, b) = DOMAIN <<>>
      BY DEF InBucket
    <3> DEFINE none == <<>>
    <3>2. none \in Seq(SetValues)
      OBVIOUS
    <3>3. Picked(none, DOMAIN none) = none
      <4> HIDE DEF none
      <4> QED BY <3>2, PickedWhole
    <3> QED BY <3>1, <3>3
  <2>4. PlacedIn(<<>>, first) = [cap |-> first, size |-> 0, chains |-> [b \in 0 .. first - 1 |-> <<>>]]
    BY <2>3 DEF PlacedIn
  <2> QED BY <2>2, <2>4 DEF Laid, TableOf, first
<1>5. SubSeq(once, 1, 0) = <<>>
  BY SubSeqEmpty
<1>6. table' = Laid(once, setKind.req)
  BY <1>1, <1>2, <1>3, <1>4, <1>5, PutAllIs
<1> QED BY <1>1, <1>2, <1>6, SInvSays DEF SInv, StateOf

\* What a set presents, in a new set.
LEMMA PresentsItsOwn ==
    ASSUME SInv
    PROVE  /\ Presented \in Seq(Given) /\ Distinct(setKind, Presented)
           /\ \A keep \in SUBSET (DOMAIN Presented) :
                 Picked(Presented, keep) \in Seq(Given) /\ Distinct(setKind, Picked(Presented, keep))
<1>1. Presented \in Seq(Given) /\ From(Presented, setItems)
  BY SInvSays, PresentedIs DEF Presented
<1>2. Distinct(setKind, Presented)
  BY <1>1, SInvSays, FromDistinct
<1>3. ASSUME NEW keep \in SUBSET (DOMAIN Presented)
      PROVE  Picked(Presented, keep) \in Seq(Given) /\ Distinct(setKind, Picked(Presented, keep))
  <2>1. From(Picked(Presented, keep), Presented) /\ Picked(Presented, keep) \in Seq(Given)
    BY <1>1, PickedFrom
  <2> QED BY <1>1, <1>2, <2>1, FromDistinct
<1> QED BY <1>1, <1>2, <1>3

\* The operators: plus, minus and intersect answer a set of the same kind.
LEMMA OperatorsKeepSInv ==
    ASSUME SInv, NEW vs \in SetArguments \cap Seq(Given),
           PlusSet(vs) \/ MinusSet(vs) \/ IntersectSet(vs)
    PROVE  SInv'
<1>1. setKind' = setKind
  BY DEF PlusSet, MinusSet, IntersectSet, Counted
<1>2. CASE PlusSet(vs)
  <2> DEFINE items == IF setKind.impl = "treeby" THEN PushedBy(setItems, vs) ELSE Presented \o vs
  <2>1. MakeSet(items)
    BY <1>2 DEF PlusSet
  <2>2. CASE setKind.impl = "treeby"
    <3>1. Given = Ordered /\ ComparedApart(setItems)
      BY <2>2, SInvSays, KindIs DEF Distinct
    <3>2. PushedBy(setItems, vs) \in Seq(Ordered) /\ ComparedApart(PushedBy(setItems, vs))
      BY <3>1, SInvSays, PushedByIs
    <3>3. items \in Seq(Given) /\ Distinct(setKind, items)
      BY <2>2, <3>1, <3>2 DEF Distinct
    <3> HIDE DEF items
    <3> QED BY <1>1, <2>1, <3>3, MakeSetKeepsSInv
  <2>3. CASE setKind.impl # "treeby"
    <3>1. items \in Seq(Given)
      BY <2>3, PresentsItsOwn, ConcatProperties
    <3> HIDE DEF items
    <3> QED BY <1>1, <2>1, <2>3, <3>1, MakeSetKeepsSInv
  <2> QED BY <2>2, <2>3
<1>3. CASE MinusSet(vs)
  <2> DEFINE unmatched == DOMAIN setItems \ PositionsMatched(setItems, vs)
             others == DOMAIN Presented \ PositionsHeld(Presented, "groovy", vs)
             items == IF setKind.impl = "treeby" THEN Picked(setItems, unmatched) ELSE Picked(Presented, others)
  <2>1. MakeSet(items)
    BY <1>3 DEF MinusSet
  <2>2. unmatched \in SUBSET (DOMAIN setItems) /\ others \in SUBSET (DOMAIN Presented)
    OBVIOUS
  <2> HIDE DEF unmatched, others
  <2>3. From(Picked(setItems, unmatched), setItems) /\ Picked(setItems, unmatched) \in Seq(Given)
    BY <2>2, SInvSays, PickedFrom
  <2>4. Distinct(setKind, Picked(setItems, unmatched))
    BY <2>3, SInvSays, FromDistinct
  <2>5. items \in Seq(Given) /\ Distinct(setKind, items)
    BY <2>2, <2>3, <2>4, PresentsItsOwn
  <2> HIDE DEF items
  <2> QED BY <1>1, <2>1, <2>5, MakeSetKeepsSInv
<1>4. CASE IntersectSet(vs)
  <2> DEFINE both == PositionsHeld(Presented, "groovy", vs)
             items == Picked(Presented, both)
  <2>1. MakeSet(items)
    BY <1>4 DEF IntersectSet
  <2>2. both \in SUBSET (DOMAIN Presented)
    BY DEF PositionsHeld
  <2> HIDE DEF both
  <2>3. items \in Seq(Given) /\ Distinct(setKind, items)
    BY <2>2, PresentsItsOwn
  <2> HIDE DEF items
  <2> QED BY <1>1, <2>1, <2>3, MakeSetKeepsSInv
<1> QED BY <1>2, <1>3, <1>4

-----------------------------------------------------------------------------
\* A new set is empty, and its table too.
LEMMA InitHasSInv == SetInit => SInv
<1> SUFFICES ASSUME SetInit PROVE SInv
  OBVIOUS
<1> DEFINE none == <<>>
           first == TableSizeFor(setKind.req)
<1>1. setKind \in Kinds /\ setItems = none /\ setIndex = BuildIndex(none, EqOf(setKind)) /\ table = TableOf(setKind.req)
  BY SetsAssumption DEF SetInit
<1>2. none \in Seq(GivenTo(setKind)) /\ none \in Seq(SetValues) /\ Len(none) = 0 /\ DOMAIN none = {}
  OBVIOUS
<1> HIDE DEF none
<1>3. Distinct(setKind, none)
  BY <1>2 DEF Distinct, ComparedApart, Apart, ApartTo
<1>4. TableOf(setKind.req) = Laid(none, setKind.req)
  <2>1. first \in Sizes
    BY <1>1, KindIs, DoubledIs
  <2>2. Doubled(0, first) = first
    <3>1. ~Full(0, first)
      BY <2>1 DEF Full, Sizes
    <3> HIDE DEF first
    <3> QED BY <2>1, <3>1, DoubledIs
  <2> HIDE DEF first
  <2>3. \A b : Picked(none, InBucket(none, first, b)) = <<>>
    <3>1. \A b : InBucket(none, first, b) = DOMAIN none
      BY <1>2 DEF InBucket
    <3>2. Picked(none, DOMAIN none) = none
      BY <1>2, PickedWhole
    <3> QED BY <3>1, <3>2 DEF none
  <2>4. PlacedIn(none, first) = [cap |-> first, size |-> 0, chains |-> [b \in 0 .. first - 1 |-> <<>>]]
    BY <1>2, <2>3 DEF PlacedIn
  <2> QED BY <1>2, <2>2, <2>4 DEF Laid, TableOf, first
<1> QED BY <1>1, <1>2, <1>3, <1>4 DEF SInv, StateOf

\* Every call keeps the invariant.
LEMMA NextKeepsSInv == SInv /\ [SetNext]_setVars => SInv'
<1> SUFFICES ASSUME SInv, [SetNext]_setVars PROVE SInv'
  OBVIOUS
<1>1. CASE UNCHANGED setVars
  BY <1>1 DEF setVars, SInv, StateOf
<1>2. ASSUME NEW via \in {"set", "view"}, ClearSet(via) PROVE SInv'
  BY <1>2, ClearKeepsSInv
<1>3. ASSUME NEW via \in {"set", "view"}, NEW v \in Given, AddTo(via, v) PROVE SInv'
  BY <1>3, AddKeepsSInv
<1>4. ASSUME NEW via \in {"set", "view"}, NEW v \in Given, RemoveFrom(via, v) PROVE SInv'
  BY <1>4, RemoveKeepsSInv
<1>5. ASSUME NEW vs \in SetArguments \cap Seq(Given), AddAllTo("set", vs) PROVE SInv'
  BY <1>5, AddAllKeepsSInv
<1>6. ASSUME NEW vs \in SetArguments \cap Seq(Given), RemoveAllFrom("set", vs) PROVE SInv'
  BY <1>6, RemoveAllKeepsSInv
<1>7. ASSUME NEW vs \in SetArguments \cap Seq(Given), RetainAllOf("set", vs) PROVE SInv'
  BY <1>7, RetainAllKeepsSInv
<1>8. ASSUME NEW vs \in SetArguments \cap Seq(Given), PlusSet(vs) \/ MinusSet(vs) \/ IntersectSet(vs) PROVE SInv'
  BY <1>8, OperatorsKeepSInv
<1> QED BY <1>1, <1>2, <1>3, <1>4, <1>5, <1>6, <1>7, <1>8 DEF SetNext

\* After any calls the elements are distinct, the index is the one over them
\* and the table theirs.
THEOREM Invariant == SetSpec => []SInv
<1>1. SetInit => SInv
  BY InitHasSInv
<1>2. SInv /\ [SetNext]_setVars => SInv'
  BY NextKeepsSInv
<1> QED BY <1>1, <1>2, PTL DEF SetSpec

\* After any calls, on the set or on a view of it, a set finds exactly the
\* values a scan of its elements finds, holds no two elements that are one,
\* and its index names the positions of all of them: for any values whose
\* equal ones share a key.
THEOREM FindsAsAScan == SetSpec => []IndexFindsWhatAScanFinds
<1>1. SInv => IndexFindsWhatAScanFinds
  <2> SUFFICES ASSUME SInv PROVE IndexFindsWhatAScanFinds
    OBVIOUS
  <2>1. \A i, j \in DOMAIN setItems : i # j => ~OneElement(setItems[i], setItems[j])
    <3>1. CASE setKind.impl = "treeby"
      BY <3>1, SInvSays DEF Distinct, ComparedApart, OneElement
    <3>2. CASE setKind.impl # "treeby"
      BY <3>2, SInvSays DEF Distinct, Apart, ApartTo, OneElement, Same
    <3> QED BY <3>1, <3>2
  <2>2. ASSUME NEW v \in Given PROVE IsMember(v) = \E i \in DOMAIN setItems : OneElement(setItems[i], v)
    <3>1. IsMember(v) <=> \E i \in DOMAIN setItems : OneElement(setItems[i], v)
      BY MemberIs
    <3>2. IsMember(v) \in BOOLEAN
      BY DEF IsMember, IndexMember
    <3> HIDE DEF IsMember
    <3> QED BY <3>1, <3>2
  <2> DEFINE keys == {KeyUnder(EqOf(setKind), setItems[i]) : i \in DOMAIN setItems}
             at == [k \in keys |-> {i \in DOMAIN setItems : KeyUnder(EqOf(setKind), setItems[i]) = k}]
  <2>3. \/ setIndex = [on |-> FALSE, at |-> [k \in {} |-> {}]]
        \/ setIndex = [on |-> TRUE, at |-> at]
    BY SInvSays DEF BuildIndex, IndexOff, Index
  <2>4. \A k \in DOMAIN setIndex.at : \A i \in setIndex.at[k] : i \in DOMAIN setItems /\ KeyUnder(EqOf(setKind), setItems[i]) = k
    BY <2>3
  <2>5. setIndex.on => \A i \in DOMAIN setItems : \E k \in DOMAIN setIndex.at : i \in setIndex.at[k]
    BY <2>3
  <2> QED BY <2>1, <2>2, <2>4, <2>5 DEF IndexFindsWhatAScanFinds
<1>2. SetSpec => []SInv
  BY Invariant
<1> QED BY <1>1, <1>2, PTL

\* A set presents its elements once each, in the order of its kind: one
\* whose elements hash_order sorts by bucket, as java.util.HashMap's chains
\* hold them, whatever their hashes and however often the table was split.
THEOREM OrderedAlways == SetSpec => []OrderedAsJava
<1>1. SInv => OrderedAsJava
  <2> SUFFICES ASSUME SInv PROVE OrderedAsJava
    OBVIOUS
  <2>1. /\ Len(Presented) = Len(setItems) /\ ToSet(Presented) = ToSet(setItems)
        /\ setKind.impl = "tree" => \A i \in 1 .. Len(Presented) - 1 : OrderOf(Presented[i], Presented[i + 1]) < 0
        /\ setKind.impl = "treeby" => \A i \in 1 .. Len(Presented) - 1 : ComparatorOrder(Presented[i], Presented[i + 1]) < 0
    BY SInvSays, PresentedIs DEF Presented
  <2>2. ASSUME setKind.impl = "hash", ~removed PROVE Presented = Iterated(table)
    <3> DEFINE c == Doubled(Len(setItems), TableSizeFor(setKind.req))
    <3>1. c \in Sizes
      BY SInvSays, KindIs, DoubledIs
    <3>2. table = PlacedIn(setItems, c)
      BY <2>2 DEF SInv, StateOf, Laid
    <3>3. Presented = HashOrderIn(setItems, c)
      BY <2>2 DEF Presented, SetElements, HashOrder
    <3> HIDE DEF c
    <3> QED BY <3>1, <3>2, <3>3, SInvSays, IteratedIs
  <2> HIDE DEF Presented
  <2> QED BY <2>1, <2>2 DEF OrderedAsJava
<1>2. SetSpec => []SInv
  BY Invariant
<1> QED BY <1>1, <1>2, PTL
=============================================================================
