-------------------------- MODULE SessionFileProofs --------------------------
(***************************************************************************)
(* SessionFile for any number of processes and files, whatever files there  *)
(* are already and wherever writes are cut short: its types, that what was  *)
(* said is saved, that the files are the trees of SessionTree, and that a   *)
(* fork is the path it was made of.                                         *)
(***************************************************************************)
EXTENDS SessionFile, SequenceTheorems, FiniteSetTheorems, WellFoundedInduction, TLAPS

(* Of the failures of what is to be proved by induction, one is the least.  *)
LEMMA LeastFailure ==
  ASSUME NEW B \in SUBSET Nat, B # {}
  PROVE  \E m \in B : \A n \in B : m <= n
<1> DEFINE R == OpToRel(<, Nat)
<1>1. IsWellFoundedOn(R, Nat)
  BY NatLessThanWellFounded
<1>2. PICK x \in B : x \in Nat
  OBVIOUS
<1>3. PICK y \in B : \A z \in B : ~(<<z, y>> \in R)
  BY <1>1, <1>2, WFMin
<1>4. \A z, w \in Nat : z < w => <<z, w>> \in R
  BY DEF OpToRel
<1> HIDE DEF R
<1>5. \A z \in B : z \in Nat /\ ~(z < y)
  BY <1>3, <1>4
<1> QED
  BY <1>5

(* A set of numbers up to a bound has a greatest one.                       *)
LEMMA Greatest ==
  ASSUME NEW n \in Nat, NEW S \in SUBSET (0..n), S # {}
  PROVE  \E g \in S : \A i \in S : i <= g
<1> DEFINE B == {n - i : i \in S}
<1>1. B \in SUBSET Nat
  <2>1. \A i \in S : n - i \in Nat
    OBVIOUS
  <2> QED
    BY <2>1
<1>2. PICK e \in S : TRUE
  OBVIOUS
<1>3. n - e \in B
  BY <1>2
<1>4. B # {}
  BY <1>3
<1>5. PICK m \in B : \A k \in B : m <= k
  BY <1>1, <1>4, LeastFailure
<1>6. PICK x \in S : m = n - x
  BY <1>5
<1>7. \A i \in S : x >= i
  <2> SUFFICES ASSUME NEW i \in S PROVE x >= i
    OBVIOUS
  <2>1. m <= n - i
    BY <1>5
  <2> QED
    BY <1>6, <2>1
<1> QED
  BY <1>7

----------------------------------------------------------------------------
(* Picking from a sequence *)

(* The place of i among the positions at.                                   *)
Rank(at, i) == Cardinality({j \in at : j <= i})

(* Ranks grow with the positions.                                           *)
LEMMA RankGrows ==
  ASSUME NEW n \in Nat, NEW at \in SUBSET (1..n)
  PROVE  /\ IsFiniteSet(at) /\ Cardinality(at) \in Nat
         /\ \A i \in at : Rank(at, i) \in 1..Cardinality(at)
         /\ \A i, k \in at : i < k => Rank(at, i) < Rank(at, k)
<1>1. IsFiniteSet(at)
  <2>1. 1 \in Int /\ n \in Int
    OBVIOUS
  <2>2. IsFiniteSet(1..n)
    BY <2>1, FS_Interval
  <2> QED
    BY <2>2, FS_Subset
<1>2. \A i \in at : /\ {j \in at : j <= i} \in SUBSET at /\ {j \in at : j <= i} # {}
                    /\ \A k \in at : i < k => /\ {j \in at : j <= i} \in SUBSET {j \in at : j <= k}
                                              /\ k \in {j \in at : j <= k} /\ k \notin {j \in at : j <= i}
  <2>1. \A i \in at : i \in Nat
    OBVIOUS
  <2>2. ASSUME NEW i \in at PROVE {j \in at : j <= i} \in SUBSET at /\ i \in {j \in at : j <= i}
    BY <2>1
  <2>3. ASSUME NEW i \in at, NEW k \in at, i < k
        PROVE  /\ {j \in at : j <= i} \in SUBSET {j \in at : j <= k}
               /\ k \in {j \in at : j <= k} /\ k \notin {j \in at : j <= i}
    <3>1. i \in Nat /\ k \in Nat /\ k <= k /\ ~(k <= i)
      BY <2>1, <2>3
    <3>2. \A j \in at : j <= i => j <= k
      BY <2>1, <2>3
    <3> QED
      BY <3>1, <3>2
  <2> QED
    BY <2>2, <2>3
<1>3. \A i \in at : IsFiniteSet({j \in at : j <= i})
  BY <1>1, <1>2, FS_Subset
<1>4. \A S : IsFiniteSet(S) => Cardinality(S) \in Nat
  BY FS_CardinalityType
<1>5. ASSUME NEW i \in at PROVE Rank(at, i) \in 1..Cardinality(at)
  <2> DEFINE S == {j \in at : j <= i}
  <2>1. Cardinality(S) \in Nat /\ Cardinality(at) \in Nat
    BY <1>1, <1>3, <1>4
  <2>2. Cardinality(S) <= Cardinality(at)
    BY <1>1, <1>2, FS_Subset
  <2>3. Cardinality(S) # 0
    BY <1>2, <1>3, FS_EmptySet
  <2> HIDE DEF S
  <2>4. Cardinality(S) \in 1..Cardinality(at)
    BY <2>1, <2>2, <2>3
  <2> QED
    BY <2>4 DEF Rank, S
<1>6. ASSUME NEW i \in at, NEW k \in at, i < k PROVE Rank(at, i) < Rank(at, k)
  <2> DEFINE S == {j \in at : j <= i}
             T == {j \in at : j <= k}
  <2>1. IsFiniteSet(S) /\ IsFiniteSet(T) /\ S \in SUBSET T /\ k \in T /\ k \notin S
    BY <1>2, <1>3, <1>6
  <2>2. Cardinality(S) \in Nat /\ Cardinality(T) \in Nat
    BY <1>4, <2>1
  <2> HIDE DEF S, T
  <2>3. S # T
    BY <2>1
  <2>4. Cardinality(S) <= Cardinality(T) /\ Cardinality(S) # Cardinality(T)
    BY <2>1, <2>3, FS_Subset
  <2>5. Cardinality(S) < Cardinality(T)
    BY <2>2, <2>4
  <2> QED
    BY <2>5 DEF Rank, S, T
<1> QED
  BY <1>1, <1>4, <1>5, <1>6

(* What the last position adds.                                             *)
LEMMA RankMore ==
  ASSUME NEW n \in Nat, NEW at \in SUBSET (1..(n + 1)), n + 1 \in at
  PROVE  /\ Cardinality(at) = Cardinality(at \ {n + 1}) + 1
         /\ at \ {n + 1} \in SUBSET (1..n)
         /\ Rank(at, n + 1) = Cardinality(at)
         /\ \A i \in at \ {n + 1} : Rank(at, i) = Rank(at \ {n + 1}, i)
<1>1. IsFiniteSet(at) /\ Cardinality(at) \in Nat
  <2>1. n + 1 \in Nat
    OBVIOUS
  <2> QED
    BY <2>1, RankGrows
<1>2. Cardinality(at \ {n + 1}) = Cardinality(at) - 1
  BY <1>1, FS_RemoveElement
<1>3. {j \in at : j <= n + 1} = at
  <2>1. \A j \in at : j <= n + 1
    OBVIOUS
  <2> QED
    BY <2>1
<1>4. at \ {n + 1} \in SUBSET (1..n)
  OBVIOUS
<1>5. \A i \in at \ {n + 1} : {j \in at : j <= i} = {j \in at \ {n + 1} : j <= i}
  BY <1>4
<1>6. Cardinality(at) = Cardinality(at \ {n + 1}) + 1
  BY <1>1, <1>2
<1>7. Rank(at, n + 1) = Cardinality(at)
  BY <1>3 DEF Rank
<1>8. \A i \in at \ {n + 1} : Rank(at, i) = Rank(at \ {n + 1}, i)
  BY <1>5 DEF Rank
<1> QED
  BY <1>4, <1>6, <1>7, <1>8

(* Each place is taken.                                                     *)
LEMMA Ranked ==
  ASSUME NEW n \in Nat, NEW at \in SUBSET (1..n), NEW k \in 1..Cardinality(at)
  PROVE  \E i \in at : Rank(at, i) = k
<1> DEFINE B == {m \in Nat : \E S \in SUBSET (1..m) : \E c \in 1..Cardinality(S) :
                                \A i \in S : Rank(S, i) # c}
<1>1. ASSUME B = {} PROVE \E i \in at : Rank(at, i) = k
  <2>1. n \notin B
    BY <1>1
  <2> QED
    BY <2>1
<1> SUFFICES ASSUME B # {} PROVE FALSE
  BY <1>1
<1>2. PICK m \in B : \A l \in B : m <= l
  BY LeastFailure
<1>3. PICK S \in SUBSET (1..m) : \E c \in 1..Cardinality(S) : \A i \in S : Rank(S, i) # c
  BY <1>2
<1>4. PICK c \in 1..Cardinality(S) : \A i \in S : Rank(S, i) # c
  BY <1>3
<1>5. m \in Nat
  BY <1>2
<1>6. Cardinality(S) \in Nat /\ IsFiniteSet(S)
  BY <1>5, RankGrows
<1>7. m # 0
  <2>1. ASSUME m = 0 PROVE FALSE
    <3>1. S = {}
      BY <2>1
    <3>2. Cardinality(S) = 0
      BY <3>1, FS_EmptySet
    <3> QED
      BY <3>2
  <2> QED
    BY <2>1
<1>8. PICK l \in Nat : m = l + 1
  <2>1. m - 1 \in Nat /\ m = (m - 1) + 1
    BY <1>5, <1>7
  <2> QED
    BY <2>1
<1>9. l \notin B
  <2>1. ~(m <= l)
    BY <1>8
  <2> QED
    BY <1>2, <2>1
<1>10. \A U \in SUBSET (1..l) : \A d \in 1..Cardinality(U) : \E i \in U : Rank(U, i) = d
  BY <1>9
<1>11. CASE m \notin S
  <2>1. S \in SUBSET (1..l)
    BY <1>8, <1>11
  <2> QED
    BY <1>4, <1>10, <2>1
<1>12. CASE m \in S
  <2>1. /\ Cardinality(S) = Cardinality(S \ {m}) + 1 /\ S \ {m} \in SUBSET (1..l)
        /\ Rank(S, m) = Cardinality(S) /\ \A i \in S \ {m} : Rank(S, i) = Rank(S \ {m}, i)
    BY <1>8, <1>12, RankMore
  <2>2. c # Cardinality(S)
    BY <1>4, <1>12, <2>1
  <2>3. Cardinality(S \ {m}) \in Nat
    BY <2>1, RankGrows
  <2>4. c \in 1..Cardinality(S \ {m})
    BY <1>6, <2>1, <2>2, <2>3
  <2>5. PICK i \in S \ {m} : Rank(S \ {m}, i) = c
    BY <1>10, <2>1, <2>4
  <2> QED
    BY <1>4, <2>1, <2>5
<1> QED
  BY <1>11, <1>12

(* What is picked is at its place.                                          *)
LEMMA PickedIs ==
  ASSUME NEW T, NEW s \in Seq(T), NEW at \in SUBSET (1..Len(s))
  PROVE  /\ Picked(s, at) \in Seq(T) /\ Len(Picked(s, at)) = Cardinality(at)
         /\ IsFiniteSet(at) /\ Cardinality(at) \in Nat
         /\ \A i \in at : Rank(at, i) \in 1..Cardinality(at) /\ Picked(s, at)[Rank(at, i)] = s[i]
         /\ \A k \in 1..Cardinality(at) : \E i \in at : Rank(at, i) = k /\ Picked(s, at)[k] = s[i]
<1>1. Len(s) \in Nat /\ DOMAIN s = 1..Len(s) /\ \A i \in 1..Len(s) : s[i] \in T
  OBVIOUS
<1>2. /\ IsFiniteSet(at) /\ Cardinality(at) \in Nat
      /\ \A i \in at : Rank(at, i) \in 1..Cardinality(at)
      /\ \A i, k \in at : i < k => Rank(at, i) < Rank(at, k)
  BY <1>1, RankGrows
<1>3. \A k \in 1..Cardinality(at) : \E i \in at : Rank(at, i) = k
  BY <1>1, Ranked
<1>4. \A i, k \in at : Rank(at, i) = Rank(at, k) => i = k
  <2> SUFFICES ASSUME NEW i \in at, NEW k \in at, Rank(at, i) = Rank(at, k), i # k PROVE FALSE
    OBVIOUS
  <2>1. i \in Nat /\ k \in Nat
    BY <1>1
  <2>2. i < k \/ k < i
    BY <2>1
  <2>3. Rank(at, i) \in 1..Cardinality(at) /\ Rank(at, k) \in 1..Cardinality(at)
    BY <1>2
  <2> QED
    BY <1>2, <2>2, <2>3
<1>5. CASE at = DOMAIN s
  <2>1. Picked(s, at) = s
    BY <1>5 DEF Picked
  <2>2. \A i \in at : {j \in at : j <= i} = 1..i /\ i \in Nat \ {0}
    BY <1>1, <1>5
  <2>3. \A i \in Nat \ {0} : Cardinality(1..i) = i
    <3> SUFFICES ASSUME NEW i \in Nat \ {0} PROVE Cardinality(1..i) = i
      OBVIOUS
    <3>1. Cardinality(1..i) = IF 1 > i THEN 0 ELSE i - 1 + 1
      BY FS_Interval
    <3> QED
      BY <3>1
  <2>4. \A i \in at : Rank(at, i) = i
    BY <2>2, <2>3 DEF Rank
  <2>5. Cardinality(at) = Len(s)
    <3>1. Cardinality(1..Len(s)) = IF 1 > Len(s) THEN 0 ELSE Len(s) - 1 + 1
      BY <1>1, FS_Interval
    <3>2. Cardinality(1..Len(s)) = Len(s)
      BY <1>1, <3>1
    <3> QED
      BY <1>1, <1>5, <3>2
  <2>6. \A i \in at : Picked(s, at)[Rank(at, i)] = s[i]
    BY <2>1, <2>4
  <2>7. \A k \in 1..Cardinality(at) : k \in at /\ Rank(at, k) = k /\ Picked(s, at)[k] = s[k]
    BY <1>1, <1>5, <2>1, <2>4, <2>5
  <2> QED
    BY <1>2, <2>1, <2>5, <2>6, <2>7
<1>6. CASE at # DOMAIN s
  <2> DEFINE N == Cardinality(at)
             pos(k) == CHOOSE i \in at : Rank(at, i) = k
  <2>1. Picked(s, at) = [k \in 1..N |-> s[pos(k)]]
    BY <1>6 DEF Picked, Rank
  <2>2. \A k \in 1..N : pos(k) \in at /\ Rank(at, pos(k)) = k
    BY <1>3
  <2> HIDE DEF pos, N
  <2>3. N \in Nat
    BY <1>2 DEF N
  <2>4. \A k \in 1..N : s[pos(k)] \in T
    BY <1>1, <2>2
  <2>5. [k \in 1..N |-> s[pos(k)]] \in Seq(T)
    BY <2>3, <2>4
  <2>6. Len([k \in 1..N |-> s[pos(k)]]) = N
    BY <2>3
  <2>7. ASSUME NEW i \in at PROVE Picked(s, at)[Rank(at, i)] = s[i]
    <3>1. Rank(at, i) \in 1..N
      BY <1>2 DEF N
    <3>2. pos(Rank(at, i)) \in at /\ Rank(at, pos(Rank(at, i))) = Rank(at, i)
      BY <2>2, <3>1
    <3>3. pos(Rank(at, i)) = i
      BY <1>4, <3>2
    <3> QED
      BY <2>1, <3>1, <3>3
  <2>8. ASSUME NEW k \in 1..N PROVE \E i \in at : Rank(at, i) = k /\ Picked(s, at)[k] = s[i]
    BY <2>1, <2>2
  <2> QED
    BY <1>2, <2>1, <2>5, <2>6, <2>7, <2>8 DEF N
<1> QED
  BY <1>5, <1>6

(* Picking the last element too.                                            *)
LEMMA PickedLast ==
  ASSUME NEW T, NEW s \in Seq(T), NEW x \in T, NEW b \in SUBSET (1..Len(s))
  PROVE  Picked(Append(s, x), b \cup {Len(s) + 1}) = Append(Picked(s, b), x)
<1>1. Len(s) \in Nat
  OBVIOUS
<1>2. PICK t \in Seq(T) : /\ t = Append(s, x) /\ Len(t) = Len(s) + 1
                          /\ \A i \in 1..Len(s) : t[i] = s[i]
                          /\ t[Len(s) + 1] = x
  BY AppendProperties
<1>3. PICK at \in SUBSET (1..Len(t)) : at = b \cup {Len(s) + 1}
  <2>1. \A i \in 1..Len(s) : i \in 1..Len(t)
    BY <1>1, <1>2
  <2>2. Len(s) + 1 \in 1..Len(t)
    BY <1>1, <1>2
  <2> QED
    BY <2>1, <2>2
<1>4. PICK p \in Seq(T) :
        /\ p = Picked(t, at) /\ Len(p) = Cardinality(at)
        /\ Cardinality(at) \in Nat
        /\ \A i \in at : Rank(at, i) \in 1..Cardinality(at) /\ p[Rank(at, i)] = t[i]
        /\ \A k \in 1..Cardinality(at) : \E i \in at : Rank(at, i) = k /\ p[k] = t[i]
  <2>1. /\ Picked(t, at) \in Seq(T) /\ Len(Picked(t, at)) = Cardinality(at)
        /\ IsFiniteSet(at) /\ Cardinality(at) \in Nat
        /\ \A i \in at : Rank(at, i) \in 1..Cardinality(at) /\ Picked(t, at)[Rank(at, i)] = t[i]
        /\ \A k \in 1..Cardinality(at) : \E i \in at : Rank(at, i) = k /\ Picked(t, at)[k] = t[i]
    BY PickedIs
  <2> QED
    BY <2>1
<1>5. /\ Cardinality(at) = Cardinality(b) + 1
      /\ Rank(at, Len(s) + 1) = Cardinality(at) /\ Len(s) + 1 \in at
      /\ \A i \in b : Rank(at, i) = Rank(b, i) /\ i \in at
  <2>1. at \in SUBSET (1..(Len(s) + 1)) /\ Len(s) + 1 \in at
    BY <1>2, <1>3
  <2>2. at \ {Len(s) + 1} = b
    <3>1. \A i \in b : i # Len(s) + 1
      BY <1>1
    <3> QED
      BY <1>3, <3>1
  <2>3. /\ Cardinality(at) = Cardinality(at \ {Len(s) + 1}) + 1
        /\ Rank(at, Len(s) + 1) = Cardinality(at)
        /\ \A i \in at \ {Len(s) + 1} : Rank(at, i) = Rank(at \ {Len(s) + 1}, i)
    BY <1>1, <2>1, RankMore
  <2> QED
    BY <2>1, <2>2, <2>3
<1>6. PICK q \in Seq(T) :
        /\ q = Picked(s, b) /\ Len(q) = Cardinality(b)
        /\ Cardinality(b) \in Nat
        /\ \A k \in 1..Cardinality(b) : \E i \in b : Rank(b, i) = k /\ q[k] = s[i]
  <2>1. /\ Picked(s, b) \in Seq(T) /\ Len(Picked(s, b)) = Cardinality(b)
        /\ Cardinality(b) \in Nat
        /\ \A k \in 1..Cardinality(b) : \E i \in b : Rank(b, i) = k /\ Picked(s, b)[k] = s[i]
    BY PickedIs
  <2> QED
    BY <2>1
<1>7. PICK r \in Seq(T) : /\ r = Append(q, x) /\ Len(r) = Len(q) + 1
                          /\ \A i \in 1..Len(q) : r[i] = q[i]
                          /\ r[Len(q) + 1] = x
  BY AppendProperties
<1>8. Len(p) = Len(r)
  BY <1>4, <1>5, <1>6, <1>7
<1>9. ASSUME NEW k \in 1..Len(p) PROVE p[k] = r[k]
  <2>1. CASE k = Len(p)
    <3>1. p[k] = t[Len(s) + 1]
      BY <1>4, <1>5, <2>1
    <3>2. k = Len(q) + 1
      BY <1>4, <1>5, <1>6, <2>1
    <3> QED
      BY <1>2, <1>7, <3>1, <3>2
  <2>2. CASE k # Len(p)
    <3>1. k \in 1..Cardinality(b) /\ k \in 1..Len(q)
      BY <1>4, <1>5, <1>6, <2>2
    <3>2. PICK i \in b : Rank(b, i) = k /\ q[k] = s[i]
      BY <1>6, <3>1
    <3>3. p[Rank(at, i)] = t[i]
      BY <1>4, <1>5
    <3>4. Rank(at, i) = k
      BY <1>5, <3>2
    <3>5. t[i] = s[i]
      BY <1>2
    <3>6. r[k] = q[k]
      BY <1>7, <3>1
    <3> QED
      BY <3>2, <3>3, <3>4, <3>5, <3>6
  <2> QED
    BY <2>1, <2>2
<1>10. p = r
  BY <1>8, <1>9, SeqEqual
<1> QED
  BY <1>2, <1>3, <1>4, <1>6, <1>7, <1>10

(* Picking from a sequence that has grown.                                  *)
LEMMA PickedRest ==
  ASSUME NEW T, NEW s \in Seq(T), NEW x \in T, NEW b \in SUBSET (1..Len(s))
  PROVE  Picked(Append(s, x), b) = Picked(s, b)
<1>1. Len(s) \in Nat
  OBVIOUS
<1>2. PICK t \in Seq(T) : /\ t = Append(s, x) /\ Len(t) = Len(s) + 1
                          /\ \A i \in 1..Len(s) : t[i] = s[i]
  <2>1. /\ Append(s, x) \in Seq(T) /\ Len(Append(s, x)) = Len(s) + 1
        /\ \A i \in 1..Len(s) : Append(s, x)[i] = s[i]
    BY AppendProperties
  <2> QED
    BY <2>1
<1>3. b \in SUBSET (1..Len(t))
  <2>1. \A i \in 1..Len(s) : i \in 1..Len(t)
    BY <1>1, <1>2
  <2> QED
    BY <2>1
<1>4. PICK p \in Seq(T) :
        /\ p = Picked(t, b) /\ Len(p) = Cardinality(b)
        /\ \A k \in 1..Cardinality(b) : \E i \in b : Rank(b, i) = k /\ p[k] = t[i]
  <2>1. /\ Picked(t, b) \in Seq(T) /\ Len(Picked(t, b)) = Cardinality(b)
        /\ \A k \in 1..Cardinality(b) : \E i \in b : Rank(b, i) = k /\ Picked(t, b)[k] = t[i]
    BY <1>3, PickedIs
  <2> QED
    BY <2>1
<1>5. PICK q \in Seq(T) :
        /\ q = Picked(s, b) /\ Len(q) = Cardinality(b)
        /\ \A i \in b : Rank(b, i) \in 1..Cardinality(b) /\ q[Rank(b, i)] = s[i]
  <2>1. /\ Picked(s, b) \in Seq(T) /\ Len(Picked(s, b)) = Cardinality(b)
        /\ \A i \in b : Rank(b, i) \in 1..Cardinality(b) /\ Picked(s, b)[Rank(b, i)] = s[i]
    BY PickedIs
  <2> QED
    BY <2>1
<1>6. ASSUME NEW k \in 1..Len(p) PROVE p[k] = q[k]
  <2>1. PICK i \in b : Rank(b, i) = k /\ p[k] = t[i]
    BY <1>4
  <2>2. t[i] = s[i]
    BY <1>2
  <2>3. q[Rank(b, i)] = s[i]
    BY <1>5
  <2> QED
    BY <2>1, <2>2, <2>3
<1>7. p = q
  BY <1>4, <1>5, <1>6, SeqEqual
<1> QED
  BY <1>2, <1>4, <1>5, <1>7

----------------------------------------------------------------------------
(* Lines of a file *)

Headers == {Header(Old), Header(Current)}

(* A file starts with its header, and no line behind it is another.         *)
Shaped(ls) == \A i \in 1..Len(ls) : IF i = 1 THEN ls[i].entry \in Headers ELSE ls[i].entry \in Entry
AllWhole(ls) == \A i \in 1..Len(ls) : ls[i].whole /\ ls[i].nl
Texts(ls) == [i \in DOMAIN ls |-> ls[i].entry]
Lined == Entry \cup Headers

(* A header is not an entry.                                                *)
LEMMA HeadersDiffer ==
  /\ \A h \in Headers : h.kind = "session"
  /\ \A e \in Entry : e.kind # "session" /\ e.kind \in Kind /\ e.id \in Nat /\ e.parent \in Nat /\ e.ref \in Nat
  /\ Header(Old) # Header(Current) /\ Header(Old).ref = Old /\ Header(Current).ref = Current /\ Old # Current
  /\ Line = [entry : Lined, whole : BOOLEAN, nl : BOOLEAN]
<1>1. Header(Old).ref = 1 /\ Header(Current).ref = 3
  BY DEF Header, Old, Current
<1>2. \A h \in Headers : h.kind = "session"
  BY DEF Headers, Header
<1>3. "session" \notin Kind
  BY DEF Kind, Messages
<1>4. \A e \in Entry : e.kind # "session" /\ e.kind \in Kind /\ e.id \in Nat /\ e.parent \in Nat /\ e.ref \in Nat
  BY <1>3 DEF Entry
<1>5. Header(Old) # Header(Current) /\ Old # Current
  BY <1>1 DEF Old, Current
<1>6. Line = [entry : Lined, whole : BOOLEAN, nl : BOOLEAN]
  BY DEF Line, Lined, Headers
<1> QED
  BY <1>1, <1>2, <1>4, <1>5, <1>6 DEF Old, Current

(* The entries of lines.                                                    *)
LEMMA TextsType ==
  ASSUME NEW ls \in Seq(Line)
  PROVE  /\ Texts(ls) \in Seq(Lined) /\ Len(Texts(ls)) = Len(ls)
         /\ \A i \in 1..Len(ls) : Texts(ls)[i] = ls[i].entry
<1>1. Len(ls) \in Nat /\ DOMAIN ls = 1..Len(ls)
  OBVIOUS
<1>2. \A i \in 1..Len(ls) : ls[i] \in Line
  OBVIOUS
<1>3. \A l \in Line : l.entry \in Lined
  BY HeadersDiffer
<1>4. [i \in 1..Len(ls) |-> ls[i].entry] \in Seq(Lined)
  BY <1>1, <1>2, <1>3
<1>5. Texts(ls) = [i \in 1..Len(ls) |-> ls[i].entry]
  BY <1>1 DEF Texts
<1> QED
  BY <1>1, <1>4, <1>5

Seen(ls) == {i \in DOMAIN ls : Legible(ls, i)}

(* What is parsed of a file.                                                *)
LEMMA ParsedIs ==
  ASSUME NEW ls \in Seq(Line)
  PROVE  /\ Parsed(ls) = Picked(Texts(ls), Seen(ls))
         /\ Seen(ls) \in SUBSET (1..Len(Texts(ls)))
         /\ Parsed(ls) \in Seq(Lined) /\ Len(Parsed(ls)) = Cardinality(Seen(ls))
         /\ Cardinality(Seen(ls)) \in Nat
         /\ \A i \in Seen(ls) : /\ Rank(Seen(ls), i) \in 1..Len(Parsed(ls))
                                /\ Parsed(ls)[Rank(Seen(ls), i)] = ls[i].entry
         /\ \A k \in 1..Len(Parsed(ls)) : \E i \in Seen(ls) :
              Rank(Seen(ls), i) = k /\ Parsed(ls)[k] = ls[i].entry
<1>1. PICK t \in Seq(Lined) : /\ t = Texts(ls) /\ Len(t) = Len(ls)
                              /\ \A i \in 1..Len(ls) : t[i] = ls[i].entry
  BY TextsType
<1>2. PICK at : at = Seen(ls)
  OBVIOUS
<1>3. at \in SUBSET (1..Len(t))
  BY <1>1, <1>2 DEF Seen
<1>4. Parsed(ls) = Picked(t, at)
  BY <1>1, <1>2 DEF Parsed, Texts, Seen
<1>5. /\ Picked(t, at) \in Seq(Lined) /\ Len(Picked(t, at)) = Cardinality(at)
      /\ Cardinality(at) \in Nat
      /\ \A i \in at : Rank(at, i) \in 1..Cardinality(at) /\ Picked(t, at)[Rank(at, i)] = t[i]
      /\ \A k \in 1..Cardinality(at) : \E i \in at : Rank(at, i) = k /\ Picked(t, at)[k] = t[i]
  BY <1>3, PickedIs
<1>6. \A i \in at : t[i] = ls[i].entry
  BY <1>1, <1>3
<1> QED
  BY <1>1, <1>2, <1>3, <1>4, <1>5, <1>6

(* What is loaded of a file are entries of its lines.                       *)
LEMMA LoadedType ==
  ASSUME NEW ls \in Seq(Line), Shaped(ls)
  PROVE  /\ Loaded(ls) \in Seq(Entry)
         /\ \A k \in 1..Len(Loaded(ls)) : \E i \in 1..Len(ls) : i > 1 /\ Loaded(ls)[k] = ls[i].entry
         /\ Valid(ls) => ls # <<>> /\ Parsed(ls) # <<>> /\ Head(Parsed(ls)) = ls[1].entry
<1>1. PICK p, at :
         /\ p \in Seq(Lined) /\ p = Parsed(ls) /\ at = Seen(ls) /\ at \in SUBSET (1..Len(ls))
         /\ \A i \in at : Rank(at, i) \in 1..Len(p) /\ p[Rank(at, i)] = ls[i].entry
         /\ \A k \in 1..Len(p) : \E i \in at : Rank(at, i) = k /\ p[k] = ls[i].entry
  <2>1. Seen(ls) \in SUBSET (1..Len(ls))
    BY DEF Seen
  <2> QED
    BY <2>1, ParsedIs
<1>2. CASE ~Valid(ls)
  <2>1. Loaded(ls) = <<>>
    BY <1>2 DEF Loaded
  <2>2. <<>> \in Seq(Entry) /\ Len(<<>>) = 0
    BY EmptySeq
  <2> QED
    BY <1>2, <2>1, <2>2
<1>3. CASE Valid(ls)
  <2>1. p # <<>> /\ Head(p).kind = "session" /\ Loaded(ls) = Tail(p)
    BY <1>1, <1>3 DEF Valid, Loaded
  <2>2. Len(p) \in Nat \ {0} /\ Head(p) = p[1]
    BY <2>1
  <2>3. 1 \in 1..Len(p)
    BY <2>2
  <2>4. PICK i \in at : Rank(at, i) = 1 /\ p[1] = ls[i].entry
    BY <1>1, <2>3
  <2>5. i = 1
    <3>1. i \in 1..Len(ls)
      BY <1>1
    <3>2. i # 1 => ls[i].entry \in Entry
      BY <3>1 DEF Shaped
    <3> QED
      BY <2>1, <2>2, <2>4, <3>2, HeadersDiffer
  <2>6. PICK t \in Seq(Lined) : t = Tail(p) /\ Len(t) = Len(p) - 1 /\ \A k \in 1..Len(t) : t[k] = p[k + 1]
    <3>1. p \in Seq(Lined) /\ p # <<>>
      BY <1>1, <2>1
    <3>2. /\ Tail(p) \in Seq(Lined) /\ Len(Tail(p)) = Len(p) - 1
          /\ \A k \in 1..Len(Tail(p)) : Tail(p)[k] = p[k + 1]
      BY <3>1, HeadTailProperties
    <3> QED
      BY <3>2
  <2>7. ASSUME NEW k \in 1..Len(t) PROVE \E j \in 1..Len(ls) : j > 1 /\ t[k] = ls[j].entry /\ t[k] \in Entry
    <3>1. k + 1 \in 1..Len(p) /\ k + 1 # 1
      BY <2>2, <2>6
    <3>2. PICK j \in at : Rank(at, j) = k + 1 /\ p[k + 1] = ls[j].entry
      BY <1>1, <3>1
    <3>3. j # 1
      BY <2>4, <2>5, <3>1, <3>2
    <3>4. j \in 1..Len(ls) /\ j > 1
      BY <1>1, <3>3
    <3>5. ls[j].entry \in Entry
      BY <3>3, <3>4 DEF Shaped
    <3> QED
      BY <2>6, <3>2, <3>4, <3>5
  <2>8. t \in Seq(Entry)
    <3>1. Len(t) \in Nat /\ t = [k \in 1..Len(t) |-> t[k]]
      OBVIOUS
    <3>2. \A k \in 1..Len(t) : t[k] \in Entry
      BY <2>7
    <3> QED
      BY <3>1, <3>2
  <2>9. ls # <<>> /\ Head(p) = ls[1].entry
    <3>1. 1 \in 1..Len(ls)
      BY <1>1, <2>4, <2>5
    <3>2. Len(<<>>) = 0 /\ ~(1 \in 1..0)
      OBVIOUS
    <3> QED
      BY <2>2, <2>4, <2>5, <3>1, <3>2
  <2> QED
    BY <1>1, <2>1, <2>6, <2>7, <2>8, <2>9
<1> QED
  BY <1>2, <1>3

(* A file without a torn line is loaded as it was written.                  *)
LEMMA LoadedWhole ==
  ASSUME NEW ls \in Seq(Line), Shaped(ls), AllWhole(ls), ls # <<>>
  PROVE  /\ Valid(ls) /\ Head(Parsed(ls)) = ls[1].entry
         /\ Loaded(ls) \in Seq(Entry) /\ Len(Loaded(ls)) = Len(ls) - 1
         /\ \A k \in 1..Len(Loaded(ls)) : k + 1 \in 1..Len(ls) /\ Loaded(ls)[k] = ls[k + 1].entry
<1>1. Len(ls) \in Nat \ {0} /\ DOMAIN ls = 1..Len(ls)
  OBVIOUS
<1>2. ASSUME NEW i \in 1..Len(ls) PROVE Legible(ls, i)
  <2>1. i > 1 => i - 1 \in 1..Len(ls)
    BY <1>1
  <2> QED
    BY <2>1 DEF Legible, AllWhole
<1>3. PICK t \in Seq(Lined) : /\ t = Texts(ls) /\ Len(t) = Len(ls)
                              /\ \A i \in 1..Len(ls) : t[i] = ls[i].entry
  BY TextsType
<1>4. Seen(ls) = DOMAIN t
  <2>1. Seen(ls) = 1..Len(ls)
    BY <1>1, <1>2 DEF Seen
  <2>2. DOMAIN t = 1..Len(ls)
    BY <1>3
  <2> QED
    BY <2>1, <2>2
<1>5. Parsed(ls) = Picked(t, Seen(ls))
  BY <1>3, ParsedIs
<1>6. Parsed(ls) = t
  BY <1>4, <1>5 DEF Picked
<1>7. 1 \in 1..Len(ls) /\ t # <<>> /\ Head(t) = t[1]
  BY <1>1, <1>3
<1>8. Head(t) = ls[1].entry /\ ls[1].entry \in Headers
  BY <1>3, <1>7 DEF Shaped
<1>9. Valid(ls)
  BY <1>6, <1>7, <1>8, HeadersDiffer DEF Valid
<1>10. Loaded(ls) = Tail(t)
  BY <1>6, <1>9 DEF Loaded
<1>11. Len(Tail(t)) = Len(t) - 1 /\ \A k \in 1..Len(Tail(t)) : Tail(t)[k] = t[k + 1]
  BY <1>7, HeadTailProperties
<1>12. \A k \in 1..(Len(ls) - 1) : k + 1 \in 1..Len(ls)
  BY <1>1
<1>13. \A k \in 1..(Len(ls) - 1) : Tail(t)[k] = ls[k + 1].entry
  BY <1>3, <1>11, <1>12
<1> QED
  BY <1>3, <1>6, <1>8, <1>9, <1>10, <1>11, <1>12, <1>13, LoadedType

(* Nothing is loaded of an empty file.                                      *)
LEMMA LoadedNothing == Loaded(<<>>) = <<>> /\ ~Valid(<<>>)
<1>1. <<>> \in Seq(Line) /\ Len(<<>>) = 0
  BY EmptySeq
<1>2. Shaped(<<>>)
  BY <1>1 DEF Shaped
<1>3. ~Valid(<<>>)
  BY <1>1, <1>2, LoadedType
<1> QED
  BY <1>3 DEF Loaded

(* A file with a header and entries.                                        *)
LEMMA FoundLines ==
  ASSUME NEW es \in Seq(Entry), NEW h \in Headers
  PROVE  LET ls == Lines(<<h>> \o es)
         IN  /\ ls \in Seq(Line) /\ Len(ls) = Len(es) + 1
             /\ ls # <<>> /\ Shaped(ls) /\ AllWhole(ls) /\ ls[1].entry = h
             /\ \A i \in 1..Len(es) : ls[i + 1].entry = es[i]
             /\ Loaded(ls) = es
<1>1. h \in Lined /\ Entry \subseteq Lined
  BY DEF Lined
<1>2. es \in Seq(Lined) /\ Len(es) \in Nat
  BY <1>1, SeqMonotonic
<1>3. PICK hs \in Seq(Lined) : hs = <<h>> /\ Len(hs) = 1 /\ hs[1] = h
  <2>1. <<h>> \in Seq(Lined)
    BY <1>1
  <2> QED
    BY <2>1
<1>4. PICK t \in Seq(Lined) :
        /\ t = hs \o es /\ Len(t) = Len(hs) + Len(es)
        /\ \A i \in 1..(Len(hs) + Len(es)) : t[i] = IF i <= Len(hs) THEN hs[i] ELSE es[i - Len(hs)]
  <2>1. es \in Seq(Lined)
    BY <1>2
  <2>2. /\ hs \o es \in Seq(Lined) /\ Len(hs \o es) = Len(hs) + Len(es)
        /\ \A i \in 1..(Len(hs) + Len(es)) : (hs \o es)[i] = IF i <= Len(hs) THEN hs[i] ELSE es[i - Len(hs)]
    BY <2>1, ConcatProperties
  <2> QED
    BY <2>2
<1>5. Len(t) = Len(es) + 1 /\ DOMAIN t = 1..(Len(es) + 1)
  BY <1>2, <1>3, <1>4
<1>6. t[1] = h /\ \A i \in 1..Len(es) : t[i + 1] = es[i]
  <2>1. 1 \in 1..(Len(hs) + Len(es)) /\ 1 <= Len(hs)
    BY <1>2, <1>3
  <2>2. \A i \in 1..Len(es) : /\ i + 1 \in 1..(Len(hs) + Len(es)) /\ ~(i + 1 <= Len(hs))
                              /\ i + 1 - Len(hs) = i
    BY <1>2, <1>3
  <2> QED
    BY <1>3, <1>4, <2>1, <2>2
<1>7. Lines(<<h>> \o es) = [i \in 1..(Len(es) + 1) |-> Whole(t[i])]
  BY <1>3, <1>4, <1>5 DEF Lines
<1>8. ASSUME NEW e \in Lined
      PROVE  Whole(e) \in Line /\ Whole(e).entry = e /\ Whole(e).whole = TRUE /\ Whole(e).nl = TRUE
  BY HeadersDiffer DEF Whole
<1>9. \A i \in 1..(Len(es) + 1) : t[i] \in Lined
  BY <1>5
<1>10. PICK ls \in Seq(Line) : /\ ls = Lines(<<h>> \o es) /\ Len(ls) = Len(es) + 1
                               /\ \A i \in 1..(Len(es) + 1) : ls[i] = Whole(t[i])
  <2>1. Len(es) + 1 \in Nat
    BY <1>2
  <2>2. \A i \in 1..(Len(es) + 1) : Whole(t[i]) \in Line
    BY <1>8, <1>9
  <2>3. [i \in 1..(Len(es) + 1) |-> Whole(t[i])] \in Seq(Line)
    BY <2>1, <2>2
  <2>4. Len([i \in 1..(Len(es) + 1) |-> Whole(t[i])]) = Len(es) + 1
    BY <2>1
  <2> QED
    BY <1>7, <2>3, <2>4
<1>11. \A i \in 1..(Len(es) + 1) : ls[i].entry = t[i] /\ ls[i].whole /\ ls[i].nl
  BY <1>8, <1>9, <1>10
<1>12. AllWhole(ls)
  BY <1>10, <1>11 DEF AllWhole
<1>13. 1 \in 1..(Len(es) + 1) /\ \A i \in 1..Len(es) : i + 1 \in 1..(Len(es) + 1)
  BY <1>2
<1>14. ls[1].entry = h /\ \A i \in 1..Len(es) : ls[i + 1].entry = es[i]
  BY <1>6, <1>11, <1>13
<1>15. Shaped(ls)
  <2>1. ASSUME NEW i \in 1..Len(ls), i # 1 PROVE ls[i].entry \in Entry
    <3>1. i - 1 \in 1..Len(es) /\ (i - 1) + 1 = i
      BY <1>2, <1>10, <2>1
    <3>2. ls[(i - 1) + 1].entry = es[i - 1] /\ es[i - 1] \in Entry
      BY <1>14, <3>1
    <3> QED
      BY <3>1, <3>2
  <2> QED
    BY <1>1, <1>14, <2>1 DEF Shaped
<1>16. ls # <<>>
  BY <1>2, <1>10
<1>17. Loaded(ls) = es
  <2>1. /\ Loaded(ls) \in Seq(Entry) /\ Len(Loaded(ls)) = Len(ls) - 1
        /\ \A k \in 1..Len(Loaded(ls)) : k + 1 \in 1..Len(ls) /\ Loaded(ls)[k] = ls[k + 1].entry
    BY <1>12, <1>15, <1>16, LoadedWhole
  <2>2. Len(Loaded(ls)) = Len(es)
    BY <1>2, <1>10, <2>1
  <2>3. \A k \in 1..Len(Loaded(ls)) : Loaded(ls)[k] = es[k]
    BY <1>14, <2>1, <2>2
  <2> QED
    BY <2>1, <2>2, <2>3, SeqEqual
<1> QED
  BY <1>10, <1>12, <1>14, <1>15, <1>16, <1>17

(* The file of a session that is written as a whole.                        *)
LEMMA SessionFileLines ==
  ASSUME NEW es \in Seq(Entry)
  PROVE  /\ SessionLines(es) \in Seq(Line) /\ Len(SessionLines(es)) = Len(es) + 1
         /\ SessionLines(es) # <<>> /\ Shaped(SessionLines(es)) /\ AllWhole(SessionLines(es))
         /\ SessionLines(es)[1].entry = Header(Current)
         /\ \A i \in 1..Len(es) : SessionLines(es)[i + 1].entry = es[i]
         /\ Loaded(SessionLines(es)) = es
<1>1. Header(Current) \in Headers
  BY DEF Headers
<1> QED
  BY <1>1, FoundLines DEF SessionLines

(* A sequence, and with one element more.                                   *)
LEMMA PrefixFacts ==
  ASSUME NEW T, NEW s \in Seq(T)
  PROVE  /\ IsPrefix(s, s) /\ IsPrefix(<<>>, s)
         /\ \A e \in T : /\ IsPrefix(s, Append(s, e)) /\ Front(Append(s, e)) = s
                         /\ Append(s, e) # <<>>
<1>1. Len(s) \in Nat
  OBVIOUS
<1>2. IsPrefix(s, s)
  BY <1>1 DEF IsPrefix
<1>3. IsPrefix(<<>>, s)
  <2>1. <<>> \in Seq(T) /\ Len(<<>>) = 0
    BY EmptySeq
  <2>2. SubSeq(<<>>, 1, 0) = <<>> /\ SubSeq(s, 1, 0) = <<>>
    BY SubSeqEmpty
  <2> QED
    BY <1>1, <2>1, <2>2 DEF IsPrefix
<1>4. ASSUME NEW e \in T
      PROVE  IsPrefix(s, Append(s, e)) /\ Front(Append(s, e)) = s /\ Append(s, e) # <<>>
  <2>1. PICK t \in Seq(T) : /\ t = Append(s, e) /\ Len(t) = Len(s) + 1 /\ t # <<>>
                            /\ \A i \in 1..Len(s) : t[i] = s[i]
    <3>1. /\ Append(s, e) \in Seq(T) /\ Append(s, e) # <<>> /\ Len(Append(s, e)) = Len(s) + 1
          /\ \A i \in 1..Len(s) : Append(s, e)[i] = s[i]
      BY AppendProperties
    <3> QED
      BY <3>1
  <2>2. PICK u : u = SubSeq(t, 1, Len(s))
    OBVIOUS
  <2>3. \A i \in 1..Len(s) : t[i] \in T
    BY <2>1
  <2>4. /\ SubSeq(t, 1, Len(s)) \in Seq(T)
        /\ Len(SubSeq(t, 1, Len(s))) = IF 1 <= Len(s) THEN Len(s) - 1 + 1 ELSE 0
        /\ \A i \in 1..(Len(s) - 1 + 1) : SubSeq(t, 1, Len(s))[i] = t[1 + i - 1]
    BY <1>1, <2>3, SubSeqProperties
  <2>5. u \in Seq(T) /\ Len(u) = Len(s) /\ \A i \in 1..Len(s) : u[i] = t[i]
    BY <1>1, <2>2, <2>4
  <2>6. \A i \in 1..Len(u) : u[i] = s[i]
    BY <2>1, <2>5
  <2>7. u = s
    BY <2>5, <2>6, SeqEqual
  <2>8. SubSeq(s, 1, Len(s)) = s
    BY SubSeqFull
  <2>9. Len(t) - 1 = Len(s) /\ Len(s) <= Len(t)
    BY <1>1, <2>1
  <2> QED
    BY <2>1, <2>2, <2>7, <2>8, <2>9 DEF IsPrefix, Front
<1> QED
  BY <1>2, <1>3, <1>4

(* What is loaded of a file whose lines parse to p.                         *)
Read(p) == IF p # <<>> /\ Head(p).kind = "session" THEN Tail(p) ELSE <<>>

(* Reading is monotonic.                                                    *)
LEMMA ReadMore ==
  ASSUME NEW p \in Seq(Lined), NEW x \in Lined
  PROVE  /\ Read(p) \in Seq(Lined) /\ Read(Append(p, x)) \in Seq(Lined)
         /\ IsPrefix(Read(p), Read(Append(p, x))) /\ IsPrefix(Read(p), Read(p))
         /\ \/ IsPrefix(Read(Append(p, x)), Read(p))
            \/ Read(Append(p, x)) # <<>> /\ Read(p) = Front(Read(Append(p, x)))
<1>1. PICK q \in Seq(Lined) : q = Append(p, x) /\ q # <<>>
  BY AppendProperties
<1>2. /\ Head(q) = IF p = <<>> THEN x ELSE Head(p)
      /\ Tail(q) = IF p = <<>> THEN <<>> ELSE Append(Tail(p), x)
  BY <1>1, HeadTailAppend
<1>3. p # <<>> => Tail(p) \in Seq(Lined)
  BY HeadTailProperties
<1>4. <<>> \in Seq(Lined)
  BY EmptySeq
<1>5. PICK r \in Seq(Lined) : r = Read(p)
  BY <1>3, <1>4 DEF Read
<1>6. PICK z \in Seq(Lined) : z = <<>>
  BY <1>4
<1>7. IsPrefix(z, r) /\ IsPrefix(r, r) /\ IsPrefix(z, z)
  BY <1>6, PrefixFacts
<1>8. CASE p = <<>>
  <2>1. Read(p) = z /\ Read(q) = z
    BY <1>1, <1>2, <1>6, <1>8 DEF Read
  <2> QED
    BY <1>1, <1>6, <1>7, <2>1
<1>9. CASE p # <<>> /\ Head(p).kind = "session"
  <2>1. r = Tail(p) /\ Read(q) = Append(r, x)
    BY <1>1, <1>2, <1>5, <1>9 DEF Read
  <2>2. IsPrefix(r, Append(r, x)) /\ Front(Append(r, x)) = r /\ Append(r, x) # <<>>
    BY PrefixFacts
  <2>3. Append(r, x) \in Seq(Lined)
    BY AppendProperties
  <2> QED
    BY <1>1, <1>5, <1>7, <2>1, <2>2, <2>3
<1>10. CASE p # <<>> /\ Head(p).kind # "session"
  <2>1. Read(p) = z /\ Read(q) = z
    BY <1>1, <1>2, <1>6, <1>10 DEF Read
  <2> QED
    BY <1>1, <1>6, <1>7, <2>1
<1> QED
  BY <1>8, <1>9, <1>10

(* What a line behind others adds to what can be read, or costs.            *)
LEMMA LoadedMore ==
  ASSUME NEW ls \in Seq(Line), ls # <<>>, NEW l \in Line
  PROVE  /\ \/ IsPrefix(Loaded(ls), Loaded(Append(ls, l)))
            \/ Loaded(ls) # <<>> /\ Loaded(Append(ls, l)) = Front(Loaded(ls))
         /\ ls[Len(ls)].nl => IsPrefix(Loaded(ls), Loaded(Append(ls, l)))
<1> DEFINE n == Len(ls)
<1>1. n \in Nat \ {0}
  OBVIOUS
<1>2. PICK ms \in Seq(Line) : /\ ms = Append(ls, l) /\ Len(ms) = n + 1
                              /\ \A i \in 1..n : ms[i] = ls[i]
                              /\ ms[n + 1] = l
  BY AppendProperties
<1>3. l.entry \in Lined
  BY HeadersDiffer
<1>4. PICK t \in Seq(Lined) : t = Texts(ls) /\ Len(t) = n /\ \A i \in 1..n : t[i] = ls[i].entry
  BY TextsType
<1>5. PICK u \in Seq(Lined) : u = Texts(ms) /\ Len(u) = n + 1 /\ \A i \in 1..(n + 1) : u[i] = ms[i].entry
  BY <1>2, TextsType
<1>6. u = Append(t, l.entry)
  <2>1. PICK v \in Seq(Lined) : /\ v = Append(t, l.entry) /\ Len(v) = n + 1
                                /\ \A i \in 1..n : v[i] = t[i]
                                /\ v[n + 1] = l.entry
    <3>1. /\ Append(t, l.entry) \in Seq(Lined) /\ Len(Append(t, l.entry)) = Len(t) + 1
          /\ \A i \in 1..Len(t) : Append(t, l.entry)[i] = t[i]
          /\ Append(t, l.entry)[Len(t) + 1] = l.entry
      BY <1>3, AppendProperties
    <3>2. Len(t) = n
      BY <1>4
    <3> HIDE DEF n
    <3> QED
      BY <3>1, <3>2
  <2>2. ASSUME NEW i \in 1..(n + 1) PROVE u[i] = v[i]
    <3>1. CASE i = n + 1
      BY <1>2, <1>5, <2>1, <3>1
    <3>2. CASE i # n + 1
      <4>1. i \in 1..n
        BY <1>1, <3>2
      <4> QED
        BY <1>2, <1>4, <1>5, <2>1, <4>1
    <3> QED
      BY <3>1, <3>2
  <2>3. u = v
    <3>1. Len(u) = Len(v) /\ \A i \in 1..Len(u) : u[i] = v[i]
      BY <1>5, <2>1, <2>2
    <3> QED
      BY <3>1, SeqEqual
  <2> QED
    BY <2>1, <2>3
<1>7. PICK at : at = Seen(ls) /\ at \in SUBSET (1..n)
  <2>1. DOMAIN ls = 1..n
    OBVIOUS
  <2>2. Seen(ls) \in SUBSET (1..n)
    BY <2>1 DEF Seen
  <2> QED
    BY <2>2
<1>8. PICK bt : bt = Seen(ms) /\ bt \in SUBSET (1..(n + 1))
  <2>1. DOMAIN ms = 1..(n + 1)
    BY <1>2
  <2>2. Seen(ms) \in SUBSET (1..(n + 1))
    BY <2>1 DEF Seen
  <2> QED
    BY <2>2
<1>9. Parsed(ls) = Picked(t, at) /\ Parsed(ms) = Picked(u, bt)
  BY <1>2, <1>4, <1>5, <1>7, <1>8, ParsedIs
<1>10. PICK p \in Seq(Lined) : p = Parsed(ls)
  BY ParsedIs
<1>11. Loaded(ls) = Read(Parsed(ls)) /\ Loaded(ms) = Read(Parsed(ms))
  BY DEF Loaded, Valid, Read
<1>12. \A i \in 1..(n - 1) : i \in at <=> i \in bt
  <2> SUFFICES ASSUME NEW i \in 1..(n - 1) PROVE i \in at <=> i \in bt
    OBVIOUS
  <2>1. i \in DOMAIN ls /\ i \in DOMAIN ms /\ i < Len(ls) /\ i < Len(ms)
    BY <1>1, <1>2
  <2>2. ms[i] = ls[i] /\ (i > 1 => ms[i - 1] = ls[i - 1])
    BY <1>1, <1>2
  <2>3. Legible(ls, i) <=> Legible(ms, i)
    BY <2>1, <2>2 DEF Legible
  <2> QED
    BY <1>7, <1>8, <2>1, <2>3 DEF Seen
<1>13. n \in bt <=> n \in at /\ ls[n].nl
  <2>1. n \in DOMAIN ls /\ n \in DOMAIN ms /\ ~(n < Len(ls)) /\ n < Len(ms)
    BY <1>1, <1>2
  <2>2. ms[n] = ls[n] /\ (n > 1 => ms[n - 1] = ls[n - 1])
    BY <1>1, <1>2
  <2>3. Legible(ms, n) <=> Legible(ls, n) /\ ls[n].nl
    BY <2>1, <2>2 DEF Legible
  <2> QED
    BY <1>7, <1>8, <2>1, <2>3 DEF Seen
<1>14. n + 1 \in bt => ls[n].nl
  <2>1. n + 1 \in bt => Legible(ms, n + 1)
    BY <1>8 DEF Seen
  <2>2. n + 1 > 1 /\ n + 1 - 1 = n /\ ms[n] = ls[n]
    BY <1>1, <1>2
  <2> QED
    BY <2>1, <2>2 DEF Legible
<1> HIDE DEF n
<1>15. \A S \in SUBSET (1..n) :
         /\ Picked(u, S \cup {n + 1}) = Append(Picked(t, S), l.entry)
         /\ Picked(u, S) = Picked(t, S)
  <2> SUFFICES ASSUME NEW S \in SUBSET (1..n)
               PROVE  /\ Picked(u, S \cup {n + 1}) = Append(Picked(t, S), l.entry)
                      /\ Picked(u, S) = Picked(t, S)
    OBVIOUS
  <2>1. Len(t) = n /\ S \in SUBSET (1..Len(t))
    BY <1>4
  <2>2. Picked(Append(t, l.entry), S \cup {Len(t) + 1}) = Append(Picked(t, S), l.entry)
    BY <1>3, <2>1, PickedLast
  <2>3. Picked(Append(t, l.entry), S) = Picked(t, S)
    BY <1>3, <2>1, PickedRest
  <2> QED
    BY <1>6, <2>1, <2>2, <2>3
<1>16. CASE ls[n].nl
  <2>1. bt \ {n + 1} = at
    <3>1. \A i \in 1..(n + 1) : i \in 1..(n - 1) \/ i = n \/ i = n + 1
      BY <1>1
    <3>2. \A i \in 1..n : i # n + 1 /\ i \in 1..(n + 1)
      BY <1>1
    <3>3. ASSUME NEW i \in 1..(n + 1) PROVE i \in bt \ {n + 1} <=> i \in at
      BY <1>7, <1>12, <1>13, <1>16, <3>1, <3>2
    <3>4. \A i \in at : i \in 1..(n + 1)
      BY <1>7, <3>2
    <3>5. \A i \in bt : i \in 1..(n + 1)
      BY <1>8
    <3> QED
      BY <3>3, <3>4, <3>5
  <2>2. CASE n + 1 \in bt
    <3>1. Parsed(ms) = Append(p, l.entry)
      <4>1. bt = at \cup {n + 1}
        BY <2>1, <2>2
      <4> QED
        BY <1>7, <1>9, <1>10, <1>15, <4>1
    <3> QED
      BY <1>2, <1>3, <1>10, <1>11, <3>1, ReadMore
  <2>3. CASE n + 1 \notin bt
    <3>1. Parsed(ms) = p
      <4>1. bt = at
        BY <2>1, <2>3
      <4> QED
        BY <1>7, <1>9, <1>10, <1>15, <4>1
    <3> QED
      BY <1>2, <1>3, <1>10, <1>11, <3>1, ReadMore
  <2> QED
    BY <2>2, <2>3
<1>17. CASE ~ls[n].nl
  <2>1. bt = at \ {n} /\ n + 1 \notin bt
    <3>1. \A i \in 1..(n + 1) : i \in 1..(n - 1) \/ i = n \/ i = n + 1
      BY <1>1
    <3>2. \A i \in 1..n : i # n + 1 /\ i \in 1..(n + 1)
      BY <1>1
    <3>6. \A i \in 1..(n - 1) : i # n
      BY <1>1
    <3>3. ASSUME NEW i \in 1..(n + 1) PROVE i \in bt <=> i \in at \ {n}
      BY <1>7, <1>12, <1>13, <1>14, <1>17, <3>1, <3>2, <3>6
    <3>4. \A i \in at : i \in 1..(n + 1)
      BY <1>7, <3>2
    <3>5. \A i \in bt : i \in 1..(n + 1)
      BY <1>8
    <3> QED
      BY <1>14, <1>17, <3>3, <3>4, <3>5
  <2>2. Parsed(ms) = Picked(t, at \ {n})
    <3>1. at \ {n} \in SUBSET (1..n)
      BY <1>7
    <3> QED
      BY <1>9, <1>15, <2>1, <3>1
  <2>3. CASE n \notin at
    <3>1. Parsed(ms) = p
      <4>1. at \ {n} = at
        BY <2>3
      <4> QED
        BY <1>9, <1>10, <2>2, <4>1
    <3> QED
      BY <1>2, <1>3, <1>10, <1>11, <1>17, <3>1, ReadMore DEF n
  <2>4. CASE n \in at
    <3>1. PICK s \in Seq(Lined), x \in Lined : t = Append(s, x)
      <4>1. t # <<>>
        BY <1>1, <1>4
      <4> QED
        BY <4>1, SequenceEmptyOrAppend
    <3>2. Len(s) + 1 = n
      <4>1. Len(Append(s, x)) = Len(s) + 1
        BY AppendProperties
      <4> QED
        BY <1>4, <3>1, <4>1
    <3>3. at \ {n} \in SUBSET (1..Len(s)) /\ at = (at \ {n}) \cup {Len(s) + 1}
      <4>1. \A i \in 1..n : i # n => i \in 1..Len(s)
        BY <1>1, <3>2
      <4> QED
        BY <1>7, <2>4, <3>2, <4>1
    <3>4. Picked(t, at) = Append(Picked(s, at \ {n}), x) /\ Picked(t, at \ {n}) = Picked(s, at \ {n})
      <4>1. Picked(Append(s, x), (at \ {n}) \cup {Len(s) + 1}) = Append(Picked(s, at \ {n}), x)
        BY <3>3, PickedLast
      <4>2. Picked(Append(s, x), at \ {n}) = Picked(s, at \ {n})
        BY <3>3, PickedRest
      <4> QED
        BY <3>1, <3>3, <4>1, <4>2
    <3>5. PICK q \in Seq(Lined) : q = Picked(s, at \ {n})
      BY <3>3, PickedIs
    <3>6. Parsed(ls) = Append(q, x) /\ Parsed(ms) = q
      BY <1>9, <2>2, <3>4, <3>5
    <3>7. \/ IsPrefix(Read(Append(q, x)), Read(q))
          \/ Read(Append(q, x)) # <<>> /\ Read(q) = Front(Read(Append(q, x)))
      BY ReadMore
    <3> QED
      BY <1>2, <1>11, <1>17, <3>6, <3>7 DEF n
  <2> QED
    BY <2>3, <2>4
<1> QED
  BY <1>16, <1>17

(* A file a line is appended to.                                            *)
LEMMA LoadedAppend ==
  ASSUME NEW ls \in Seq(Line), Shaped(ls), ls # <<>>, NEW l \in Line, l.entry \in Entry
  PROVE  /\ Append(ls, l) \in Seq(Line) /\ Append(ls, l) # <<>> /\ Shaped(Append(ls, l))
         /\ Len(Append(ls, l)) = Len(ls) + 1 /\ Append(ls, l)[1] = ls[1]
         /\ \A i \in 1..Len(ls) : Append(ls, l)[i] = ls[i]
         /\ Append(ls, l)[Len(ls) + 1] = l
         /\ \/ IsPrefix(Loaded(ls), Loaded(Append(ls, l)))
            \/ Loaded(ls) # <<>> /\ Loaded(Append(ls, l)) = Front(Loaded(ls))
         /\ AllWhole(ls) => IsPrefix(Loaded(ls), Loaded(Append(ls, l)))
         /\ AllWhole(ls) /\ l.whole /\ l.nl =>
              AllWhole(Append(ls, l)) /\ Loaded(Append(ls, l)) = Append(Loaded(ls), l.entry)
<1> DEFINE n == Len(ls)
<1>1. n \in Nat \ {0}
  OBVIOUS
<1>2. PICK ms \in Seq(Line) : /\ ms = Append(ls, l) /\ Len(ms) = n + 1 /\ ms # <<>>
                              /\ \A i \in 1..n : ms[i] = ls[i]
                              /\ ms[n + 1] = l
  BY AppendProperties
<1>3. 1 \in 1..n /\ n \in 1..n /\ \A i \in 1..(n + 1) : i \in 1..n \/ i = n + 1
  BY <1>1
<1>4. Shaped(ms)
  <2>1. n + 1 # 1
    BY <1>1
  <2>2. \A i \in 1..n : IF i = 1 THEN ls[i].entry \in Headers ELSE ls[i].entry \in Entry
    BY DEF Shaped
  <2> HIDE DEF n
  <2>3. \A i \in 1..(n + 1) : IF i = 1 THEN ms[i].entry \in Headers ELSE ms[i].entry \in Entry
    BY <1>2, <1>3, <2>1, <2>2
  <2> QED
    BY <1>2, <2>3 DEF Shaped
<1>5. AllWhole(ls) => ls[Len(ls)].nl
  BY <1>3 DEF AllWhole
<1>6. /\ \/ IsPrefix(Loaded(ls), Loaded(ms))
         \/ Loaded(ls) # <<>> /\ Loaded(ms) = Front(Loaded(ls))
      /\ AllWhole(ls) => IsPrefix(Loaded(ls), Loaded(ms))
  BY <1>2, <1>5, LoadedMore
<1>7. ASSUME AllWhole(ls), l.whole, l.nl
      PROVE  AllWhole(ms) /\ Loaded(ms) = Append(Loaded(ls), l.entry)
  <2>1. AllWhole(ms)
    <3>1. \A i \in 1..n : ls[i].whole /\ ls[i].nl
      BY <1>7 DEF AllWhole
    <3> HIDE DEF n
    <3> QED
      BY <1>2, <1>3, <1>7, <3>1 DEF AllWhole
  <2>2. PICK r \in Seq(Entry) : /\ r = Loaded(ms) /\ Len(r) = Len(ms) - 1
                                /\ \A k \in 1..Len(r) : r[k] = ms[k + 1].entry
    <3>1. /\ Loaded(ms) \in Seq(Entry) /\ Len(Loaded(ms)) = Len(ms) - 1
          /\ \A k \in 1..Len(Loaded(ms)) : k + 1 \in 1..Len(ms) /\ Loaded(ms)[k] = ms[k + 1].entry
      BY <1>2, <1>4, <2>1, LoadedWhole
    <3> QED
      BY <3>1
  <2>3. PICK q \in Seq(Entry) : /\ q = Loaded(ls) /\ Len(q) = Len(ls) - 1
                                /\ \A k \in 1..Len(q) : q[k] = ls[k + 1].entry
    <3>1. /\ Loaded(ls) \in Seq(Entry) /\ Len(Loaded(ls)) = Len(ls) - 1
          /\ \A k \in 1..Len(Loaded(ls)) : k + 1 \in 1..Len(ls) /\ Loaded(ls)[k] = ls[k + 1].entry
      BY <1>7, LoadedWhole
    <3> QED
      BY <3>1
  <2>4. PICK v \in Seq(Entry) : /\ v = Append(q, l.entry) /\ Len(v) = Len(q) + 1
                                /\ \A k \in 1..Len(q) : v[k] = q[k]
                                /\ v[Len(q) + 1] = l.entry
    BY AppendProperties
  <2>5. Len(v) = Len(r) /\ Len(q) = n - 1 /\ Len(r) = n
    BY <1>1, <1>2, <2>2, <2>3, <2>4
  <2>6. ASSUME NEW k \in 1..Len(r) PROVE r[k] = v[k]
    <3>1. r[k] = ms[k + 1].entry
      BY <2>2
    <3>2. CASE k = n
      BY <1>1, <1>2, <2>4, <2>5, <3>1, <3>2
    <3>3. CASE k # n
      <4>1. k \in 1..Len(q) /\ k + 1 \in 1..n
        BY <1>1, <2>5, <3>3
      <4> QED
        BY <1>2, <2>3, <2>4, <3>1, <4>1
    <3> QED
      BY <3>2, <3>3
  <2>7. r = v
    BY <2>5, <2>6, SeqEqual
  <2> QED
    BY <2>1, <2>2, <2>3, <2>4, <2>7
<1> QED
  BY <1>2, <1>3, <1>4, <1>6, <1>7

----------------------------------------------------------------------------
(* What of a session is in its file *)

Held(there, es) == {i \in DOMAIN there : there[i] \in Range(es)}
Within(there, es) == Picked(there, Held(there, es)) = es

(* A session holds what it loaded.                                          *)
LEMMA WithinSelf ==
  ASSUME NEW es \in Seq(Entry)
  PROVE  Within(es, es)
<1>1. Held(es, es) = DOMAIN es
  BY DEF Held, Range
<1> QED
  BY <1>1 DEF Within, Picked

(* What a session has in its file is in its file.                           *)
LEMMA WithinIn ==
  ASSUME NEW there \in Seq(Entry), NEW es \in Seq(Entry), Within(there, es)
  PROVE  \A k \in 1..Len(es) : \E i \in 1..Len(there) : es[k] = there[i]
<1>1. PICK at : at = Held(there, es) /\ at \in SUBSET (1..Len(there))
  <2>1. DOMAIN there = 1..Len(there)
    OBVIOUS
  <2>2. Held(there, es) \in SUBSET (1..Len(there))
    BY <2>1 DEF Held
  <2> QED
    BY <2>2
<1>2. Picked(there, at) = es
  BY <1>1 DEF Within
<1>3. /\ Len(Picked(there, at)) = Cardinality(at)
      /\ \A k \in 1..Cardinality(at) : \E i \in at : Rank(at, i) = k /\ Picked(there, at)[k] = there[i]
  BY <1>1, PickedIs
<1> QED
  BY <1>1, <1>2, <1>3

(* An entry that is new to the file comes behind others.                    *)
LEMMA WithinMore ==
  ASSUME NEW there \in Seq(Entry), NEW es \in Seq(Entry), NEW e \in Entry, Within(there, es),
         \A i \in 1..Len(es) : es[i] # e
  PROVE  /\ Within(Append(there, e), es)
         /\ (\A i \in 1..Len(there) : there[i] # e) => Within(Append(there, e), Append(es, e))
<1> DEFINE n == Len(there)
<1>1. n \in Nat /\ Len(es) \in Nat /\ DOMAIN there = 1..n /\ DOMAIN es = 1..Len(es)
  OBVIOUS
<1>2. PICK t \in Seq(Entry) : /\ t = Append(there, e) /\ Len(t) = n + 1
                              /\ \A i \in 1..n : t[i] = there[i]
                              /\ t[n + 1] = e
  BY AppendProperties
<1>3. PICK fs \in Seq(Entry) : /\ fs = Append(es, e) /\ Len(fs) = Len(es) + 1
                               /\ \A i \in 1..Len(es) : fs[i] = es[i]
                               /\ fs[Len(es) + 1] = e
  BY AppendProperties
<1>4. DOMAIN t = 1..(n + 1) /\ DOMAIN fs = 1..(Len(es) + 1)
  BY <1>2, <1>3
<1>5. PICK at : at = Held(there, es) /\ at \in SUBSET (1..n)
  <2>1. Held(there, es) \in SUBSET (1..n)
    BY <1>1 DEF Held
  <2> QED
    BY <2>1
<1>6. \A i \in 1..(n + 1) : i \in 1..n \/ i = n + 1
  BY <1>1
<1>7. \A i \in 1..n : i \in 1..(n + 1) /\ i # n + 1
  BY <1>1
<1>8. e \notin Range(es)
  BY <1>1 DEF Range
<1>9. n + 1 \in 1..(n + 1)
  BY <1>1
<1> HIDE DEF n
<1>10. Held(t, es) = at
  <2>1. \A i \in 1..n : i \in at <=> there[i] \in Range(es)
    BY <1>1, <1>5 DEF Held
  <2>2. ASSUME NEW i PROVE i \in Held(t, es) <=> i \in at
    <3>1. i \in Held(t, es) <=> i \in 1..(n + 1) /\ t[i] \in Range(es)
      BY <1>4 DEF Held
    <3>2. i \in at => i \in 1..n
      BY <1>5
    <3>3. CASE i = n + 1
      BY <1>2, <1>7, <1>8, <3>1, <3>2, <3>3
    <3>4. CASE i \in 1..n
      BY <1>2, <1>7, <2>1, <3>1, <3>4
    <3>5. CASE i \notin 1..(n + 1)
      BY <1>7, <3>1, <3>2, <3>5
    <3> QED
      BY <1>6, <3>3, <3>4, <3>5
  <2> QED
    BY <2>2
<1>11. Picked(Append(there, e), at) = Picked(there, at)
  BY <1>5, PickedRest DEF n
<1>12. Within(t, es)
  BY <1>2, <1>5, <1>10, <1>11 DEF Within
<1>13. ASSUME \A i \in 1..n : there[i] # e PROVE Within(t, fs)
  <2>1. ASSUME NEW x PROVE x \in Range(fs) <=> x \in Range(es) \/ x = e
    <3>1. \A i \in 1..(Len(es) + 1) : i \in 1..Len(es) \/ i = Len(es) + 1
      BY <1>1
    <3>2. Len(es) + 1 \in 1..(Len(es) + 1) /\ \A i \in 1..Len(es) : i \in 1..(Len(es) + 1)
      BY <1>1
    <3>3. x \in Range(fs) <=> \E i \in 1..(Len(es) + 1) : x = fs[i]
      BY <1>4 DEF Range
    <3>4. x \in Range(es) <=> \E i \in 1..Len(es) : x = es[i]
      BY <1>1 DEF Range
    <3> QED
      BY <1>3, <3>1, <3>2, <3>3, <3>4
  <2>2. Held(t, fs) = at \cup {n + 1}
    <3>1. \A i \in 1..n : i \in at <=> there[i] \in Range(es)
      BY <1>1, <1>5 DEF Held
    <3>2. ASSUME NEW i PROVE i \in Held(t, fs) <=> i \in at \cup {n + 1}
      <4>1. i \in Held(t, fs) <=> i \in 1..(n + 1) /\ t[i] \in Range(fs)
        BY <1>4 DEF Held
      <4>2. i \in at => i \in 1..n
        BY <1>5
      <4>3. CASE i = n + 1
        BY <1>2, <1>9, <2>1, <4>1, <4>3
      <4>4. CASE i \in 1..n
        <5>1. t[i] = there[i] /\ there[i] # e /\ i # n + 1
          BY <1>2, <1>7, <1>13, <4>4
        <5> QED
          BY <1>7, <2>1, <3>1, <4>1, <4>4, <5>1
      <4>5. CASE i \notin 1..(n + 1)
        BY <1>7, <1>9, <4>1, <4>2, <4>5
      <4> QED
        BY <1>6, <4>3, <4>4, <4>5
    <3> QED
      BY <3>2
  <2>3. Picked(Append(there, e), at \cup {n + 1}) = Append(Picked(there, at), e)
    BY <1>5, PickedLast DEF n
  <2> QED
    BY <1>2, <1>3, <1>5, <2>2, <2>3 DEF Within
<1> QED
  BY <1>2, <1>3, <1>12, <1>13 DEF n

----------------------------------------------------------------------------
(* Writes that are cut short *)

(* What may be left of the line behind the first k.                         *)
Tails(ls, k) == {<<>>} \cup {<<[ls[k + 1] EXCEPT !.whole = w, !.nl = FALSE]>> : w \in BOOLEAN}

(* It is nothing, or a line without its newline.                            *)
LEMMA TailsAre ==
  ASSUME NEW l \in Line, NEW ls, NEW k, l = ls[k + 1], NEW tail, tail \in Tails(ls, k), tail # <<>>
  PROVE  \E t \in Line : t.entry = l.entry /\ tail = <<t>>
<1>1. tail \in {<<[l EXCEPT !.whole = w, !.nl = FALSE]>> : w \in BOOLEAN}
  BY Zenon DEF Tails
<1>2. PICK w : w \in BOOLEAN /\ tail = <<[l EXCEPT !.whole = w, !.nl = FALSE]>>
  BY <1>1, Zenon
<1>3. PICK t : t = [l EXCEPT !.whole = w, !.nl = FALSE]
  OBVIOUS
<1>4. tail = <<t>>
  BY <1>2, <1>3, Zenon
<1>5. t = [entry |-> l.entry, whole |-> w, nl |-> FALSE]
  <2>1. l = [entry |-> l.entry, whole |-> l.whole, nl |-> l.nl]
    BY DEF Line
  <2> QED
    BY <1>3, <2>1
<1>6. l.entry \in Lined
  BY HeadersDiffer
<1>7. w \in BOOLEAN /\ FALSE \in BOOLEAN
  BY <1>2, Zenon
<1>8. t \in Line /\ t.entry = l.entry
  BY <1>5, <1>6, <1>7, HeadersDiffer
<1> QED
  BY <1>4, <1>8

(* A write that is cut leaves lines of what was to be written.              *)
LEMMA CutOfFile ==
  ASSUME NEW ls \in Seq(Line), ls # <<>>, NEW cut \in Cuts(<<>>, ls)
  PROVE  /\ cut \in Seq(Line) /\ Len(cut) <= Len(ls)
         /\ \A i \in 1..Len(cut) : i \in 1..Len(ls) /\ cut[i].entry = ls[i].entry
<1>0. PICK none \in Seq(Line) : none = <<>> /\ cut \in Cuts(none, ls)
  <2>1. <<>> \in Seq(Line)
    BY EmptySeq
  <2> QED
    BY <2>1
<1>1. Len(ls) \in Nat \ {0}
  OBVIOUS
<1>2. PICK k : k \in 0..(Len(ls) - 1)
                /\ \E tail : tail \in Tails(ls, k) /\ cut = none \o SubSeq(ls, 1, k) \o tail
  BY <1>0, Zenon DEF Cuts, Tails
<1>10. PICK tail : tail \in Tails(ls, k) /\ cut = none \o SubSeq(ls, 1, k) \o tail
  BY <1>2, Zenon
<1>11. k \in 0..(Len(ls) - 1)
  BY <1>2, Zenon
<1>3. k \in Nat /\ k + 1 \in 1..Len(ls) /\ k < Len(ls)
  BY <1>1, <1>11
<1>4. \A i \in 1..k : ls[i] \in Line /\ i \in 1..Len(ls)
  BY <1>1, <1>3
<1>5. PICK s \in Seq(Line) : s = SubSeq(ls, 1, k) /\ Len(s) = k /\ \A i \in 1..k : s[i] = ls[i]
  <2>1. /\ SubSeq(ls, 1, k) \in Seq(Line)
        /\ Len(SubSeq(ls, 1, k)) = IF 1 <= k THEN k - 1 + 1 ELSE 0
        /\ \A i \in 1..(k - 1 + 1) : SubSeq(ls, 1, k)[i] = ls[1 + i - 1]
    BY <1>3, <1>4, SubSeqProperties
  <2>2. \A i \in 1..k : 1 + i - 1 = i /\ i \in 1..(k - 1 + 1)
    BY <1>3
  <2>3. Len(SubSeq(ls, 1, k)) = k
    BY <1>3, <2>1
  <2>4. \A i \in 1..k : SubSeq(ls, 1, k)[i] = ls[i]
    BY <2>1, <2>2
  <2> QED
    BY <2>1, <2>3, <2>4
<1>6. none \o s = s
  BY <1>0, ConcatEmptySeq
<1>7. cut = s \o tail
  BY <1>5, <1>6, <1>10
<1>8. CASE tail = <<>>
  <2>1. cut = s
    BY <1>7, <1>8, ConcatEmptySeq
  <2> QED
    BY <1>3, <1>4, <1>5, <2>1
<1>9. CASE tail # <<>>
  <2>2. ls[k + 1] \in Line
    BY <1>3
  <2>3. PICK l \in Line : l.entry = ls[k + 1].entry /\ tail = <<l>>
    BY <1>9, <1>10, <2>2, TailsAre
  <2>4. tail = <<l>>
    BY <2>3
  <2>5. s \o <<l>> = Append(s, l)
    BY AppendIsConcat
  <2>6. /\ Append(s, l) \in Seq(Line) /\ Len(Append(s, l)) = k + 1
        /\ \A i \in 1..k : Append(s, l)[i] = s[i]
        /\ Append(s, l)[k + 1] = l
    <3>1. /\ Append(s, l) \in Seq(Line) /\ Len(Append(s, l)) = Len(s) + 1
          /\ \A i \in 1..Len(s) : Append(s, l)[i] = s[i]
          /\ Append(s, l)[Len(s) + 1] = l
      BY AppendProperties
    <3> QED
      BY <1>5, <3>1
  <2>7. cut = Append(s, l)
    BY <1>7, <2>4, <2>5
  <2>8. ASSUME NEW i \in 1..(k + 1) PROVE i \in 1..Len(ls) /\ Append(s, l)[i].entry = ls[i].entry
    <3>1. CASE i = k + 1
      BY <1>3, <2>3, <2>6, <3>1
    <3>2. CASE i # k + 1
      <4>1. i \in 1..k
        BY <1>3, <3>2
      <4> QED
        BY <1>4, <1>5, <2>6, <4>1
    <3> QED
      BY <3>1, <3>2
  <2>9. k + 1 <= Len(ls)
    BY <1>3
  <2> QED
    BY <2>6, <2>7, <2>8, <2>9
<1> QED
  BY <1>8, <1>9

(* Of one line, a cut leaves nothing or a line without its newline.         *)
LEMMA CutOfLine ==
  ASSUME NEW old \in Seq(Line), NEW l \in Line, NEW cut \in Cuts(old, <<l>>)
  PROVE  cut = old \/ \E t \in Line : t.entry = l.entry /\ cut = Append(old, t)
<1>1. Len(<<l>>) = 1 /\ <<l>>[1] = l
  OBVIOUS
<1>2. PICK k : k \in 0..(Len(<<l>>) - 1)
                /\ \E tail : tail \in Tails(<<l>>, k) /\ cut = old \o SubSeq(<<l>>, 1, k) \o tail
  BY Zenon DEF Cuts, Tails
<1>9. PICK tail : tail \in Tails(<<l>>, k) /\ cut = old \o SubSeq(<<l>>, 1, k) \o tail
  BY <1>2, Zenon
<1>10. k \in 0..(Len(<<l>>) - 1)
  BY <1>2, Zenon
<1>3. k = 0
  BY <1>1, <1>10
<1>4. SubSeq(<<l>>, 1, 0) = <<>>
  <2>1. 1 \in Int /\ 0 \in Int /\ 0 < 1
    OBVIOUS
  <2> QED
    BY <2>1, SubSeqEmpty
<1>5. old \o <<>> = old
  BY ConcatEmptySeq
<1>6. cut = old \o tail
  BY <1>3, <1>4, <1>5, <1>9
<1>7. CASE tail = <<>>
  BY <1>5, <1>6, <1>7
<1>8. CASE tail # <<>>
  <2>1. l = <<l>>[k + 1]
    BY <1>1, <1>3
  <2>2. PICK ls : ls = <<l>>
    OBVIOUS
  <2>3. PICK t \in Line : t.entry = l.entry /\ tail = <<t>>
    BY <1>8, <1>9, <2>1, <2>2, TailsAre
  <2>4. tail = <<t>>
    BY <2>3
  <2>5. old \o <<t>> = Append(old, t)
    BY AppendIsConcat
  <2> QED
    BY <1>6, <2>3, <2>4, <2>5
<1> QED
  BY <1>7, <1>8

----------------------------------------------------------------------------
(* Trees *)

(* The entries form trees, and their ids are given away.                    *)
Rooted(es) == \A i \in 1..Len(es) : RootOrChild(es, i)
Known(es, n) == \A i \in 1..Len(es) : es[i].id <= n /\ (es[i].id = Null => es[i].parent = Null)

(* The ids of entries.                                                      *)
LEMMA IdsAre ==
  ASSUME NEW es \in Seq(Entry)
  PROVE  /\ Ids(es) \subseteq Nat
         /\ \A x : x \in Ids(es) <=> \E i \in 1..Len(es) : x = es[i].id
<1>1. DOMAIN es = 1..Len(es)
  OBVIOUS
<1>2. \A i \in 1..Len(es) : es[i] \in Entry
  OBVIOUS
<1>3. \A i \in 1..Len(es) : es[i].id \in Nat
  BY <1>2, HeadersDiffer
<1>4. \A x : x \in Ids(es) <=> \E i \in 1..Len(es) : x = es[i].id
  BY <1>1 DEF Ids
<1> QED
  BY <1>3, <1>4

(* A root or a child of what is there may be added to a tree.               *)
LEMMA RootedMore ==
  ASSUME NEW es \in Seq(Entry), NEW e \in Entry, Rooted(es), e.parent = Null \/ e.parent \in Ids(es)
  PROVE  Rooted(Append(es, e))
<1>1. Len(es) \in Nat
  OBVIOUS
<1>2. PICK t \in Seq(Entry) : /\ t = Append(es, e) /\ Len(t) = Len(es) + 1
                              /\ \A i \in 1..Len(es) : t[i] = es[i]
                              /\ t[Len(es) + 1] = e
  BY AppendProperties
<1>3. ASSUME NEW i \in 1..Len(t) PROVE RootOrChild(t, i)
  <2>1. CASE i = Len(es) + 1
    <3>1. 1..(i - 1) = 1..Len(es)
      BY <1>1, <2>1
    <3>2. e.parent = Null \/ \E j \in 1..Len(es) : es[j].id = e.parent
      BY IdsAre
    <3> QED
      BY <1>2, <2>1, <3>1, <3>2 DEF RootOrChild
  <2>2. CASE i # Len(es) + 1
    <3>1. i \in 1..Len(es)
      BY <1>1, <1>2, <2>2
    <3>2. \A j \in 1..(i - 1) : j \in 1..Len(es)
      BY <1>1, <3>1
    <3>3. RootOrChild(es, i)
      BY <3>1 DEF Rooted
    <3> QED
      BY <1>2, <3>1, <3>2, <3>3 DEF RootOrChild
  <2> QED
    BY <2>1, <2>2
<1> QED
  BY <1>2, <1>3 DEF Rooted

(* A new entry's id is given away too.                                      *)
LEMMA KnownMore ==
  ASSUME NEW es \in Seq(Entry), NEW n \in Nat, NEW m \in Nat, n <= m, Known(es, n)
  PROVE  /\ Known(es, m)
         /\ \A e \in Entry : e.id <= m /\ e.id # Null => Known(Append(es, e), m)
<1>1. Len(es) \in Nat /\ \A i \in 1..Len(es) : es[i] \in Entry
  OBVIOUS
<1>2. \A i \in 1..Len(es) : es[i].id \in Nat
  BY <1>1, HeadersDiffer
<1>3. Known(es, m)
  BY <1>2 DEF Known
<1>4. ASSUME NEW e \in Entry, e.id <= m, e.id # Null PROVE Known(Append(es, e), m)
  <2>1. PICK t \in Seq(Entry) : /\ t = Append(es, e) /\ Len(t) = Len(es) + 1
                                /\ \A i \in 1..Len(es) : t[i] = es[i]
                                /\ t[Len(es) + 1] = e
    BY AppendProperties
  <2>2. \A i \in 1..Len(t) : i \in 1..Len(es) \/ i = Len(es) + 1
    BY <1>1, <2>1
  <2> QED
    BY <1>3, <1>4, <2>1, <2>2 DEF Known
<1> QED
  BY <1>3, <1>4

(* The entry of an id.                                                      *)
LEMMA ByIdIs ==
  ASSUME NEW es \in Seq(Entry), NEW id \in Ids(es)
  PROVE  \E i \in 1..Len(es) : ById(es, id) = es[i] /\ es[i].id = id
<1> DEFINE S == {i \in 1..Len(es) : es[i].id = id}
           Is(i) == es[i].id = id /\ \A j \in DOMAIN es : es[j].id = id => j <= i
           at == CHOOSE i \in DOMAIN es : Is(i)
<1>1. Len(es) \in Nat /\ DOMAIN es = 1..Len(es)
  OBVIOUS
<1>2. S \in SUBSET (0..Len(es)) /\ S # {}
  <2>1. \A i \in 1..Len(es) : i \in 0..Len(es)
    BY <1>1
  <2>2. \E i \in 1..Len(es) : id = es[i].id
    BY IdsAre
  <2> QED
    BY <2>1, <2>2
<1>3. PICK g \in S : \A i \in S : i <= g
  BY <1>1, <1>2, Greatest
<1>4. g \in DOMAIN es /\ Is(g)
  BY <1>1, <1>3
<1> HIDE DEF Is
<1>5. at \in DOMAIN es /\ Is(at)
  BY <1>4
<1>6. ById(es, id) = es[at]
  BY DEF ById, Is
<1> HIDE DEF at
<1>7. es[at].id = id
  BY <1>5 DEF Is
<1> QED
  BY <1>1, <1>5, <1>6, <1>7

(* up leads from an entry towards its root.                                 *)
Climbs(up, es, leaf, m) ==
  \A n \in 0..m : up[n] = IF n = 0 THEN leaf
                          ELSE IF up[n - 1] \in Ids(es) THEN ById(es, up[n - 1]).parent ELSE Null

(* There is a way up.                                                       *)
LEMMA ClimbsExist ==
  ASSUME NEW es, NEW leaf, NEW N \in Nat
  PROVE  \E up : Climbs(up, es, leaf, N)
<1> DEFINE B == {n \in Nat : ~\E up : Climbs(up, es, leaf, n)}
<1> SUFFICES ASSUME B # {} PROVE FALSE
  OBVIOUS
<1>1. PICK n \in B : \A m \in B : n <= m
  BY LeastFailure
<1>2. CASE n = 0
  <2> DEFINE h == [i \in {0} |-> leaf]
  <2>1. \A i \in 0..0 : i = 0 /\ h[i] = leaf
    OBVIOUS
  <2>2. Climbs(h, es, leaf, 0)
    <3> HIDE DEF h
    <3> QED
      BY <2>1 DEF Climbs
  <2> QED
    BY <1>1, <1>2, <2>2
<1>3. CASE n # 0
  <2>1. n - 1 \in Nat /\ n - 1 \notin B
    BY <1>1, <1>3
  <2>2. PICK up : Climbs(up, es, leaf, n - 1)
    BY <2>1
  <2> DEFINE next == IF up[n - 1] \in Ids(es) THEN ById(es, up[n - 1]).parent ELSE Null
             h == [i \in 0..n |-> IF i = n THEN next ELSE up[i]]
  <2>3. \A i \in 0..(n - 1) : h[i] = up[i] /\ i \in 0..n /\ i # n
    BY <2>1
  <2>4. h[n] = next /\ n \in 0..n
    BY <2>1
  <2> HIDE DEF h
  <2>5. ASSUME NEW i \in 0..n
        PROVE  h[i] = IF i = 0 THEN leaf
                      ELSE IF h[i - 1] \in Ids(es) THEN ById(es, h[i - 1]).parent ELSE Null
    <3>1. CASE i = n
      <4>1. n - 1 \in 0..(n - 1)
        BY <2>1
      <4>2. h[n - 1] = up[n - 1]
        BY <2>3, <4>1
      <4> QED
        BY <1>3, <2>4, <3>1, <4>2
    <3>2. CASE i # n
      <4>1. i \in 0..(n - 1)
        BY <2>1, <3>2
      <4>2. i # 0 => i - 1 \in 0..(n - 1)
        BY <2>1, <4>1
      <4>3. i # 0 => h[i - 1] = up[i - 1]
        BY <2>3, <4>2
      <4>4. up[i] = IF i = 0 THEN leaf
                    ELSE IF up[i - 1] \in Ids(es) THEN ById(es, up[i - 1]).parent ELSE Null
        BY <2>2, <4>1 DEF Climbs
      <4> QED
        BY <2>3, <4>1, <4>3, <4>4
    <3> QED
      BY <3>1, <3>2
  <2>6. Climbs(h, es, leaf, n)
    BY <2>5 DEF Climbs
  <2> QED
    BY <1>1, <2>6
<1> QED
  BY <1>2, <1>3

(* A branch is a way up, from its end.                                      *)
LEMMA BranchUnfolds ==
  ASSUME NEW es \in Seq(Entry), NEW leaf
  PROVE  \E up : /\ Climbs(up, es, leaf, Len(es))
                 /\ LET depth == Cardinality({n \in 0..Len(es) : up[n] # Null /\ up[n] \in Ids(es)})
                    IN  Branch(es, leaf) = [k \in 1..depth |-> ById(es, up[depth - k])]
<1> DEFINE Is(u) == u = [n \in 0..Len(es) |->
                           IF n = 0 THEN leaf
                           ELSE IF u[n - 1] \in Ids(es) THEN ById(es, u[n - 1]).parent ELSE Null]
           up == CHOOSE u : Is(u)
           depth == Cardinality({n \in 0..Len(es) : up[n] # Null /\ up[n] \in Ids(es)})
<1>1. Branch(es, leaf) = [k \in 1..depth |-> ById(es, up[depth - k])]
  BY DEF Branch
<1>2. \E u : Is(u)
  <2>0. PICK N \in Nat : N = Len(es)
    OBVIOUS
  <2>1. PICK u : Climbs(u, es, leaf, Len(es))
    BY <2>0, ClimbsExist
  <2> DEFINE h == [n \in 0..Len(es) |-> u[n]]
  <2>2. \A n \in 0..Len(es) : n # 0 => n - 1 \in 0..Len(es)
    OBVIOUS
  <2>3. \A n \in 0..Len(es) :
          u[n] = IF n = 0 THEN leaf
                 ELSE IF h[n - 1] \in Ids(es) THEN ById(es, h[n - 1]).parent ELSE Null
    BY <2>1, <2>2 DEF Climbs
  <2>4. Is(h)
    BY <2>3
  <2> QED
    BY <2>4
<1>3. Is(up)
  <2> HIDE DEF Is
  <2> QED
    BY <1>2
<1>4. Climbs(up, es, leaf, Len(es))
  <2> HIDE DEF up
  <2> QED
    BY <1>3 DEF Climbs
<1> HIDE DEF up
<1> QED
  BY <1>1, <1>4

(* A branch is made of entries that have ids.                               *)
LEMMA BranchIs ==
  ASSUME NEW es \in Seq(Entry), NEW n, Known(es, n), NEW leaf
  PROVE  /\ Branch(es, leaf) \in Seq(Entry)
         /\ \A k \in 1..Len(Branch(es, leaf)) : \E i \in 1..Len(es) :
              Branch(es, leaf)[k] = es[i] /\ es[i].id # Null
<1>1. PICK up : /\ Climbs(up, es, leaf, Len(es))
                /\ LET depth == Cardinality({m \in 0..Len(es) : up[m] # Null /\ up[m] \in Ids(es)})
                   IN  Branch(es, leaf) = [k \in 1..depth |-> ById(es, up[depth - k])]
  BY BranchUnfolds
<1> DEFINE On(m) == up[m] # Null /\ up[m] \in Ids(es)
           S == {m \in 0..Len(es) : On(m)}
           depth == Cardinality(S)
<1>2. Len(es) \in Nat
  OBVIOUS
<1>3. Branch(es, leaf) = [k \in 1..depth |-> ById(es, up[depth - k])]
  BY <1>1
<1>4. \A m \in 0..Len(es) : up[m] = IF m = 0 THEN leaf
        ELSE IF up[m - 1] \in Ids(es) THEN ById(es, up[m - 1]).parent ELSE Null
  BY <1>1 DEF Climbs
<1>5. ASSUME NEW m \in 0..Len(es), m # 0, On(m) PROVE On(m - 1)
  <2>1. up[m] = IF up[m - 1] \in Ids(es) THEN ById(es, up[m - 1]).parent ELSE Null
    BY <1>4, <1>5
  <2>2. up[m] # Null
    BY <1>5
  <2>3. up[m - 1] \in Ids(es) /\ ById(es, up[m - 1]).parent # Null
    BY <2>1, <2>2
  <2>4. PICK i \in 1..Len(es) : ById(es, up[m - 1]) = es[i] /\ es[i].id = up[m - 1]
    BY <2>3, ByIdIs
  <2>5. up[m - 1] # Null
    BY <2>3, <2>4 DEF Known
  <2> QED
    BY <2>3, <2>5
<1> HIDE DEF On
<1>6. S \in SUBSET (0..Len(es)) /\ IsFiniteSet(S) /\ depth \in Nat /\ depth <= Len(es) + 1
  <2>1. 0 \in Int /\ Len(es) \in Int
    BY <1>2
  <2>2. IsFiniteSet(0..Len(es)) /\ Cardinality(0..Len(es)) = IF 0 > Len(es) THEN 0 ELSE Len(es) - 0 + 1
    BY <2>1, FS_Interval
  <2>3. Cardinality(0..Len(es)) = Len(es) + 1
    BY <1>2, <2>2
  <2>4. S \in SUBSET (0..Len(es))
    OBVIOUS
  <2>5. IsFiniteSet(S) /\ Cardinality(S) <= Len(es) + 1
    BY <2>2, <2>3, <2>4, FS_Subset
  <2>6. Cardinality(S) \in Nat
    BY <2>5, FS_CardinalityType
  <2> QED
    BY <2>4, <2>5, <2>6
<1>7. ASSUME NEW m \in 0..Len(es), m < depth, ~On(m) PROVE FALSE
  <2> DEFINE B == {x \in 0..Len(es) : x >= m /\ On(x)}
  <2>1. B = {}
    <3> SUFFICES ASSUME B # {} PROVE FALSE
      OBVIOUS
    <3>1. B \in SUBSET Nat
      OBVIOUS
    <3>2. PICK x \in B : \A y \in B : x <= y
      BY <3>1, LeastFailure
    <3>3. x \in 0..Len(es) /\ On(x) /\ x >= m /\ x # m
      BY <1>7, <3>2
    <3>4. x # 0 /\ x - 1 \in 0..Len(es) /\ x - 1 >= m
      BY <3>3
    <3>5. On(x - 1)
      BY <1>5, <3>3, <3>4
    <3>6. x - 1 \in B /\ ~(x <= x - 1)
      BY <3>3, <3>4, <3>5
    <3> QED
      BY <3>2, <3>6
  <2>2. S \in SUBSET (0..(m - 1))
    <3>1. ASSUME NEW x \in S PROVE x \in 0..(m - 1)
      <4>1. x \in 0..Len(es) /\ On(x)
        OBVIOUS
      <4>2. ~(x >= m)
        BY <2>1, <4>1
      <4> QED
        BY <4>1, <4>2
    <3> QED
      BY <3>1
  <2>3. 0 \in Int /\ m - 1 \in Int
    OBVIOUS
  <2>4. IsFiniteSet(0..(m - 1)) /\ Cardinality(0..(m - 1)) = IF 0 > m - 1 THEN 0 ELSE m - 1 - 0 + 1
    BY <2>3, FS_Interval
  <2>5. Cardinality(0..(m - 1)) = m
    BY <2>4
  <2>6. Cardinality(S) <= m
    BY <2>2, <2>4, <2>5, FS_Subset
  <2> QED
    BY <1>6, <1>7, <2>6
<1> HIDE DEF S
<1>8. ASSUME NEW k \in 1..depth
      PROVE  \E i \in 1..Len(es) : ById(es, up[depth - k]) = es[i] /\ es[i].id # Null
  <2>1. depth - k \in 0..Len(es) /\ depth - k < depth
    BY <1>2, <1>6
  <2>2. On(depth - k)
    BY <1>7, <2>1
  <2>3. up[depth - k] # Null /\ up[depth - k] \in Ids(es)
    BY <2>2 DEF On
  <2>4. PICK i \in 1..Len(es) : ById(es, up[depth - k]) = es[i] /\ es[i].id = up[depth - k]
    BY <2>3, ByIdIs
  <2> QED
    BY <2>3, <2>4
<1>9. depth \in Nat
  BY <1>6
<1> HIDE DEF depth
<1>10. \A k \in 1..depth : ById(es, up[depth - k]) \in Entry
  BY <1>8
<1>11. [k \in 1..depth |-> ById(es, up[depth - k])] \in Seq(Entry)
  BY <1>9, <1>10
<1>12. Len([k \in 1..depth |-> ById(es, up[depth - k])]) = depth
  BY <1>9
<1> QED
  BY <1>3, <1>8, <1>11, <1>12

(* What a summary may keep from has an id.                                  *)
LEMMA FirstKeptIds ==
  ASSUME NEW path \in Seq(Entry)
  PROVE  FirstKept(path) \subseteq Nat
<1> DEFINE compactions == {i \in DOMAIN path : path[i].kind = "compaction"}
           last == CHOOSE i \in compactions : \A j \in compactions : j <= i
           kept == {i \in DOMAIN path : path[i].id = path[last].ref}
           start == IF compactions = {} THEN 1
                    ELSE IF kept = {} THEN last + 1 ELSE CHOOSE i \in kept : TRUE
           stops(i) == path[i].kind \in {"user", "assistant", "compaction"}
           back(i) == {j \in start..i : j = start \/ stops(j - 1)}
           cut(i) == CHOOSE j \in back(i) : \A k \in back(i) : k <= j
           P == {i \in start..Len(path) :
                   IsMessage(path[i]) /\ \E j \in start..(cut(i) - 1) : IsMessage(path[j])}
<1>1. FirstKept(path) = IF path # <<>> /\ IsCompaction(Last(path)) THEN {}
                        ELSE {path[cut(i)].id : i \in P}
  BY DEF FirstKept
<1>2. Len(path) \in Nat /\ DOMAIN path = 1..Len(path)
  OBVIOUS
<1>3. \A i \in 1..Len(path) : path[i].id \in Nat
  <2>1. \A i \in 1..Len(path) : path[i] \in Entry
    OBVIOUS
  <2> QED
    BY <2>1, HeadersDiffer
<1>4. compactions # {} => last \in 1..Len(path)
  <2>1. compactions \in SUBSET (0..Len(path)) /\ compactions \subseteq 1..Len(path)
    BY <1>2
  <2> HIDE DEF compactions
  <2>2. compactions # {} => \E i \in compactions : \A j \in compactions : j <= i
    BY <1>2, <2>1, Greatest
  <2>3. compactions # {} => last \in compactions
    BY <2>2
  <2> QED
    BY <2>1, <2>3
<1>5. kept \subseteq 1..Len(path)
  BY <1>2
<1> HIDE DEF kept, last, compactions
<1>6. start \in Nat /\ start >= 1
  <2>1. compactions # {} => last \in Nat /\ last >= 1
    BY <1>2, <1>4
  <2>2. kept # {} => (CHOOSE i \in kept : TRUE) \in kept
    OBVIOUS
  <2>3. kept # {} => (CHOOSE i \in kept : TRUE) \in 1..Len(path)
    BY <1>5, <2>2
  <2> QED
    BY <1>2, <2>1, <2>3
<1> HIDE DEF start
<1>7. ASSUME NEW i \in start..Len(path) PROVE cut(i) \in 1..Len(path)
  <2>1. back(i) \in SUBSET (0..Len(path)) /\ back(i) \subseteq 1..Len(path)
    BY <1>2, <1>6
  <2>2. start \in back(i)
    BY <1>2, <1>6
  <2> HIDE DEF back
  <2>3. \E g \in back(i) : \A j \in back(i) : j <= g
    BY <1>2, <2>1, <2>2, Greatest
  <2>4. cut(i) \in back(i)
    BY <2>3
  <2> QED
    BY <2>1, <2>4
<1> HIDE DEF cut
<1>8. \A i \in P : path[cut(i)].id \in Nat
  BY <1>3, <1>7
<1> HIDE DEF P
<1> QED
  BY <1>1, <1>8

----------------------------------------------------------------------------
(* What is made of entries *)

(* A migrated file is a chain of entries with ids of their own.             *)
LEMMA MigratedIs ==
  ASSUME NEW es \in Seq(Entry), lastId \in Nat
  PROVE  /\ Migrated(es) \in Seq(Entry) /\ Len(Migrated(es)) = Len(es)
         /\ Rooted(Migrated(es)) /\ Known(Migrated(es), lastId + Len(es))
         /\ \A i \in 1..Len(es) : /\ Migrated(es)[i].id = lastId + i
                                 /\ Migrated(es)[i].parent = IF i = 1 THEN Null ELSE lastId + i - 1
         /\ Trees!Same(es, Migrated(es))
<1>1. Len(es) \in Nat /\ DOMAIN es = 1..Len(es) /\ \A i \in 1..Len(es) : es[i] \in Entry
  OBVIOUS
<1> DEFINE par(i) == IF i = 1 THEN Null ELSE lastId + i - 1
           ref(i) == IF es[i].kind # "compaction" THEN es[i].ref
                     ELSE IF es[i].ref \in DOMAIN es THEN lastId + es[i].ref ELSE Null
           new(i) == [es[i] EXCEPT !.id = lastId + i, !.parent = par(i), !.ref = ref(i)]
           t == [i \in 1..Len(es) |-> new(i)]
<1>2. Migrated(es) = t
  BY <1>1 DEF Migrated
<1>3. \A i \in 1..Len(es) : lastId + i \in Nat /\ par(i) \in Nat /\ lastId + i # Null
  BY <1>1 DEF Null
<1>4. ASSUME NEW i \in 1..Len(es)
      PROVE  /\ new(i) \in Entry /\ new(i).id = lastId + i /\ new(i).parent = par(i)
             /\ new(i).kind = es[i].kind /\ new(i).ref = ref(i)
  <2>1. es[i] \in Entry /\ lastId + i \in Nat /\ par(i) \in Nat
    BY <1>1, <1>3
  <2>2. ref(i) \in Nat
    BY <2>1 DEF Entry, Null
  <2> HIDE DEF par, ref
  <2> QED
    BY <2>1, <2>2 DEF Entry
<1> HIDE DEF new
<1>5. t \in Seq(Entry) /\ Len(t) = Len(es) /\ \A i \in 1..Len(es) : t[i] = new(i)
  BY <1>1, <1>4
<1> HIDE DEF t
<1>6. \A i \in 1..Len(t) : t[i].id = lastId + i /\ t[i].parent = par(i)
  BY <1>4, <1>5
<1>7. Rooted(t)
  <2>1. ASSUME NEW i \in 1..Len(t), i # 1
        PROVE  i - 1 \in 1..(i - 1) /\ t[i - 1].id = t[i].parent
    <3>1. i - 1 \in 1..Len(t) /\ i - 1 \in 1..(i - 1)
      BY <1>1, <1>5, <2>1
    <3>2. t[i - 1].id = lastId + (i - 1) /\ t[i].parent = lastId + i - 1
      BY <1>6, <2>1, <3>1
    <3> QED
      BY <1>1, <1>5, <3>1, <3>2
  <2>2. \A i \in 1..Len(t) : i = 1 => t[i].parent = Null
    BY <1>6
  <2> QED
    BY <2>1, <2>2 DEF Rooted, RootOrChild
<1>8. Known(t, lastId + Len(es))
  <2>1. \A i \in 1..Len(t) : lastId + i <= lastId + Len(es)
    BY <1>1, <1>5
  <2> QED
    BY <1>3, <1>5, <1>6, <2>1 DEF Known
<1>9. Trees!Same(es, t)
  <2>1. ASSUME NEW i \in 1..Len(es)
        PROVE  /\ t[i].kind = es[i].kind
               /\ es[i].kind = "compaction" /\ es[i].ref \in 1..Len(es) => t[i].ref = t[es[i].ref].id
    <3>1. t[i].kind = es[i].kind /\ t[i].ref = ref(i)
      BY <1>4, <1>5
    <3>2. es[i].ref \in 1..Len(es) => t[es[i].ref].id = lastId + es[i].ref
      BY <1>5, <1>6
    <3> QED
      BY <1>1, <3>1, <3>2
  <2> QED
    BY <1>1, <1>5, <2>1 DEF Trees!Same
<1> QED
  BY <1>2, <1>5, <1>6, <1>7, <1>8, <1>9

(* The path of a fork is a chain of entries that were there.                *)
LEMMA ChainIs ==
  ASSUME NEW es \in Seq(Entry), NEW n \in Nat, Known(es, n), NEW id
  PROVE  LET kept == Chained(Retained(Branch(es, id)))
         IN  /\ kept \in Seq(Entry) /\ Rooted(kept)
             /\ \A i \in 1..Len(kept) : kept[i].id # Null /\ kept[i].id <= n
<1>1. PICK b \in Seq(Entry) : /\ b = Branch(es, id)
                              /\ \A k \in 1..Len(b) : \E i \in 1..Len(es) : b[k] = es[i] /\ es[i].id # Null
  BY BranchIs
<1> DEFINE at == {i \in DOMAIN b : ~IsLabel(b[i])}
<1>2. Retained(b) = Picked(b, at) /\ at \in SUBSET (1..Len(b))
  BY DEF Retained
<1> HIDE DEF at
<1>3. Retained(b) \in Seq(Entry)
  BY <1>2, PickedIs
<1>4. PICK r \in Seq(Entry) : r = Retained(b)
  BY <1>3
<1>5. ASSUME NEW k \in 1..Len(r) PROVE r[k].id # Null /\ r[k].id <= n
  <2>1. /\ Len(Picked(b, at)) = Cardinality(at)
        /\ \A j \in 1..Cardinality(at) : \E i \in at : Rank(at, i) = j /\ Picked(b, at)[j] = b[i]
    BY <1>2, PickedIs
  <2>2. PICK i \in at : r[k] = b[i]
    BY <1>2, <1>4, <2>1
  <2>3. PICK j \in 1..Len(es) : b[i] = es[j] /\ es[j].id # Null
    BY <1>1, <1>2
  <2> QED
    BY <2>2, <2>3 DEF Known
<1>6. Len(r) \in Nat /\ DOMAIN r = 1..Len(r) /\ \A i \in 1..Len(r) : r[i] \in Entry
  OBVIOUS
<1> DEFINE par(i) == IF i = 1 THEN Null ELSE r[i - 1].id
           new(i) == [r[i] EXCEPT !.parent = par(i)]
           t == [i \in 1..Len(r) |-> new(i)]
<1>7. Chained(r) = t
  BY <1>6 DEF Chained
<1>8. ASSUME NEW i \in 1..Len(r) PROVE par(i) \in Nat
  <2>1. i # 1 => i - 1 \in 1..Len(r)
    BY <1>6
  <2>2. i # 1 => r[i - 1].id \in Nat
    BY <1>6, <2>1, HeadersDiffer
  <2> QED
    BY <2>2 DEF Null
<1>9. ASSUME NEW i \in 1..Len(r)
      PROVE  new(i) \in Entry /\ new(i).id = r[i].id /\ new(i).parent = par(i)
  <2>1. r[i] \in Entry /\ par(i) \in Nat
    BY <1>6, <1>8
  <2> HIDE DEF par
  <2> QED
    BY <2>1 DEF Entry
<1> HIDE DEF new
<1>10. t \in Seq(Entry) /\ Len(t) = Len(r) /\ \A i \in 1..Len(r) : t[i] = new(i)
  BY <1>6, <1>9
<1> HIDE DEF t
<1>11. \A i \in 1..Len(t) : t[i].id = r[i].id /\ t[i].parent = par(i)
  BY <1>9, <1>10
<1>12. Rooted(t)
  <2>1. ASSUME NEW i \in 1..Len(t), i # 1
        PROVE  i - 1 \in 1..(i - 1) /\ t[i - 1].id = t[i].parent
    <3>1. i - 1 \in 1..Len(t) /\ i - 1 \in 1..(i - 1)
      BY <1>6, <1>10, <2>1
    <3> QED
      BY <1>11, <2>1, <3>1
  <2>2. \A i \in 1..Len(t) : i = 1 => t[i].parent = Null
    BY <1>11
  <2> QED
    BY <2>1, <2>2 DEF Rooted, RootOrChild
<1>13. \A i \in 1..Len(t) : t[i].id # Null /\ t[i].id <= n
  BY <1>5, <1>10, <1>11
<1>14. t = Chained(Retained(Branch(es, id)))
  BY <1>1, <1>4, <1>7
<1> QED
  BY <1>10, <1>12, <1>13, <1>14

(* The labels that are made again form a chain behind the path.             *)
LEMMA LabelsAre ==
  ASSUME NEW kept \in Seq(Entry), NEW labelled, lastId \in Nat
  PROVE  LET ls == LabelsAgain(kept, labelled)
         IN  /\ ls \in Seq(Entry) /\ (kept = <<>> => Len(ls) = 0)
             /\ \A k \in 1..Len(ls) :
                  /\ ls[k].id = lastId + k
                  /\ ls[k].parent = IF k = 1 THEN IF kept = <<>> THEN Null ELSE Last(kept).id
                                    ELSE lastId + k - 1
<1> DEFINE at == {i \in DOMAIN kept : kept[i].id \in labelled}
           leaf == IF kept = <<>> THEN Null ELSE Last(kept).id
           targets == Picked(kept, at)
           par(k) == IF k = 1 THEN leaf ELSE lastId + k - 1
           new(k) == [id |-> lastId + k, parent |-> par(k), kind |-> "label", ref |-> targets[k].id]
           t == [k \in DOMAIN targets |-> new(k)]
<1>1. LabelsAgain(kept, labelled) = t
  BY DEF LabelsAgain
<1>2. at \in SUBSET (1..Len(kept)) /\ (kept = <<>> => at = {})
  OBVIOUS
<1>3. leaf \in Nat
  <2>1. kept # <<>> => Len(kept) \in 1..Len(kept) /\ Last(kept) = kept[Len(kept)]
    BY DEF Last
  <2>2. kept # <<>> => Last(kept).id \in Nat
    BY <2>1, HeadersDiffer
  <2> QED
    BY <2>2 DEF Null
<1> HIDE DEF at
<1>4. targets \in Seq(Entry) /\ Len(targets) = Cardinality(at)
  BY <1>2, PickedIs
<1>5. kept = <<>> => Len(targets) = 0
  BY <1>2, <1>4, FS_EmptySet
<1> HIDE DEF targets, leaf
<1>6. Len(targets) \in Nat /\ DOMAIN targets = 1..Len(targets)
      /\ \A k \in 1..Len(targets) : targets[k] \in Entry
  BY <1>4
<1>7. \A k \in 1..Len(targets) : par(k) \in Nat /\ lastId + k \in Nat /\ targets[k].id \in Nat
  <2>1. \A k \in 1..Len(targets) : targets[k].id \in Nat
    BY <1>6, HeadersDiffer
  <2> QED
    BY <1>3, <1>6, <2>1
<1> HIDE DEF par
<1>8. ASSUME NEW k \in 1..Len(targets)
      PROVE  new(k) \in Entry /\ new(k).id = lastId + k /\ new(k).parent = par(k)
  BY <1>7 DEF Entry, Kind
<1> HIDE DEF new
<1>9. t \in Seq(Entry) /\ Len(t) = Len(targets) /\ \A k \in 1..Len(targets) : t[k] = new(k)
  BY <1>6, <1>8
<1> HIDE DEF t
<1>10. \A k \in 1..Len(t) : t[k].id = lastId + k /\ t[k].parent = par(k)
  BY <1>8, <1>9
<1>11. kept = <<>> => Len(t) = 0
  BY <1>5, <1>9
<1>12. \A k \in 1..Len(t) :
         t[k].parent = IF k = 1 THEN IF kept = <<>> THEN Null ELSE Last(kept).id ELSE lastId + k - 1
  BY <1>10 DEF par, leaf
<1> QED
  BY <1>1, <1>9, <1>10, <1>11, <1>12

(* A fork is a tree, and its labels are all that is given an id.            *)
LEMMA BranchedIs ==
  ASSUME NEW es \in Seq(Entry), lastId \in Nat, Known(es, lastId), NEW id
  PROVE  LET b == Branched(es, id)
             labels == Cardinality({i \in DOMAIN b : b[i].id > lastId})
         IN  /\ b \in Seq(Entry) /\ Rooted(b)
             /\ labels \in Nat /\ Known(b, lastId + labels)
<1>1. PICK c \in Seq(Entry) : /\ c = Chained(Retained(Branch(es, id))) /\ Rooted(c)
                              /\ \A i \in 1..Len(c) : c[i].id # Null /\ c[i].id <= lastId
  BY ChainIs
<1>2. PICK ls \in Seq(Entry) :
        /\ ls = LabelsAgain(c, Labelled(es)) /\ (c = <<>> => Len(ls) = 0)
        /\ \A k \in 1..Len(ls) :
             /\ ls[k].id = lastId + k
             /\ ls[k].parent = IF k = 1 THEN IF c = <<>> THEN Null ELSE Last(c).id ELSE lastId + k - 1
  BY LabelsAre
<1>3. Branched(es, id) = c \o ls
  BY <1>1, <1>2 DEF Branched
<1>4. PICK b \in Seq(Entry) : b = c \o ls
  BY ConcatProperties
<1>5. /\ Len(b) = Len(c) + Len(ls)
      /\ \A i \in 1..Len(c) : b[i] = c[i]
  <2>1. /\ Len(c \o ls) = Len(c) + Len(ls)
        /\ \A i \in 1..(Len(c) + Len(ls)) : (c \o ls)[i] = IF i <= Len(c) THEN c[i] ELSE ls[i - Len(c)]
    BY ConcatProperties
  <2> QED
    BY <1>4, <2>1
<1>6. \A k \in 1..Len(ls) : b[Len(c) + k] = ls[k]
  <2>1. \A i \in 1..(Len(c) + Len(ls)) : (c \o ls)[i] = IF i <= Len(c) THEN c[i] ELSE ls[i - Len(c)]
    BY ConcatProperties
  <2>2. ASSUME NEW k \in 1..Len(ls) PROVE b[Len(c) + k] = ls[k]
    <3>1. Len(c) + k \in 1..(Len(c) + Len(ls)) /\ ~(Len(c) + k <= Len(c)) /\ Len(c) + k - Len(c) = k
      OBVIOUS
    <3> QED
      BY <1>4, <2>1, <3>1
  <2> QED
    BY <2>2
<1>7. Len(c) \in Nat /\ Len(ls) \in Nat /\ DOMAIN b = 1..Len(b)
  OBVIOUS
<1>8. ASSUME NEW i \in 1..Len(b), ~(i \in 1..Len(c))
      PROVE  i - Len(c) \in 1..Len(ls) /\ i = Len(c) + (i - Len(c)) /\ b[i] = ls[i - Len(c)]
  <2>1. i - Len(c) \in 1..Len(ls) /\ i = Len(c) + (i - Len(c))
    BY <1>5, <1>7, <1>8
  <2> QED
    BY <1>6, <2>1
<1> DEFINE S == {i \in DOMAIN b : b[i].id > lastId}
<1>9. S = (Len(c) + 1)..Len(b)
  <2>1. ASSUME NEW i \in 1..Len(c) PROVE i \notin S /\ i \notin (Len(c) + 1)..Len(b)
    <3>1. c[i].id <= lastId /\ c[i].id \in Nat
      BY <1>1, HeadersDiffer
    <3> QED
      BY <1>5, <1>7, <3>1
  <2>2. ASSUME NEW i \in 1..Len(b), ~(i \in 1..Len(c)) PROVE i \in S /\ i \in (Len(c) + 1)..Len(b)
    <3>1. b[i].id = lastId + (i - Len(c)) /\ i - Len(c) \in 1..Len(ls)
      BY <1>2, <1>8, <2>2
    <3> QED
      BY <1>5, <1>7, <2>2, <3>1
  <2>3. \A i \in S : i \in 1..Len(b)
    BY <1>7
  <2>4. \A i \in (Len(c) + 1)..Len(b) : i \in 1..Len(b)
    BY <1>7
  <2> HIDE DEF S
  <2>5. \A i : i \in S <=> i \in (Len(c) + 1)..Len(b)
    BY <2>1, <2>2, <2>3, <2>4
  <2> QED
    BY <2>5
<1> HIDE DEF S
<1>10. Cardinality(S) = Len(ls)
  <2>1. Len(c) + 1 \in Int /\ Len(b) \in Int
    BY <1>7
  <2>2. Cardinality((Len(c) + 1)..Len(b)) =
          IF Len(c) + 1 > Len(b) THEN 0 ELSE Len(b) - (Len(c) + 1) + 1
    BY <2>1, FS_Interval
  <2> QED
    BY <1>5, <1>7, <1>9, <2>2
<1>11. Rooted(b)
  <2>1. ASSUME NEW i \in 1..Len(c) PROVE RootOrChild(b, i)
    <3>1. \A j \in 1..(i - 1) : j \in 1..Len(c)
      BY <1>7
    <3>2. RootOrChild(c, i)
      BY <1>1 DEF Rooted
    <3> QED
      BY <1>5, <3>1, <3>2 DEF RootOrChild
  <2>2. ASSUME NEW i \in 1..Len(b), ~(i \in 1..Len(c)) PROVE RootOrChild(b, i)
    <3>1. PICK k \in 1..Len(ls) : i = Len(c) + k /\ b[i] = ls[k]
      BY <1>8, <2>2
    <3>2. CASE k # 1
      <4>1. k - 1 \in 1..Len(ls) /\ i - 1 = Len(c) + (k - 1) /\ i - 1 \in 1..(i - 1)
        BY <1>7, <3>1, <3>2
      <4>2. b[i - 1] = ls[k - 1]
        BY <1>6, <4>1
      <4>3. ls[k - 1].id = lastId + (k - 1)
        BY <1>2, <4>1
      <4>4. b[i].parent = lastId + k - 1
        BY <1>2, <3>1, <3>2
      <4>5. b[i - 1].id = b[i].parent
        BY <1>7, <4>2, <4>3, <4>4
      <4> QED
        BY <4>1, <4>5 DEF RootOrChild
    <3>3. CASE k = 1
      <4>1. c # <<>>
        BY <1>2, <1>7, <3>1
      <4>2. Len(c) \in 1..Len(c) /\ Last(c) = c[Len(c)] /\ Len(c) \in 1..(i - 1)
        BY <1>7, <3>1, <3>3, <4>1 DEF Last
      <4>3. b[i].parent = Last(c).id
        BY <1>2, <3>1, <3>3, <4>1
      <4>4. b[Len(c)] = c[Len(c)]
        BY <1>5, <4>2
      <4> QED
        BY <4>2, <4>3, <4>4 DEF RootOrChild
    <3> QED
      BY <3>2, <3>3
  <2> QED
    BY <2>1, <2>2 DEF Rooted
<1>12. Known(b, lastId + Len(ls))
  <2>1. ASSUME NEW i \in 1..Len(b) PROVE b[i].id # Null /\ b[i].id <= lastId + Len(ls)
    <3>1. CASE i \in 1..Len(c)
      <4>1. c[i] \in Entry /\ b[i] = c[i]
        BY <1>5, <3>1
      <4>2. b[i].id # Null /\ b[i].id <= lastId /\ b[i].id \in Nat
        BY <1>1, <3>1, <4>1, HeadersDiffer
      <4> QED
        BY <1>7, <4>2
    <3>2. CASE ~(i \in 1..Len(c))
      <4>1. PICK k \in 1..Len(ls) : b[i] = ls[k]
        BY <1>8, <3>2
      <4>2. b[i].id = lastId + k
        BY <1>2, <4>1
      <4> QED
        BY <1>7, <4>2 DEF Null
    <3> QED
      BY <3>1, <3>2
  <2> QED
    BY <2>1 DEF Known
<1>13. Cardinality(S) \in Nat /\ Known(b, lastId + Cardinality(S))
  BY <1>7, <1>10, <1>12
<1>14. /\ Branched(es, id) \in Seq(Entry) /\ Rooted(Branched(es, id))
  BY <1>3, <1>4, <1>11
<1>15. Cardinality({i \in DOMAIN Branched(es, id) : Branched(es, id)[i].id > lastId}) = Cardinality(S)
  BY <1>3, <1>4 DEF S
<1>16. Known(Branched(es, id), lastId + Cardinality(S))
  BY <1>3, <1>4, <1>13
<1> QED
  BY <1>13, <1>14, <1>15, <1>16

----------------------------------------------------------------------------
(* The inductive invariant *)

IdsIn(ls, n) ==
  \A i \in 1..Len(ls) : i > 1 => ls[i].entry.id <= n /\ (ls[i].entry.id = Null => ls[i].entry.parent = Null)

(* A file: its header and its entries; of one in which no write was cut     *)
(* short all is there, and it is a tree.                                    *)
FileFine(f, ls, ex, harm, n) ==
  /\ ls \in Seq(Line) /\ Shaped(ls) /\ IdsIn(ls, n)
  /\ f \notin ex => ls = <<>>
  /\ ls # <<>> /\ ls[1].entry = Header(Old) => f \in Legacy /\ f \notin harm
  /\ f \in ex /\ f \notin harm => ls # <<>> /\ AllWhole(ls) /\ Rooted(Loaded(ls))

(* A session is in its file once it was written there.                      *)
InFile(s, ls, ex, harm) ==
  /\ s.file \in ex /\ ls # <<>> /\ ls[1].entry = Header(Current)
  /\ s.file \notin harm => Within(Loaded(ls), s.entries)

SessionFine(p, s, d, ex, harm, late, n) ==
  /\ s \in Session \cup {Down}
  /\ s.leaf = Null \/ s.leaf \in Ids(s.entries)
  /\ Known(s.entries, n)
  /\ s # Down /\ s.flushed => InFile(s, d[s.file], ex, harm)
  /\ s # Down /\ ~s.flushed => Rooted(s.entries) /\ (HasReply(s.entries) => s.file \in harm \/ p \in late)

IInv ==
  /\ exists \subseteq File /\ hurt \subseteq exists /\ behind \subseteq Process /\ lastId \in 0..MaxId
  /\ disk \in [File -> Seq(Line)]
  /\ mem \in [Process -> Session \cup {Down}]
  /\ \A f \in File : FileFine(f, disk[f], exists, hurt, lastId)
  /\ \A p \in Process : SessionFine(p, mem[p], disk, exists, hurt, behind, lastId)

(* What is down and what is not.                                            *)
LEMMA DownIs ==
  /\ Down.entries = <<>> /\ Down.leaf = Null /\ Down.file = NoFile
  /\ \A s \in Session : /\ s # Down /\ s.file \in File /\ s.entries \in Seq(Entry)
                        /\ s.leaf \in Nat /\ s.flushed \in BOOLEAN
  /\ \A n, d, ex, harm, late, p : SessionFine(p, Down, d, ex, harm, late, n)
<1>1. Down.entries = <<>> /\ Down.leaf = Null /\ Down.file = NoFile
  BY DEF Down
<1>2. ASSUME NEW s \in Session
      PROVE  s # Down /\ s.file \in File /\ s.entries \in Seq(Entry) /\ s.leaf \in Nat /\ s.flushed \in BOOLEAN
  <2>1. s.file \in File /\ s.entries \in Seq(Entry) /\ s.leaf \in Nat /\ s.flushed \in BOOLEAN
    BY DEF Session
  <2> QED
    BY <1>1, <2>1, FileAssumption
<1>3. ASSUME NEW n, NEW d, NEW ex, NEW harm, NEW late, NEW p PROVE SessionFine(p, Down, d, ex, harm, late, n)
  <2>1. Known(<<>>, n)
    BY DEF Known
  <2> QED
    BY <1>1, <2>1 DEF SessionFine
<1> QED
  BY <1>1, <1>2, <1>3

(* A file that is written as a whole.                                       *)
LEMMA WrittenFine ==
  ASSUME NEW f, NEW es \in Seq(Entry), NEW n, Known(es, n), NEW ex, NEW harm, f \in ex,
         f \in harm \/ Rooted(es)
  PROVE  FileFine(f, SessionLines(es), ex, harm, n)
<1> DEFINE ls == SessionLines(es)
<1>1. /\ ls \in Seq(Line) /\ Len(ls) = Len(es) + 1 /\ ls # <<>> /\ Shaped(ls) /\ AllWhole(ls)
      /\ ls[1].entry = Header(Current) /\ Loaded(ls) = es
  BY SessionFileLines
<1>2. \A i \in 1..Len(es) : ls[i + 1].entry = es[i]
  BY SessionFileLines
<1> HIDE DEF ls
<1>3. IdsIn(ls, n)
  <2>1. ASSUME NEW i \in 1..Len(ls), i > 1
        PROVE  ls[i].entry.id <= n /\ (ls[i].entry.id = Null => ls[i].entry.parent = Null)
    <3>1. Len(es) \in Nat
      OBVIOUS
    <3>2. i - 1 \in 1..Len(es) /\ (i - 1) + 1 = i
      BY <1>1, <2>1, <3>1
    <3>3. ls[i].entry = es[i - 1]
      BY <1>2, <3>2
    <3> QED
      BY <3>2, <3>3 DEF Known
  <2> QED
    BY <2>1 DEF IdsIn
<1>4. ls[1].entry # Header(Old)
  BY <1>1, HeadersDiffer
<1>5. FileFine(f, ls, ex, harm, n)
  BY <1>1, <1>3, <1>4 DEF FileFine
<1> QED
  BY <1>5 DEF ls

(* What is left of one when the write is cut short.                         *)
LEMMA WrittenCut ==
  ASSUME NEW f, NEW es \in Seq(Entry), NEW n, Known(es, n), NEW ex, NEW harm, f \in ex, f \in harm,
         NEW cut \in Cuts(<<>>, SessionLines(es))
  PROVE  FileFine(f, cut, ex, harm, n)
<1>1. PICK ls \in Seq(Line) :
        /\ ls = SessionLines(es) /\ Len(ls) = Len(es) + 1 /\ ls # <<>>
        /\ ls[1].entry = Header(Current) /\ \A i \in 1..Len(es) : ls[i + 1].entry = es[i]
  BY SessionFileLines
<1>2. /\ cut \in Seq(Line) /\ Len(cut) <= Len(ls)
      /\ \A i \in 1..Len(cut) : i \in 1..Len(ls) /\ cut[i].entry = ls[i].entry
  BY <1>1, CutOfFile
<1>3. Len(es) \in Nat /\ \A i \in 1..Len(es) : es[i] \in Entry
  OBVIOUS
<1>4. ASSUME NEW i \in 1..Len(cut), i > 1
      PROVE  cut[i].entry \in Entry /\ cut[i].entry.id <= n
             /\ (cut[i].entry.id = Null => cut[i].entry.parent = Null)
  <2>1. i - 1 \in 1..Len(es) /\ (i - 1) + 1 = i
    BY <1>1, <1>2, <1>3, <1>4
  <2>2. ls[(i - 1) + 1].entry = es[i - 1]
    BY <1>1, <2>1
  <2>3. cut[i].entry = es[i - 1]
    BY <1>2, <2>1, <2>2
  <2> QED
    BY <1>3, <2>1, <2>3 DEF Known
<1>5. IdsIn(cut, n)
  BY <1>4 DEF IdsIn
<1>6. Len(cut) \in Nat /\ (cut # <<>> => 1 \in 1..Len(cut))
  BY <1>2
<1>7. cut # <<>> => cut[1].entry = Header(Current)
  BY <1>1, <1>2, <1>6
<1>8. Shaped(cut)
  <2>1. ASSUME NEW i \in 1..Len(cut)
        PROVE  IF i = 1 THEN cut[i].entry \in Headers ELSE cut[i].entry \in Entry
    <3>1. cut # <<>>
      BY <1>6
    <3>2. i # 1 => i > 1
      BY <1>6
    <3> QED
      BY <1>4, <1>7, <3>1, <3>2 DEF Headers
  <2> QED
    BY <2>1 DEF Shaped
<1>9. Header(Old) # Header(Current)
  BY HeadersDiffer
<1> QED
  BY <1>2, <1>5, <1>7, <1>8, <1>9 DEF FileFine

(* A file to which an entry is appended, whole or not.                      *)
LEMMA AppendedFine ==
  ASSUME NEW f, NEW ls, NEW ex, NEW harm, NEW n \in Nat, FileFine(f, ls, ex, harm, n), f \in ex,
         ls # <<>>, ls[1].entry = Header(Current),
         NEW t \in Line, t.entry \in Entry, NEW m \in Nat, n <= m, t.entry.id <= m, t.entry.id # Null
  PROVE  /\ ls \in Seq(Line)
         /\ Append(ls, t) # <<>> /\ Append(ls, t)[1].entry = Header(Current)
         /\ FileFine(f, Append(ls, t), ex, harm \cup {f}, m)
         /\ \/ IsPrefix(Loaded(ls), Loaded(Append(ls, t)))
            \/ Loaded(ls) # <<>> /\ Loaded(Append(ls, t)) = Front(Loaded(ls))
         /\ f \notin harm => IsPrefix(Loaded(ls), Loaded(Append(ls, t)))
         /\ f \notin harm /\ t.whole /\ t.nl =>
              Loaded(Append(ls, t)) = Append(Loaded(ls), t.entry)
         /\ t.whole /\ t.nl /\ (f \in harm \/ t.entry.parent = Null \/ t.entry.parent \in Ids(Loaded(ls))) =>
              FileFine(f, Append(ls, t), ex, harm, m)
<1>1. ls \in Seq(Line) /\ Shaped(ls) /\ IdsIn(ls, n) /\ (f \notin harm => AllWhole(ls) /\ Rooted(Loaded(ls)))
  BY DEF FileFine
<1>2. PICK new \in Seq(Line) : new = Append(ls, t)
  BY <1>1, AppendProperties
<1>3. /\ new # <<>> /\ Shaped(new) /\ Len(new) = Len(ls) + 1 /\ new[1] = ls[1]
      /\ \A i \in 1..Len(ls) : new[i] = ls[i]
      /\ new[Len(ls) + 1] = t
  BY <1>1, <1>2, LoadedAppend
<1>4. \/ IsPrefix(Loaded(ls), Loaded(new))
      \/ Loaded(ls) # <<>> /\ Loaded(new) = Front(Loaded(ls))
  BY <1>1, <1>2, LoadedAppend
<1>5. f \notin harm => IsPrefix(Loaded(ls), Loaded(new))
  BY <1>1, <1>2, LoadedAppend
<1>6. f \notin harm /\ t.whole /\ t.nl => AllWhole(new) /\ Loaded(new) = Append(Loaded(ls), t.entry)
  BY <1>1, <1>2, LoadedAppend
<1>7. IdsIn(new, m)
  <2>1. ASSUME NEW i \in 1..Len(new), i > 1
        PROVE  new[i].entry.id <= m /\ (new[i].entry.id = Null => new[i].entry.parent = Null)
    <3>1. CASE i = Len(ls) + 1
      BY <1>3, <3>1
    <3>2. CASE i # Len(ls) + 1
      <4>1. Len(ls) \in Nat
        BY <1>1
      <4>2. i \in 1..Len(ls)
        BY <1>3, <3>2, <4>1
      <4>3. ls[i].entry \in Entry
        BY <1>1, <2>1, <4>2 DEF Shaped
      <4>4. ls[i].entry.id \in Nat
        BY <4>3, HeadersDiffer
      <4>5. ls[i].entry.id <= n /\ (ls[i].entry.id = Null => ls[i].entry.parent = Null)
        BY <1>1, <2>1, <4>2 DEF IdsIn
      <4> QED
        BY <1>3, <4>2, <4>4, <4>5
    <3> QED
      BY <3>1, <3>2
  <2> QED
    BY <2>1 DEF IdsIn
<1>8. new[1].entry # Header(Old)
  BY <1>3, HeadersDiffer
<1>9. FileFine(f, new, ex, harm \cup {f}, m)
  BY <1>3, <1>7, <1>8 DEF FileFine
<1>10. ASSUME t.whole, t.nl, f \in harm \/ t.entry.parent = Null \/ t.entry.parent \in Ids(Loaded(ls))
       PROVE  FileFine(f, new, ex, harm, m)
  <2>1. f \notin harm => Rooted(Loaded(new))
    <3>1. Loaded(ls) \in Seq(Entry)
      BY <1>1, LoadedType
    <3> QED
      BY <1>1, <1>6, <1>10, <3>1, RootedMore
  <2>2. f \notin harm => AllWhole(new)
    BY <1>6, <1>10
  <2> QED
    BY <1>3, <1>7, <1>8, <2>1, <2>2 DEF FileFine
<1>11. t.whole /\ t.nl /\ (f \in harm \/ t.entry.parent = Null \/ t.entry.parent \in Ids(Loaded(ls))) =>
         FileFine(f, new, ex, harm, m)
  BY <1>10
<1>12. f \notin harm /\ t.whole /\ t.nl => Loaded(new) = Append(Loaded(ls), t.entry)
  BY <1>6
<1> QED
  BY <1>1, <1>2, <1>3, <1>4, <1>5, <1>9, <1>11, <1>12

(* A file that is left alone.                                               *)
LEMMA FileStays ==
  ASSUME NEW f, NEW ls, NEW ex, NEW harm, NEW n \in Nat, FileFine(f, ls, ex, harm, n),
         NEW ex2, NEW harm2, NEW m \in Nat, n <= m, f \in ex2 <=> f \in ex, f \in harm2 <=> f \in harm
  PROVE  FileFine(f, ls, ex2, harm2, m)
<1>1. ls \in Seq(Line) /\ Shaped(ls) /\ IdsIn(ls, n)
  BY DEF FileFine
<1>2. IdsIn(ls, m)
  <2>1. ASSUME NEW i \in 1..Len(ls), i > 1
        PROVE  ls[i].entry.id <= m /\ (ls[i].entry.id = Null => ls[i].entry.parent = Null)
    <3>1. ls[i].entry \in Entry
      BY <1>1, <2>1 DEF Shaped
    <3>2. ls[i].entry.id \in Nat
      BY <3>1, HeadersDiffer
    <3>3. ls[i].entry.id <= n /\ (ls[i].entry.id = Null => ls[i].entry.parent = Null)
      BY <1>1, <2>1 DEF IdsIn
    <3> QED
      BY <3>2, <3>3
  <2> QED
    BY <2>1 DEF IdsIn
<1> QED
  BY <1>2 DEF FileFine

(* A session whose process does nothing.                                    *)
LEMMA SessionStays ==
  ASSUME NEW q, NEW s, NEW d, NEW ex, NEW harm, NEW late, NEW n \in Nat,
         SessionFine(q, s, d, ex, harm, late, n),
         NEW d2, NEW ex2, NEW harm2, NEW late2, NEW m \in Nat, n <= m, ex \subseteq ex2, harm \subseteq harm2,
         q \in late => q \in late2,
         s # Down /\ s.flushed => InFile(s, d2[s.file], ex2, harm2)
  PROVE  SessionFine(q, s, d2, ex2, harm2, late2, m)
<1>1. s.entries \in Seq(Entry)
  <2>1. s \in Session \/ s = Down
    BY DEF SessionFine
  <2>2. Down.entries \in Seq(Entry)
    BY DownIs
  <2> QED
    BY <2>1, <2>2, DownIs
<1>2. Known(s.entries, n)
  BY DEF SessionFine
<1>3. Known(s.entries, m)
  BY <1>1, <1>2, KnownMore
<1> QED
  BY <1>3 DEF SessionFine

----------------------------------------------------------------------------
(* A step of one process *)

(* What files there are, and to whom a write falls behind.                  *)
Bounds(p, ex, harm, late, n) ==
  /\ ex \subseteq File /\ harm \subseteq ex /\ late \subseteq Process /\ n \in lastId..MaxId
  /\ \A q \in Process : q # p /\ q \in behind => q \in late

(* What was written to a file by another process is still in it.            *)
OthersKeep(p, f, ls, ex, harm) ==
  \A q \in Process : q # p /\ mem[q] # Down /\ mem[q].flushed /\ mem[q].file = f => InFile(mem[q], ls, ex, harm)

(* A step that changes one file and one session.                            *)
LEMMA WriteKeeps ==
  ASSUME IInv, NEW p \in Process, NEW f \in File, NEW new, NEW s,
         exists' = exists \cup {f}, hurt' = hurt \/ hurt' = hurt \cup {f},
         disk' = [disk EXCEPT ![f] = new], mem' = [mem EXCEPT ![p] = s],
         Bounds(p, exists', hurt', behind', lastId'),
         FileFine(f, new, exists', hurt', lastId'),
         SessionFine(p, s, disk', exists', hurt', behind', lastId'),
         OthersKeep(p, f, new, exists', hurt')
  PROVE  IInv'
<1>1. /\ exists \subseteq File /\ hurt \subseteq exists /\ lastId \in 0..MaxId
      /\ disk \in [File -> Seq(Line)] /\ mem \in [Process -> Session \cup {Down}]
      /\ \A g \in File : FileFine(g, disk[g], exists, hurt, lastId)
      /\ \A q \in Process : SessionFine(q, mem[q], disk, exists, hurt, behind, lastId)
  BY DEF IInv
<1>2. /\ exists' \subseteq File /\ hurt' \subseteq exists' /\ behind' \subseteq Process
      /\ lastId \in Nat /\ lastId' \in Nat /\ lastId <= lastId' /\ lastId' \in 0..MaxId
      /\ \A q \in Process : q # p /\ q \in behind => q \in behind'
  BY <1>1, BoundAssumption DEF Bounds
<1>3. new \in Seq(Line) /\ s \in Session \cup {Down}
  BY DEF FileFine, SessionFine
<1>4. disk' \in [File -> Seq(Line)] /\ disk'[f] = new /\ \A g \in File : g # f => disk'[g] = disk[g]
  BY <1>1, <1>3
<1>5. mem' \in [Process -> Session \cup {Down}] /\ mem'[p] = s /\ \A q \in Process : q # p => mem'[q] = mem[q]
  BY <1>1, <1>3
<1>6. ASSUME NEW g \in File PROVE FileFine(g, disk'[g], exists', hurt', lastId')
  <2>1. CASE g = f
    BY <1>4, <2>1
  <2>2. CASE g # f
    <3>1. FileFine(g, disk[g], exists, hurt, lastId) /\ disk'[g] = disk[g]
      BY <1>1, <1>4, <2>2
    <3>2. (g \in exists' <=> g \in exists) /\ (g \in hurt' <=> g \in hurt)
      BY <2>2
    <3>3. FileFine(g, disk[g], exists', hurt', lastId')
      BY <1>2, <3>1, <3>2, FileStays
    <3> QED
      BY <3>1, <3>3
  <2> QED
    BY <2>1, <2>2
<1>7. ASSUME NEW q \in Process PROVE SessionFine(q, mem'[q], disk', exists', hurt', behind', lastId')
  <2>1. CASE q = p
    BY <1>5, <2>1
  <2>2. CASE q # p
    <3>1. SessionFine(q, mem[q], disk, exists, hurt, behind, lastId) /\ mem'[q] = mem[q]
      BY <1>1, <1>5, <2>2
    <3>2. ASSUME mem[q] # Down, mem[q].flushed PROVE InFile(mem[q], disk'[mem[q].file], exists', hurt')
      <4>1. CASE mem[q].file = f
        BY <1>4, <2>2, <3>2, <4>1 DEF OthersKeep
      <4>2. CASE mem[q].file # f
        <5>1. InFile(mem[q], disk[mem[q].file], exists, hurt)
          BY <3>1, <3>2 DEF SessionFine
        <5>2. mem[q].file \in File
          BY <1>1, <5>1 DEF InFile
        <5>3. disk'[mem[q].file] = disk[mem[q].file]
          BY <1>4, <4>2, <5>2
        <5> QED
          BY <4>2, <5>1, <5>3 DEF InFile
      <4> QED
        BY <4>1, <4>2
    <3>3. exists \subseteq exists' /\ hurt \subseteq hurt' /\ (q \in behind => q \in behind')
      BY <1>2, <2>2
    <3>4. mem[q] # Down /\ mem[q].flushed => InFile(mem[q], disk'[mem[q].file], exists', hurt')
      BY <3>2
    <3>5. lastId \in Nat /\ lastId' \in Nat /\ lastId <= lastId'
      BY <1>2
    <3>6. PICK d2, ex2, harm2, late2, m, t :
            /\ d2 = disk' /\ ex2 = exists' /\ harm2 = hurt' /\ late2 = behind' /\ m = lastId' /\ t = mem[q]
      OBVIOUS
    <3>7. /\ SessionFine(q, t, disk, exists, hurt, behind, lastId)
          /\ exists \subseteq ex2 /\ hurt \subseteq harm2 /\ (q \in behind => q \in late2)
          /\ lastId \in Nat /\ m \in Nat /\ lastId <= m
      BY <3>1, <3>3, <3>5, <3>6
    <3>8. t # Down /\ t.flushed => InFile(t, d2[t.file], ex2, harm2)
      BY <3>4, <3>6
    <3>9. SessionFine(q, t, d2, ex2, harm2, late2, m)
      BY <3>7, <3>8, SessionStays
    <3>10. SessionFine(q, mem[q], disk', exists', hurt', behind', lastId')
      BY <3>6, <3>9
    <3> QED
      BY <3>1, <3>10
  <2> QED
    BY <2>1, <2>2
<1> QED
  BY <1>2, <1>4, <1>5, <1>6, <1>7 DEF IInv

(* A step that changes one session only.                                    *)
LEMMA MemKeeps ==
  ASSUME IInv, NEW p \in Process, NEW s, Unwritten, mem' = [mem EXCEPT ![p] = s],
         Bounds(p, exists, hurt, behind', lastId'),
         SessionFine(p, s, disk, exists, hurt, behind', lastId')
  PROVE  IInv'
<1>1. /\ exists \subseteq File /\ hurt \subseteq exists /\ lastId \in 0..MaxId
      /\ disk \in [File -> Seq(Line)] /\ mem \in [Process -> Session \cup {Down}]
      /\ \A g \in File : FileFine(g, disk[g], exists, hurt, lastId)
      /\ \A q \in Process : SessionFine(q, mem[q], disk, exists, hurt, behind, lastId)
  BY DEF IInv
<1>2. /\ exists' = exists /\ hurt' = hurt /\ disk' = disk /\ behind' \subseteq Process
      /\ lastId \in Nat /\ lastId' \in Nat /\ lastId <= lastId' /\ lastId' \in 0..MaxId
      /\ \A q \in Process : q # p /\ q \in behind => q \in behind'
  BY <1>1, BoundAssumption DEF Bounds, Unwritten
<1>3. s \in Session \cup {Down}
  BY DEF SessionFine
<1>4. mem' \in [Process -> Session \cup {Down}] /\ mem'[p] = s /\ \A q \in Process : q # p => mem'[q] = mem[q]
  BY <1>1, <1>3
<1>5. \A g \in File : FileFine(g, disk[g], exists, hurt, lastId')
  BY <1>1, <1>2, FileStays
<1>6. ASSUME NEW q \in Process PROVE SessionFine(q, mem'[q], disk, exists, hurt, behind', lastId')
  <2>1. CASE q = p
    BY <1>4, <2>1
  <2>2. CASE q # p
    <3>1. SessionFine(q, mem[q], disk, exists, hurt, behind, lastId) /\ mem'[q] = mem[q]
      BY <1>1, <1>4, <2>2
    <3>2. mem[q] # Down /\ mem[q].flushed => InFile(mem[q], disk[mem[q].file], exists, hurt)
      BY <3>1 DEF SessionFine
    <3>3. q \in behind => q \in behind'
      BY <1>2, <2>2
    <3>4. SessionFine(q, mem[q], disk, exists, hurt, behind', lastId')
      BY <1>2, <3>1, <3>2, <3>3, SessionStays
    <3> QED
      BY <3>1, <3>4
  <2> QED
    BY <2>1, <2>2
<1> QED
  BY <1>1, <1>2, <1>4, <1>5, <1>6 DEF IInv

(* A step of the trees that changes one of them.                            *)
LEMMA TreeStep ==
  ASSUME disk \in [File -> Seq(Line)], NEW f \in File, NEW new, disk' = [disk EXCEPT ![f] = new],
         \/ Trees!Grow(f, Loaded(disk[f]), Loaded(new)) \/ Trees!Harm(f, Loaded(disk[f]), Loaded(new))
         \/ Trees!GrowHarmed(f, Loaded(disk[f]), Loaded(new)) \/ Trees!Migrate(f, Loaded(disk[f]), Loaded(new))
  PROVE  Trees!Next
<1> DEFINE tree == [g \in File |-> Loaded(disk[g])]
           next == [g \in File |-> Loaded(disk'[g])]
<1>1. disk'[f] = new /\ \A g \in File : g # f => disk'[g] = disk[g]
  OBVIOUS
<1>2. tree[f] = Loaded(disk[f]) /\ next[f] = Loaded(new)
  BY <1>1
<1>3. \A g \in File \ {f} : next[g] = tree[g]
  BY <1>1
<1> HIDE DEF tree, next
<1>4. \E g \in File : \E old \in {tree[g]}, fresh \in {next[g]} :
        /\ \A h \in File \ {g} : next[h] = tree[h]
        /\ \/ Trees!Grow(g, old, fresh) \/ Trees!Harm(g, old, fresh)
           \/ Trees!GrowHarmed(g, old, fresh) \/ Trees!Migrate(g, old, fresh)
  BY <1>2, <1>3
<1> QED
  BY <1>4 DEF tree, next, Trees!Next

(* Rooted is what the trees call it.                                        *)
LEMMA TreesRooted ==
  ASSUME NEW es \in Seq(Entry)
  PROVE  Trees!Rooted(es) <=> Rooted(es)
<1>1. DOMAIN es = 1..Len(es)
  OBVIOUS
<1> QED
  BY <1>1 DEF Trees!Rooted, Rooted, RootOrChild

(* What they say of sequences is what it says here.                         *)
LEMMA TreesSequences ==
  /\ \A s, t : Trees!IsPrefix(s, t) <=> IsPrefix(s, t)
  /\ \A s : Trees!Front(s) = Front(s)
<1>1. \A s, t : Trees!IsPrefix(s, t) <=> IsPrefix(s, t)
  BY Zenon DEF Trees!IsPrefix, IsPrefix
<1>2. \A s : Trees!Front(s) = Front(s)
  BY Zenon DEF Trees!Front, Front
<1> QED
  BY <1>1, <1>2

(* What holds of one file.                                                  *)
LEMMA OfFile ==
  ASSUME IInv, NEW f \in File
  PROVE  /\ disk[f] \in Seq(Line) /\ Loaded(disk[f]) \in Seq(Entry)
         /\ FileFine(f, disk[f], exists, hurt, lastId)
         /\ Known(Loaded(disk[f]), lastId)
         /\ f \notin exists => disk[f] = <<>> /\ f \notin hurt
         /\ disk[f] = <<>> => Loaded(disk[f]) = <<>> /\ ~Valid(disk[f])
         /\ disk[f] # <<>> /\ disk[f][1].entry = Header(Old) => f \in Legacy /\ f \notin hurt
         /\ f \in exists /\ f \notin hurt => Rooted(Loaded(disk[f]))
         /\ Valid(disk[f]) => f \in exists /\ disk[f] # <<>> /\ Head(Parsed(disk[f])) = disk[f][1].entry
                              /\ disk[f][1].entry \in Headers
<1>1. FileFine(f, disk[f], exists, hurt, lastId) /\ hurt \subseteq exists
  BY DEF IInv
<1>2. PICK ls \in Seq(Line) : ls = disk[f] /\ Shaped(ls) /\ IdsIn(ls, lastId)
  BY <1>1 DEF FileFine
<1>3. Loaded(ls) \in Seq(Entry)
  BY <1>2, LoadedType
<1>4. \A k \in 1..Len(Loaded(ls)) : \E i \in 1..Len(ls) : i > 1 /\ Loaded(ls)[k] = ls[i].entry
  BY <1>2, LoadedType
<1>5. Valid(ls) => ls # <<>> /\ Head(Parsed(ls)) = ls[1].entry
  BY <1>2, LoadedType
<1>6. Known(Loaded(ls), lastId)
  BY <1>2, <1>4 DEF Known, IdsIn
<1>7. Valid(ls) => f \in exists
  BY <1>1, <1>2, <1>5 DEF FileFine
<1>8. ls # <<>> => ls[1].entry \in Headers
  <2>1. ls # <<>> => 1 \in 1..Len(ls)
    OBVIOUS
  <2> QED
    BY <1>2, <2>1 DEF Shaped
<1> QED
  BY <1>1, <1>2, <1>3, <1>5, <1>6, <1>7, <1>8, LoadedNothing DEF FileFine

(* A process to which a file is given that no session has yet.              *)
Handed(p, f, es, s) ==
  \/ s = Down
  \/ s = mem[p] /\ mem[p].file # f
  \/ /\ s \in Session /\ s.file = f /\ ~s.flushed /\ s.entries = es /\ Rooted(es)
     /\ s.leaf = Null \/ s.leaf \in Ids(es)

(* It holds what may be left in it of a session.                            *)
LEMMA HandedFine ==
  ASSUME IInv, NEW p \in Process, NEW f \in File, NEW es \in Seq(Entry), NEW s,
         Known(es, lastId'), Handed(p, f, es, s), lastId' \in Nat, lastId <= lastId',
         NEW cut, disk' = [disk EXCEPT ![f] = cut], exists' = exists \cup {f}, hurt' = hurt \cup {f},
         s = mem[p] => (p \in behind => p \in behind')
  PROVE  SessionFine(p, s, disk', exists', hurt', behind', lastId')
<1>1. CASE s = Down
  BY <1>1, DownIs
<1>2. CASE s = mem[p] /\ mem[p].file # f
  <2>1. SessionFine(p, mem[p], disk, exists, hurt, behind, lastId)
        /\ disk \in [File -> Seq(Line)] /\ exists \subseteq File /\ lastId \in Nat
    BY BoundAssumption DEF IInv
  <2>2. PICK d2, ex2, harm2, late2, m, t :
          /\ d2 = disk' /\ ex2 = exists' /\ harm2 = hurt' /\ late2 = behind' /\ m = lastId' /\ t = mem[p]
    OBVIOUS
  <2>3. ASSUME t # Down, t.flushed PROVE InFile(t, d2[t.file], ex2, harm2)
    <3>1. InFile(t, disk[t.file], exists, hurt)
      BY <2>1, <2>2, <2>3 DEF SessionFine
    <3>2. t.file \in File /\ t.file # f
      BY <1>2, <2>1, <2>2, <3>1 DEF InFile
    <3>3. d2[t.file] = disk[t.file]
      BY <2>1, <2>2, <3>2
    <3> QED
      BY <2>2, <3>1, <3>2, <3>3 DEF InFile
  <2>4. t # Down /\ t.flushed => InFile(t, d2[t.file], ex2, harm2)
    BY <2>3
  <2>5. /\ SessionFine(p, t, disk, exists, hurt, behind, lastId)
        /\ exists \subseteq ex2 /\ hurt \subseteq harm2 /\ (p \in behind => p \in late2)
        /\ lastId \in Nat /\ m \in Nat /\ lastId <= m
    BY <1>2, <2>1, <2>2
  <2>6. SessionFine(p, t, d2, ex2, harm2, late2, m)
    BY <2>4, <2>5, SessionStays
  <2> QED
    BY <1>2, <2>2, <2>6
<1>3. CASE /\ s \in Session /\ s.file = f /\ ~s.flushed /\ s.entries = es /\ Rooted(es)
           /\ s.leaf = Null \/ s.leaf \in Ids(es)
  BY <1>3 DEF SessionFine
<1> QED
  BY <1>1, <1>2, <1>3 DEF Handed

(* A file is written that is new, empty or of the first version.            *)
LEMMA WholeWrites ==
  ASSUME IInv, NEW p \in Process, NEW f \in File, NEW es \in Seq(Entry), NEW hurts \in BOOLEAN,
         NEW done \in Session, NEW failed,
         lastId' \in lastId..MaxId, Known(es, lastId'),
         done.file = f, done.entries = es, done.flushed, done.leaf = Null \/ done.leaf \in Ids(es),
         Handed(p, f, es, failed),
         Writes(p, f, <<>>, SessionLines(es), hurts, done, failed),
         \/ f \notin exists /\ (hurts \/ Rooted(es))
         \/ f \in hurt /\ disk[f] = <<>> /\ es = <<>> /\ ~hurts
         \/ /\ f \in exists /\ f \in Legacy /\ f \notin hurt /\ ~hurts
            /\ disk[f] # <<>> /\ disk[f][1].entry = Header(Old)
            /\ Rooted(es) /\ Trees!Same(Loaded(disk[f]), es)
  PROVE  IInv' /\ Trees!Next
<1>1. /\ exists \subseteq File /\ hurt \subseteq exists /\ behind \subseteq Process
      /\ disk \in [File -> Seq(Line)] /\ mem \in [Process -> Session \cup {Down}]
      /\ \A q \in Process : SessionFine(q, mem[q], disk, exists, hurt, behind, lastId)
      /\ lastId \in 0..MaxId /\ lastId \in Nat /\ lastId' \in Nat /\ lastId <= lastId'
  BY BoundAssumption DEF IInv
<1>2. \A q \in Process : ~(mem[q] # Down /\ mem[q].flushed /\ mem[q].file = f)
  <2>1. SUFFICES ASSUME NEW q \in Process, mem[q] # Down, mem[q].flushed, mem[q].file = f PROVE FALSE
    OBVIOUS
  <2>2. InFile(mem[q], disk[f], exists, hurt)
    BY <1>1, <2>1 DEF SessionFine
  <2>3. f \in exists /\ disk[f] # <<>> /\ disk[f][1].entry = Header(Current)
    BY <2>1, <2>2 DEF InFile
  <2>4. Header(Old) # Header(Current)
    BY HeadersDiffer
  <2> QED
    BY <2>3, <2>4
<1>3. /\ disk[f] \in Seq(Line) /\ (f \notin exists => disk[f] = <<>> /\ f \notin hurt)
      /\ (disk[f] = <<>> => Loaded(disk[f]) = <<>>)
  BY OfFile
<1>4. /\ SessionLines(es) \in Seq(Line) /\ SessionLines(es) # <<>>
      /\ SessionLines(es)[1].entry = Header(Current) /\ Loaded(SessionLines(es)) = es
  BY SessionFileLines
<1>5. <<>> \o SessionLines(es) = SessionLines(es)
  BY <1>4, ConcatEmptySeq
<1>6. done # Down
  BY DownIs
<1>7. /\ exists' = exists \cup {f}
      /\ \/ /\ disk' = [disk EXCEPT ![f] = SessionLines(es)]
            /\ mem' = [mem EXCEPT ![p] = done]
            /\ behind' = IF done.file = mem[p].file THEN behind ELSE behind \ {p}
            /\ hurt' = IF hurts THEN hurt \cup {f} ELSE hurt
         \/ \E cut \in Cuts(<<>>, SessionLines(es)), s \in {failed, Down} :
            /\ disk' = [disk EXCEPT ![f] = cut]
            /\ mem' = [mem EXCEPT ![p] = s]
            /\ hurt' = hurt \cup {f}
            /\ behind' = IF s = Down THEN behind \ {p}
                         ELSE IF s.entries # mem[p].entries THEN behind \cup {p} ELSE behind
  BY <1>5 DEF Writes
<1>8. CASE /\ disk' = [disk EXCEPT ![f] = SessionLines(es)]
           /\ mem' = [mem EXCEPT ![p] = done]
           /\ behind' = IF done.file = mem[p].file THEN behind ELSE behind \ {p}
           /\ hurt' = IF hurts THEN hurt \cup {f} ELSE hurt
  <2>1. hurt' = hurt \/ hurt' = hurt \cup {f}
    BY <1>8
  <2>2. f \in hurt' \/ Rooted(es)
    BY <1>8
  <2>3. Bounds(p, exists', hurt', behind', lastId')
    BY <1>1, <1>7, <1>8, <2>1 DEF Bounds
  <2>4. FileFine(f, SessionLines(es), exists', hurt', lastId')
    BY <1>7, <2>2, WrittenFine
  <2>5. disk'[f] = SessionLines(es)
    BY <1>1, <1>8
  <2>6. InFile(done, disk'[f], exists', hurt')
    BY <1>4, <1>7, <2>5, WithinSelf DEF InFile
  <2>7. SessionFine(p, done, disk', exists', hurt', behind', lastId')
    BY <1>6, <2>6 DEF SessionFine
  <2>8. IInv'
    <3>1. OthersKeep(p, f, SessionLines(es), exists', hurt')
      BY <1>2 DEF OthersKeep
    <3> QED
      BY <1>7, <1>8, <2>1, <2>3, <2>4, <2>7, <3>1, WriteKeeps
  <2>9. IsPrefix(<<>>, es)
    BY PrefixFacts
  <2>10. \/ Trees!Grow(f, Loaded(disk[f]), es) \/ Trees!Harm(f, Loaded(disk[f]), es)
         \/ Trees!GrowHarmed(f, Loaded(disk[f]), es) \/ Trees!Migrate(f, Loaded(disk[f]), es)
    <3>0. PICK old : old = Loaded(disk[f])
      OBVIOUS
    <3>1. CASE f \notin exists /\ hurts
      <4>1. f \notin hurt /\ hurt' = hurt \cup {f} /\ old = <<>>
        BY <1>3, <1>8, <3>0, <3>1
      <4> QED
        BY <2>9, <3>0, <4>1, TreesSequences DEF Trees!Harm
    <3>2. CASE f \notin exists /\ ~hurts
      <4>1. f \notin hurt /\ hurt' = hurt /\ old = <<>> /\ Trees!Rooted(es)
        BY <1>1, <1>3, <1>8, <3>0, <3>2, TreesRooted
      <4> QED
        BY <2>9, <3>0, <4>1, TreesSequences DEF Trees!Grow
    <3>3. CASE f \in hurt
      <4>1. hurt' = hurt /\ old = <<>>
        BY <1>1, <1>3, <1>8, <3>0, <3>3
      <4> QED
        BY <2>9, <3>0, <3>3, <4>1, TreesSequences DEF Trees!GrowHarmed
    <3>4. CASE f \in exists /\ f \notin hurt
      <4>1. hurt' = hurt /\ f \in Legacy \ hurt /\ Trees!Rooted(es) /\ Trees!Same(old, es)
        BY <1>8, <3>0, <3>4, TreesRooted
      <4> QED
        BY <3>0, <4>1 DEF Trees!Migrate
    <3> QED
      BY <3>1, <3>2, <3>3, <3>4
  <2>11. Trees!Next
    BY <1>1, <1>4, <1>8, <2>10, TreeStep
  <2> QED
    BY <2>8, <2>11
<1>9. ASSUME NEW cut \in Cuts(<<>>, SessionLines(es)), NEW s \in {failed, Down},
             disk' = [disk EXCEPT ![f] = cut], mem' = [mem EXCEPT ![p] = s], hurt' = hurt \cup {f},
             behind' = IF s = Down THEN behind \ {p}
                       ELSE IF s.entries # mem[p].entries THEN behind \cup {p} ELSE behind
      PROVE  IInv' /\ Trees!Next
  <2>1. Handed(p, f, es, s)
    BY DEF Handed
  <2>2. s = mem[p] => (p \in behind => p \in behind') \/ s = Down
    BY <1>9
  <2>3. SessionFine(p, s, disk', exists', hurt', behind', lastId')
    <3>1. CASE s = Down
      BY <3>1, DownIs
    <3>2. CASE s # Down
      BY <1>1, <1>7, <1>9, <2>1, <2>2, <3>2, HandedFine
    <3> QED
      BY <3>1, <3>2
  <2>4. FileFine(f, cut, exists', hurt', lastId')
    BY <1>7, <1>9, WrittenCut
  <2>5. Bounds(p, exists', hurt', behind', lastId')
    BY <1>1, <1>7, <1>9 DEF Bounds
  <2>6. IInv'
    <3>1. PICK new, t : new = cut /\ t = s
      OBVIOUS
    <3>2. /\ exists' = exists \cup {f} /\ (hurt' = hurt \/ hurt' = hurt \cup {f})
          /\ disk' = [disk EXCEPT ![f] = new] /\ mem' = [mem EXCEPT ![p] = t]
      BY <1>7, <1>9, <3>1
    <3>3. FileFine(f, new, exists', hurt', lastId')
      BY <2>4, <3>1
    <3>4. SessionFine(p, t, disk', exists', hurt', behind', lastId')
      BY <2>3, <3>1
    <3>5. OthersKeep(p, f, new, exists', hurt')
      BY <1>2 DEF OthersKeep
    <3> QED
      BY <2>5, <3>2, <3>3, <3>4, <3>5, WriteKeeps
  <2>7. cut \in Seq(Line) /\ Loaded(cut) \in Seq(Entry)
    BY <2>4, LoadedType DEF FileFine
  <2>8. IsPrefix(<<>>, Loaded(cut))
    BY <2>7, PrefixFacts
  <2>9. \/ Trees!Harm(f, Loaded(disk[f]), Loaded(cut)) \/ Trees!GrowHarmed(f, Loaded(disk[f]), Loaded(cut))
    <3>0. PICK old, new : old = Loaded(disk[f]) /\ new = Loaded(cut)
      OBVIOUS
    <3>1. CASE f \in hurt
      <4>1. hurt' = hurt /\ old = <<>>
        BY <1>1, <1>3, <1>9, <3>0, <3>1
      <4> QED
        BY <2>8, <3>0, <3>1, <4>1, TreesSequences DEF Trees!GrowHarmed
    <3>2. CASE f \notin hurt
      <4>1. old = <<>> \/ f \in Legacy
        BY <1>3, <3>0, <3>2
      <4> QED
        BY <1>9, <2>8, <3>0, <3>2, <4>1, TreesSequences DEF Trees!Harm
    <3> QED
      BY <3>1, <3>2
  <2>10. Trees!Next
    BY <1>1, <1>9, <2>9, TreeStep
  <2> QED
    BY <2>6, <2>10
<1> QED
  BY <1>7, <1>8, <1>9

(* A session with one entry more.                                           *)
LEMMA SessionMore ==
  ASSUME NEW s \in Session, NEW e \in Entry, NEW n \in Nat, NEW m \in Nat, n <= m,
         Known(s.entries, n), e.id <= m, e.id # Null,
         NEW t, t = [s EXCEPT !.entries = Append(@, e), !.leaf = e.id]
  PROVE  /\ t \in Session /\ t.file = s.file /\ t.flushed = s.flushed /\ t.leaf = e.id
         /\ t.entries = Append(s.entries, e) /\ t.entries \in Seq(Entry) /\ Last(t.entries) = e
         /\ t.leaf \in Ids(t.entries)
         /\ Known(t.entries, m)
         /\ Rooted(s.entries) /\ (e.parent = Null \/ e.parent \in Ids(s.entries)) => Rooted(t.entries)
<1>1. s.entries \in Seq(Entry) /\ e.id \in Nat
  BY DownIs, HeadersDiffer
<1>2. PICK es \in Seq(Entry) : /\ es = Append(s.entries, e) /\ Len(es) = Len(s.entries) + 1
                               /\ es[Len(s.entries) + 1] = e
  BY <1>1, AppendProperties
<1>4. t \in Session /\ t.file = s.file /\ t.flushed = s.flushed /\ t.leaf = e.id /\ t.entries = es
  BY <1>1, <1>2 DEF Session
<1>5. Last(es) = e
  BY <1>2 DEF Last
<1>6. e.id \in Ids(es)
  <2>1. Len(es) \in 1..Len(es) /\ es[Len(es)] = e
    BY <1>1, <1>2
  <2> QED
    BY <2>1, IdsAre
<1>7. Known(es, m)
  BY <1>1, <1>2, KnownMore
<1>8. Rooted(s.entries) /\ (e.parent = Null \/ e.parent \in Ids(s.entries)) => Rooted(es)
  BY <1>1, <1>2, RootedMore
<1> QED
  BY <1>2, <1>4, <1>5, <1>6, <1>7, <1>8

(* A session that is in its file from now on.                               *)
LEMMA SessionWritten ==
  ASSUME NEW t \in Session, NEW u, u = [t EXCEPT !.flushed = TRUE]
  PROVE  u \in Session /\ u.file = t.file /\ u.flushed /\ u.entries = t.entries /\ u.leaf = t.leaf
BY DEF Session

(* An entry that has not been given away is in no file and in no session.   *)
LEMMA IsNew ==
  ASSUME NEW es \in Seq(Entry), NEW n \in Nat, Known(es, n), NEW e \in Entry, e.id > n
  PROVE  \A i \in 1..Len(es) : es[i] # e
<1>1. \A i \in 1..Len(es) : es[i] \in Entry /\ es[i].id <= n
  BY DEF Known
<1>2. \A i \in 1..Len(es) : es[i].id \in Nat
  BY <1>1, HeadersDiffer
<1>3. e.id \in Nat
  BY HeadersDiffer
<1> QED
  BY <1>1, <1>2, <1>3

(* A line is appended to the file of a session.                             *)
LEMMA LineWrites ==
  ASSUME IInv, NEW p \in Process, mem[p] # Down, mem[p].flushed,
         NEW e \in Entry, e.id = lastId', lastId' \in lastId..MaxId, lastId' > lastId,
         e.parent = Null \/ e.parent \in Ids(mem[p].entries),
         NEW t \in Session, t.file = mem[p].file, t.flushed, t.leaf \in Ids(t.entries),
         t.entries = Append(mem[p].entries, e), Last(t.entries) = e, Known(t.entries, lastId'),
         Writes(p, t.file, disk[t.file], Lines(<<Last(t.entries)>>), FALSE, t, t)
  PROVE  IInv' /\ Trees!Next
<1>1. /\ exists \subseteq File /\ hurt \subseteq exists /\ behind \subseteq Process
      /\ disk \in [File -> Seq(Line)] /\ mem \in [Process -> Session \cup {Down}]
      /\ \A q \in Process : SessionFine(q, mem[q], disk, exists, hurt, behind, lastId)
      /\ lastId \in 0..MaxId /\ lastId \in Nat /\ lastId' \in Nat /\ lastId <= lastId'
  BY BoundAssumption DEF IInv
<1>2. PICK s \in Session : s = mem[p]
  BY <1>1
<1>3. PICK f \in File : f = s.file
  BY DownIs
<1>4. PICK n \in Nat : n = lastId' /\ lastId <= n /\ n > lastId /\ n # Null
  BY <1>1 DEF Null
<1>5. Known(s.entries, lastId) /\ InFile(s, disk[f], exists, hurt) /\ s.entries \in Seq(Entry)
  BY <1>1, <1>2, <1>3, DownIs DEF SessionFine
<1>6. /\ t \in Session /\ t.file = f /\ t.flushed /\ t.leaf \in Ids(t.entries)
      /\ t.entries = Append(s.entries, e) /\ Last(t.entries) = e /\ Known(t.entries, n)
  BY <1>2, <1>3, <1>4
<1>7. PICK old : old = disk[f]
  OBVIOUS
<1>8. /\ old \in Seq(Line) /\ FileFine(f, old, exists, hurt, lastId) /\ f \in exists /\ old # <<>>
      /\ old[1].entry = Header(Current)
      /\ Loaded(old) \in Seq(Entry) /\ Known(Loaded(old), lastId)
      /\ f \notin hurt => Within(Loaded(old), s.entries)
  BY <1>3, <1>5, <1>7, OfFile DEF InFile
<1>9. Whole(e) \in Line /\ Whole(e).entry = e /\ Whole(e).whole /\ Whole(e).nl
  BY DEF Whole, Line
<1>10. Lines(<<Last(t.entries)>>) = <<Whole(e)>>
  <2>1. DOMAIN <<e>> = {1} /\ <<e>>[1] = e
    OBVIOUS
  <2>2. Lines(<<e>>) = [i \in {1} |-> Whole(e)]
    BY <2>1 DEF Lines
  <2>3. [i \in {1} |-> Whole(e)] = <<Whole(e)>>
    OBVIOUS
  <2> QED
    BY <1>6, <2>2, <2>3
<1>11. old \o <<Whole(e)>> = Append(old, Whole(e))
  BY <1>8, <1>9, AppendProperties
<1>12. /\ exists' = exists \cup {f}
       /\ \/ /\ disk' = [disk EXCEPT ![f] = Append(old, Whole(e))]
             /\ mem' = [mem EXCEPT ![p] = t]
             /\ behind' = IF t.file = mem[p].file THEN behind ELSE behind \ {p}
             /\ hurt' = hurt
          \/ \E cut \in Cuts(old, <<Whole(e)>>), u \in {t, Down} :
             /\ disk' = [disk EXCEPT ![f] = cut]
             /\ mem' = [mem EXCEPT ![p] = u]
             /\ hurt' = hurt \cup {f}
             /\ behind' = IF u = Down THEN behind \ {p}
                          ELSE IF u.entries # mem[p].entries THEN behind \cup {p} ELSE behind
  BY <1>6, <1>7, <1>10, <1>11 DEF Writes
<1>13. \A q \in Process : mem[q] # Down /\ mem[q].flushed /\ mem[q].file = f =>
         /\ f \notin hurt => Within(Loaded(old), mem[q].entries)
         /\ mem[q].entries \in Seq(Entry) /\ Known(mem[q].entries, lastId)
  BY <1>1, <1>7, DownIs DEF SessionFine, InFile
<1>14. e.id <= n /\ e.id # Null /\ e.id > lastId
  BY <1>4
<1>15. CASE /\ disk' = [disk EXCEPT ![f] = Append(old, Whole(e))]
            /\ mem' = [mem EXCEPT ![p] = t]
            /\ behind' = IF t.file = mem[p].file THEN behind ELSE behind \ {p}
            /\ hurt' = hurt
  <2>1. PICK new, w : new = Append(old, w) /\ w = Whole(e)
    OBVIOUS
  <2>20. /\ FileFine(f, old, exists, hurt, lastId) /\ f \in exists /\ old # <<>>
         /\ old[1].entry = Header(Current)
         /\ w \in Line /\ w.entry = e /\ w.whole /\ w.nl /\ w.entry \in Entry
         /\ n \in Nat /\ lastId \in Nat /\ lastId <= n /\ w.entry.id <= n /\ w.entry.id # Null
    BY <1>1, <1>4, <1>8, <1>9, <1>14, <2>1
  <2>2. f \notin hurt => e.parent = Null \/ e.parent \in Ids(Loaded(old))
    <3>1. ASSUME f \notin hurt, e.parent \in Ids(s.entries) PROVE e.parent \in Ids(Loaded(old))
      <4>1. PICK k \in 1..Len(s.entries) : e.parent = s.entries[k].id
        BY <1>5, <3>1, IdsAre
      <4>2. \E i \in 1..Len(Loaded(old)) : s.entries[k] = Loaded(old)[i]
        BY <1>5, <1>8, <3>1, WithinIn
      <4> QED
        BY <1>8, <4>1, <4>2, IdsAre
    <3> QED
      BY <1>2, <3>1
  <2>3. /\ new # <<>> /\ new[1].entry = Header(Current)
        /\ FileFine(f, new, exists, hurt, n)
    <3>1. Append(old, w) # <<>> /\ Append(old, w)[1].entry = Header(Current)
      BY <2>20, AppendedFine
    <3>2. f \in hurt \/ w.entry.parent = Null \/ w.entry.parent \in Ids(Loaded(old))
      BY <2>2, <2>20
    <3>3. FileFine(f, Append(old, w), exists, hurt, n)
      BY <2>20, <3>2, AppendedFine
    <3> QED
      BY <2>1, <3>1, <3>3
  <2>4. /\ \/ IsPrefix(Loaded(old), Loaded(new))
           \/ Loaded(old) # <<>> /\ Loaded(new) = Front(Loaded(old))
        /\ f \notin hurt => IsPrefix(Loaded(old), Loaded(new)) /\ Loaded(new) = Append(Loaded(old), e)
    <3>1. \/ IsPrefix(Loaded(old), Loaded(Append(old, w)))
          \/ Loaded(old) # <<>> /\ Loaded(Append(old, w)) = Front(Loaded(old))
      BY <2>20, AppendedFine
    <3>2. f \notin hurt => IsPrefix(Loaded(old), Loaded(Append(old, w)))
      BY <2>20, AppendedFine
    <3>3. f \notin hurt /\ w.whole /\ w.nl => Loaded(Append(old, w)) = Append(Loaded(old), w.entry)
      <4>1. ASSUME f \notin hurt PROVE Loaded(Append(old, w)) = Append(Loaded(old), w.entry)
        <5>1. AllWhole(old) /\ Shaped(old) /\ old \in Seq(Line)
          BY <2>20, <4>1 DEF FileFine
        <5> QED
          BY <2>20, <5>1, LoadedAppend
      <4> QED
        BY <4>1
    <3> QED
      BY <2>1, <2>20, <3>1, <3>2, <3>3
  <2>5. exists' = exists
    BY <1>8, <1>12
  <2>6. \A i \in 1..Len(Loaded(old)) : Loaded(old)[i] # e
    BY <1>1, <1>8, <1>14, IsNew
  <2>7. \A q \in Process : mem[q] # Down /\ mem[q].flushed /\ mem[q].file = f =>
          InFile(mem[q], new, exists, hurt)
    <3>1. SUFFICES ASSUME NEW q \in Process, mem[q] # Down, mem[q].flushed, mem[q].file = f
                   PROVE InFile(mem[q], new, exists, hurt)
      OBVIOUS
    <3>2. f \notin hurt => Within(Loaded(new), mem[q].entries)
      <4>1. ASSUME f \notin hurt PROVE Within(Append(Loaded(old), e), mem[q].entries)
        <5>1. /\ mem[q].entries \in Seq(Entry) /\ Known(mem[q].entries, lastId)
              /\ Within(Loaded(old), mem[q].entries)
          BY <1>13, <3>1, <4>1
        <5>2. \A i \in 1..Len(mem[q].entries) : mem[q].entries[i] # e
          BY <1>1, <1>14, <5>1, IsNew
        <5> QED
          BY <1>8, <5>1, <5>2, WithinMore
      <4> QED
        BY <2>4, <4>1
    <3> QED
      BY <1>8, <2>3, <3>1, <3>2 DEF InFile
  <2>8. InFile(t, new, exists, hurt)
    <3>1. ASSUME f \notin hurt PROVE Within(Append(Loaded(old), e), Append(s.entries, e))
      <4>1. \A i \in 1..Len(s.entries) : s.entries[i] # e
        BY <1>1, <1>5, <1>14, IsNew
      <4>2. Within(Loaded(old), s.entries)
        BY <1>8, <3>1
      <4> QED
        BY <1>5, <1>8, <2>6, <4>1, <4>2, WithinMore
    <3> QED
      BY <1>6, <1>8, <2>3, <2>4, <3>1 DEF InFile
  <2>9. disk'[f] = new
    BY <1>1, <1>15, <2>1
  <2>10. SessionFine(p, t, disk', exists', hurt', behind', lastId')
    BY <1>4, <1>6, <1>15, <2>5, <2>8, <2>9 DEF SessionFine
  <2>11. Bounds(p, exists', hurt', behind', lastId')
    BY <1>1, <1>15, <2>5 DEF Bounds
  <2>12. FileFine(f, new, exists', hurt', lastId')
    BY <1>4, <1>15, <2>3, <2>5
  <2>13. IInv'
    <3>1. exists' = exists \cup {f}
      BY <1>12
    <3>2. hurt' = hurt \/ hurt' = hurt \cup {f}
      BY <1>15
    <3>3. disk' = [disk EXCEPT ![f] = new] /\ mem' = [mem EXCEPT ![p] = t]
      BY <1>15, <2>1
    <3>4. OthersKeep(p, f, new, exists', hurt')
      BY <1>15, <2>5, <2>7 DEF OthersKeep
    <3> QED
      BY <2>10, <2>11, <2>12, <3>1, <3>2, <3>3, <3>4, WriteKeeps
  <2>14. Loaded(new) \in Seq(Entry)
    BY <2>12, LoadedType DEF FileFine
  <2>15. f \notin hurt => Rooted(Loaded(new))
    BY <1>8, <2>3 DEF FileFine
  <2>16. Trees!Grow(f, Loaded(old), Loaded(new)) \/ Trees!GrowHarmed(f, Loaded(old), Loaded(new))
    <3>1. PICK a, b : a = Loaded(old) /\ b = Loaded(new)
      OBVIOUS
    <3>2. f \notin hurt => Trees!Rooted(b)
      BY <2>14, <2>15, <3>1, TreesRooted
    <3> QED
      BY <1>15, <2>4, <3>1, <3>2, TreesSequences DEF Trees!Grow, Trees!GrowHarmed
  <2>17. Trees!Next
    BY <1>1, <1>7, <1>15, <2>1, <2>16, TreeStep
  <2> QED
    BY <2>13, <2>17
<1>16. ASSUME NEW cut \in Cuts(old, <<Whole(e)>>), NEW u \in {t, Down},
              disk' = [disk EXCEPT ![f] = cut], mem' = [mem EXCEPT ![p] = u], hurt' = hurt \cup {f},
              behind' = IF u = Down THEN behind \ {p}
                        ELSE IF u.entries # mem[p].entries THEN behind \cup {p} ELSE behind
       PROVE  IInv' /\ Trees!Next
  <2>1. PICK new, v : new = cut /\ v = u
    OBVIOUS
  <2>2. new = old \/ \E l \in Line : l.entry = e /\ new = Append(old, l)
    BY <1>8, <1>9, <2>1, CutOfLine
  <2>3. /\ new # <<>> /\ new[1].entry = Header(Current)
        /\ FileFine(f, new, exists, hurt \cup {f}, n)
        /\ \/ IsPrefix(Loaded(old), Loaded(new))
           \/ Loaded(old) # <<>> /\ Loaded(new) = Front(Loaded(old))
        /\ f \notin hurt => IsPrefix(Loaded(old), Loaded(new))
    <3>1. CASE new = old
      <4>1. Header(Old) # Header(Current)
        BY HeadersDiffer
      <4>2. FileFine(f, old, exists, hurt \cup {f}, lastId)
        BY <1>8, <4>1 DEF FileFine
      <4>3. FileFine(f, old, exists, hurt \cup {f}, n)
        BY <1>1, <1>4, <4>2, FileStays
      <4>4. IsPrefix(Loaded(old), Loaded(old))
        BY <1>8, PrefixFacts
      <4> QED
        BY <1>8, <3>1, <4>3, <4>4
    <3>2. ASSUME NEW l \in Line, l.entry = e, new = Append(old, l)
          PROVE  /\ new # <<>> /\ new[1].entry = Header(Current)
                 /\ FileFine(f, new, exists, hurt \cup {f}, n)
                 /\ \/ IsPrefix(Loaded(old), Loaded(new))
                    \/ Loaded(old) # <<>> /\ Loaded(new) = Front(Loaded(old))
                 /\ f \notin hurt => IsPrefix(Loaded(old), Loaded(new))
      <4>1. /\ FileFine(f, old, exists, hurt, lastId) /\ f \in exists /\ old # <<>>
            /\ old[1].entry = Header(Current) /\ l \in Line /\ l.entry \in Entry
            /\ n \in Nat /\ lastId \in Nat /\ lastId <= n /\ l.entry.id <= n /\ l.entry.id # Null
        BY <1>1, <1>4, <1>8, <1>14, <3>2
      <4>2. Append(old, l) # <<>> /\ Append(old, l)[1].entry = Header(Current)
        BY <4>1, AppendedFine
      <4>3. FileFine(f, Append(old, l), exists, hurt \cup {f}, n)
        BY <4>1, AppendedFine
      <4>4. \/ IsPrefix(Loaded(old), Loaded(Append(old, l)))
            \/ Loaded(old) # <<>> /\ Loaded(Append(old, l)) = Front(Loaded(old))
        BY <4>1, AppendedFine
      <4>5. f \notin hurt => IsPrefix(Loaded(old), Loaded(Append(old, l)))
        BY <4>1, AppendedFine
      <4> QED
        BY <3>2, <4>2, <4>3, <4>4, <4>5
    <3> QED
      BY <2>2, <3>1, <3>2
  <2>4. exists' = exists /\ hurt' = hurt \cup {f}
    BY <1>8, <1>12, <1>16
  <2>5. \A q \in Process : mem[q] # Down /\ mem[q].flushed /\ mem[q].file = f =>
          InFile(mem[q], new, exists', hurt')
    BY <1>8, <2>3, <2>4 DEF InFile
  <2>6. SessionFine(p, v, disk', exists', hurt', behind', lastId')
    <3>1. CASE v = Down
      BY <3>1, DownIs
    <3>2. CASE v = t
      <4>1. disk'[f] = new
        BY <1>1, <1>16, <2>1
      <4>2. InFile(t, disk'[f], exists', hurt')
        BY <1>6, <1>8, <2>3, <2>4, <4>1 DEF InFile
      <4> QED
        BY <1>4, <1>6, <3>2, <4>2 DEF SessionFine
    <3> QED
      BY <2>1, <3>1, <3>2
  <2>7. Bounds(p, exists', hurt', behind', lastId')
    BY <1>1, <1>8, <1>16, <2>4 DEF Bounds
  <2>8. FileFine(f, new, exists', hurt', lastId')
    BY <1>4, <2>3, <2>4
  <2>9. disk' = [disk EXCEPT ![f] = new] /\ mem' = [mem EXCEPT ![p] = v]
    BY <1>16, <2>1
  <2>10. IInv'
    <3>1. exists' = exists \cup {f}
      BY <1>12
    <3>2. hurt' = hurt \/ hurt' = hurt \cup {f}
      BY <2>4
    <3>4. OthersKeep(p, f, new, exists', hurt')
      BY <2>5 DEF OthersKeep
    <3> QED
      BY <2>6, <2>7, <2>8, <2>9, <3>1, <3>2, <3>4, WriteKeeps
  <2>11. Trees!Harm(f, Loaded(old), Loaded(new)) \/ Trees!GrowHarmed(f, Loaded(old), Loaded(new))
    <3>1. PICK a, b : a = Loaded(old) /\ b = Loaded(new)
      OBVIOUS
    <3>2. f \in hurt => hurt' = hurt
      BY <2>4
    <3> QED
      BY <2>3, <2>4, <3>1, <3>2, TreesSequences DEF Trees!Harm, Trees!GrowHarmed
  <2>12. Trees!Next
    BY <1>1, <1>7, <2>9, <2>11, TreeStep
  <2> QED
    BY <2>10, <2>12
<1> QED
  BY <1>12, <1>15, <1>16

(* A process that appends an entry.                                         *)
LEMMA AppendKeeps ==
  ASSUME IInv, NEW p \in Process, NEW kind \in Kind, NEW ref \in Nat, NEW parent \in Nat,
         parent = Null \/ parent \in Ids(mem[p].entries), AppendEntry(p, kind, ref, parent)
  PROVE  IInv' /\ (Touched => Trees!Next)
<1>1. /\ behind \subseteq Process /\ exists \subseteq File /\ hurt \subseteq exists
      /\ mem[p] \in Session /\ SessionFine(p, mem[p], disk, exists, hurt, behind, lastId)
      /\ mem[p] # Down /\ lastId \in 0..MaxId /\ lastId \in Nat /\ MaxId \in Nat
      /\ lastId' = lastId + 1 /\ lastId' \in lastId..MaxId /\ lastId' \in Nat
      /\ lastId <= lastId' /\ lastId' > lastId /\ lastId' # Null
  BY BoundAssumption DEF IInv, AppendEntry, Null
<1>2. PICK e, t : /\ e = [id |-> lastId', parent |-> parent, kind |-> kind, ref |-> ref]
                  /\ t = [mem[p] EXCEPT !.entries = Append(@, e), !.leaf = e.id]
  OBVIOUS
<1>3. e \in Entry /\ e.id = lastId' /\ e.parent = parent /\ e.id <= lastId' /\ e.id # Null
  BY <1>1, <1>2 DEF Entry
<1>4. Persist(p, t)
  BY <1>1, <1>2 DEF AppendEntry
<1>5. PICK s \in Session : s = mem[p]
  BY <1>1
<1>6. PICK n \in Nat : n = lastId'
  BY <1>1
<1>7. /\ t = [s EXCEPT !.entries = Append(@, e), !.leaf = e.id] /\ Known(s.entries, lastId)
      /\ lastId \in Nat /\ lastId <= n /\ e.id <= n /\ e.id # Null /\ e \in Entry
  BY <1>1, <1>2, <1>3, <1>5, <1>6 DEF SessionFine
<1>8. t \in Session
  BY <1>7, SessionMore
<1>9. t.file = s.file /\ t.flushed = s.flushed
  <2>1. t.file = s.file
    BY <1>7, SessionMore, ZenonT(30)
  <2>2. t.flushed = s.flushed
    BY <1>7, SessionMore, ZenonT(30)
  <2> QED
    BY <2>1, <2>2
<1>10. t.leaf \in Ids(t.entries)
  BY <1>7, SessionMore
<1>11. t.entries = Append(s.entries, e) /\ Last(t.entries) = e /\ t.entries \in Seq(Entry)
  <2>1. t.entries = Append(s.entries, e)
    BY <1>7, SessionMore
  <2>2. Last(t.entries) = e
    BY <1>7, SessionMore
  <2> QED
    BY <1>8, <2>1, <2>2, DownIs
<1>12. Known(t.entries, n)
  BY <1>7, SessionMore
<1>13. ~t.flushed => Rooted(t.entries)
  <2>1. Rooted(s.entries) /\ (e.parent = Null \/ e.parent \in Ids(s.entries)) => Rooted(t.entries)
    BY <1>7, SessionMore
  <2>2. ~s.flushed => Rooted(s.entries)
    BY <1>1, <1>5 DEF SessionFine
  <2> QED
    BY <1>3, <1>5, <1>9, <2>1, <2>2
<1>14. t # Down /\ t.file \in File
  BY <1>8, DownIs
<1>15. CASE t.flushed /\ Writes(p, t.file, disk[t.file], Lines(<<Last(t.entries)>>), FALSE, t, t)
  <2>1. t.file = mem[p].file /\ t.flushed /\ mem[p].flushed /\ Known(t.entries, lastId')
        /\ t.entries = Append(mem[p].entries, e)
    BY <1>5, <1>6, <1>9, <1>11, <1>12, <1>15
  <2> QED
    BY <1>1, <1>3, <1>8, <1>10, <1>11, <1>15, <2>1, LineWrites
<1>16. CASE ~t.flushed /\ ~HasReply(t.entries) /\ mem' = [mem EXCEPT ![p] = t] /\ Unwritten /\ UNCHANGED behind
  <2>1. SessionFine(p, t, disk, exists, hurt, behind', lastId')
    BY <1>6, <1>8, <1>10, <1>12, <1>13, <1>16 DEF SessionFine
  <2>2. Bounds(p, exists, hurt, behind', lastId')
    BY <1>1, <1>16 DEF Bounds
  <2>3. IInv'
    BY <1>16, <2>1, <2>2, MemKeeps
  <2> QED
    BY <1>16, <2>3 DEF Touched, Unwritten
<1>17. CASE /\ ~t.flushed /\ HasReply(t.entries) /\ t.file \notin exists
            /\ Writes(p, t.file, <<>>, SessionLines(t.entries), FALSE, [t EXCEPT !.flushed = TRUE], t)
  <2>1. PICK u : u = [t EXCEPT !.flushed = TRUE]
    OBVIOUS
  <2>2. u \in Session /\ u.file = t.file /\ u.flushed /\ u.entries = t.entries /\ u.leaf = t.leaf
    BY <1>8, <2>1, SessionWritten
  <2>3. PICK f \in File, es \in Seq(Entry) : f = t.file /\ es = t.entries
    BY <1>11, <1>14
  <2>4. /\ Known(es, lastId') /\ u.file = f /\ u.entries = es /\ u.flushed
        /\ u.leaf = Null \/ u.leaf \in Ids(es)
    BY <1>6, <1>10, <1>12, <2>2, <2>3
  <2>5. Handed(p, f, es, t)
    BY <1>8, <1>10, <1>13, <1>17, <2>3 DEF Handed
  <2>6. Writes(p, f, <<>>, SessionLines(es), FALSE, u, t)
    BY <1>17, <2>1, <2>3
  <2>7. f \notin exists /\ Rooted(es)
    BY <1>13, <1>17, <2>3
  <2> QED
    BY <1>1, <2>2, <2>4, <2>5, <2>6, <2>7, WholeWrites
<1>18. CASE /\ ~t.flushed /\ HasReply(t.entries) /\ t.file \in exists
            /\ mem' = [mem EXCEPT ![p] = t] /\ behind' = behind \cup {p} /\ Unwritten
  <2>1. SessionFine(p, t, disk, exists, hurt, behind', lastId')
    BY <1>6, <1>8, <1>10, <1>12, <1>13, <1>18 DEF SessionFine
  <2>2. Bounds(p, exists, hurt, behind', lastId')
    BY <1>1, <1>18 DEF Bounds
  <2>3. IInv'
    BY <1>18, <2>1, <2>2, MemKeeps
  <2> QED
    BY <1>18, <2>3 DEF Touched, Unwritten
<1> QED
  BY <1>4, <1>15, <1>16, <1>17, <1>18 DEF Persist

(* What a process has that opens a session.                                 *)
LEMMA OpenedIs ==
  ASSUME NEW f \in File, NEW es \in Seq(Entry)
  PROVE  /\ Opened(f, es) \in Session /\ Opened(f, es) # Down
         /\ Opened(f, es).file = f /\ Opened(f, es).entries = es /\ Opened(f, es).flushed
         /\ Opened(f, es).leaf = Null \/ Opened(f, es).leaf \in Ids(es)
         /\ \A s : s = [Opened(f, es) EXCEPT !.flushed = FALSE] =>
              /\ s \in Session /\ s # Down /\ s.file = f /\ s.entries = es /\ ~s.flushed
              /\ s.leaf = Null \/ s.leaf \in Ids(es)
<1>1. PICK leaf : leaf = IF es = <<>> THEN Null ELSE Last(es).id
  OBVIOUS
<1>2. leaf \in Nat /\ (leaf = Null \/ leaf \in Ids(es))
  <2>1. es # <<>> => Len(es) \in 1..Len(es) /\ Last(es) = es[Len(es)]
    BY DEF Last
  <2>2. es # <<>> => leaf \in Ids(es)
    BY <1>1, <2>1, IdsAre
  <2>3. Ids(es) \subseteq Nat
    BY IdsAre
  <2> QED
    BY <1>1, <2>2, <2>3 DEF Null
<1>3. Opened(f, es) = [file |-> f, entries |-> es, flushed |-> TRUE, leaf |-> leaf]
  BY <1>1 DEF Opened
<1>4. PICK o : o = Opened(f, es)
  OBVIOUS
<1>5. o \in Session /\ o.file = f /\ o.entries = es /\ o.flushed /\ o.leaf = leaf
  BY <1>2, <1>3, <1>4 DEF Session
<1>6. o # Down
  BY <1>5, DownIs
<1>7. ASSUME NEW s, s = [o EXCEPT !.flushed = FALSE]
      PROVE  s \in Session /\ s # Down /\ s.file = f /\ s.entries = es /\ ~s.flushed /\ s.leaf = leaf
  <2>1. s \in Session /\ s.file = f /\ s.entries = es /\ ~s.flushed /\ s.leaf = leaf
    BY <1>5, <1>7 DEF Session
  <2> QED
    BY <2>1, DownIs
<1> QED
  BY <1>2, <1>4, <1>5, <1>6, <1>7

(* What every step starts from.                                             *)
LEMMA OfProcess ==
  ASSUME IInv, NEW p \in Process
  PROVE  /\ exists \subseteq File /\ hurt \subseteq exists /\ behind \subseteq Process
         /\ disk \in [File -> Seq(Line)] /\ mem \in [Process -> Session \cup {Down}]
         /\ lastId \in 0..MaxId /\ lastId \in Nat /\ MaxId \in Nat /\ lastId \in lastId..MaxId
         /\ SessionFine(p, mem[p], disk, exists, hurt, behind, lastId)
         /\ Known(mem[p].entries, lastId)
         /\ mem[p].entries \in Seq(Entry) /\ Ids(mem[p].entries) \subseteq Nat
         /\ mem[p].leaf \in Nat /\ (mem[p].leaf = Null \/ mem[p].leaf \in Ids(mem[p].entries))
<1>1. /\ exists \subseteq File /\ hurt \subseteq exists /\ behind \subseteq Process
      /\ disk \in [File -> Seq(Line)] /\ mem \in [Process -> Session \cup {Down}]
      /\ lastId \in 0..MaxId /\ lastId \in Nat /\ MaxId \in Nat /\ lastId \in lastId..MaxId
      /\ SessionFine(p, mem[p], disk, exists, hurt, behind, lastId)
  BY BoundAssumption DEF IInv
<1>2. mem[p] \in Session \/ mem[p] = Down
  BY <1>1
<1>3. mem[p].entries \in Seq(Entry) /\ mem[p].leaf \in Nat
  <2>1. Down.entries \in Seq(Entry) /\ Down.leaf \in Nat
    BY DownIs DEF Null
  <2> QED
    BY <1>2, <2>1, DownIs
<1>4. Ids(mem[p].entries) \subseteq Nat
  BY <1>3, IdsAre
<1>5. Known(mem[p].entries, lastId) /\ (mem[p].leaf = Null \/ mem[p].leaf \in Ids(mem[p].entries))
  BY <1>1 DEF SessionFine
<1> QED
  BY <1>1, <1>3, <1>4, <1>5

----------------------------------------------------------------------------
(* The steps that write nothing *)

(* Opening a session whose file is not there yet.                           *)
LEMMA OpenNewKeeps ==
  ASSUME IInv, NEW p \in Process, NEW f \in File, OpenNew(p, f)
  PROVE  IInv' /\ (Touched => Trees!Next)
<1>1. PICK s : s = [Opened(f, <<>>) EXCEPT !.flushed = FALSE]
  OBVIOUS
<1>2. <<>> \in Seq(Entry)
  OBVIOUS
<1>3. s \in Session /\ s.entries = <<>> /\ ~s.flushed /\ (s.leaf = Null \/ s.leaf \in Ids(s.entries))
  <2>1. PICK es \in Seq(Entry) : es = <<>>
    BY <1>2
  <2>2. s = [Opened(f, es) EXCEPT !.flushed = FALSE]
    BY <1>1, <2>1
  <2>3. s \in Session /\ s.entries = es /\ ~s.flushed
    BY <2>2, OpenedIs
  <2>4. s.leaf = Null \/ s.leaf \in Ids(es)
    BY <2>2, OpenedIs
  <2> QED
    BY <2>1, <2>3, <2>4
<1>4. Unwritten /\ mem' = [mem EXCEPT ![p] = s] /\ lastId' = lastId /\ behind' = behind
  BY <1>1 DEF OpenNew
<1>5. Known(<<>>, lastId') /\ Rooted(<<>>) /\ ~HasReply(<<>>)
  BY DEF Known, Rooted, HasReply
<1>6. SessionFine(p, s, disk, exists, hurt, behind', lastId')
  BY <1>3, <1>5 DEF SessionFine
<1>7. Bounds(p, exists, hurt, behind', lastId')
  BY <1>4, OfProcess DEF Bounds
<1>8. IInv'
  BY <1>4, <1>6, <1>7, MemKeeps
<1> QED
  BY <1>4, <1>8 DEF Touched, Unwritten

(* Reading the entries of a file.                                           *)
LEMMA OpenCurrentKeeps ==
  ASSUME IInv, NEW p \in Process, NEW f \in File, OpenCurrent(p, f)
  PROVE  IInv' /\ (Touched => Trees!Next)
<1>1. Valid(disk[f]) /\ Version(disk[f]) = Current
  BY DEF OpenCurrent
<1>2. PICK es \in Seq(Entry) : es = Loaded(disk[f]) /\ Known(es, lastId)
  BY OfFile
<1>3. PICK s : s = Opened(f, es)
  OBVIOUS
<1>4. Unwritten /\ mem' = [mem EXCEPT ![p] = s] /\ lastId' = lastId /\ behind' = behind
  BY <1>2, <1>3 DEF OpenCurrent
<1>5. f \in exists /\ disk[f] # <<>> /\ Head(Parsed(disk[f])) = disk[f][1].entry /\ disk[f][1].entry \in Headers
  BY <1>1, OfFile
<1>6. disk[f][1].entry = Header(Current)
  <2>1. disk[f][1].entry.ref = Current
    BY <1>1, <1>5 DEF Version
  <2>2. Header(Old).ref # Current
    BY HeadersDiffer
  <2> QED
    BY <1>5, <2>1, <2>2 DEF Headers
<1>7. s \in Session /\ s.file = f /\ s.entries = es /\ s.flushed /\ (s.leaf = Null \/ s.leaf \in Ids(s.entries))
  BY <1>3, OpenedIs
<1>8. InFile(s, disk[f], exists, hurt)
  BY <1>2, <1>5, <1>6, <1>7, WithinSelf DEF InFile
<1>9. SessionFine(p, s, disk, exists, hurt, behind', lastId')
  BY <1>2, <1>4, <1>7, <1>8 DEF SessionFine
<1>10. Bounds(p, exists, hurt, behind', lastId')
  BY <1>4, OfProcess DEF Bounds
<1>11. IInv'
  BY <1>4, <1>9, <1>10, MemKeeps
<1> QED
  BY <1>4, <1>11 DEF Touched, Unwritten

(* The end of a process.                                                    *)
LEMMA ExitKeeps ==
  ASSUME IInv, NEW p \in Process, Exit(p)
  PROVE  IInv' /\ (Touched => Trees!Next)
<1>1. Unwritten /\ mem' = [mem EXCEPT ![p] = Down] /\ lastId' = lastId /\ behind' = behind \ {p}
  BY DEF Exit
<1>2. SessionFine(p, Down, disk, exists, hurt, behind', lastId')
  BY DownIs
<1>3. Bounds(p, exists, hurt, behind', lastId')
  BY <1>1, OfProcess DEF Bounds
<1>4. IInv'
  BY <1>1, <1>2, <1>3, MemKeeps
<1> QED
  BY <1>1, <1>4 DEF Touched, Unwritten

(* Moving the leaf.                                                         *)
LEMMA GoToKeeps ==
  ASSUME IInv, NEW p \in Process, GoTo(p)
  PROVE  IInv' /\ (Touched => Trees!Next)
<1>1. PICK t \in Ids(mem[p].entries) \cup {Null} : mem' = [mem EXCEPT ![p].leaf = t]
  BY DEF GoTo
<1>2. mem[p] # Down /\ lastId' = lastId /\ behind' = behind /\ Unwritten
  BY DEF GoTo
<1>3. PICK o \in Session : o = mem[p] /\ SessionFine(p, o, disk, exists, hurt, behind, lastId)
  BY <1>2, OfProcess
<1>4. PICK s : s = [o EXCEPT !.leaf = t]
  OBVIOUS
<1>5. mem' = [mem EXCEPT ![p] = s]
  BY <1>1, <1>3, <1>4
<1>6. t \in Nat
  BY <1>1, OfProcess DEF Null
<1>7. s \in Session /\ s.file = o.file /\ s.entries = o.entries /\ s.flushed = o.flushed /\ s.leaf = t
  BY <1>4, <1>6 DEF Session
<1>8. s # Down /\ o # Down
  BY <1>7, DownIs
<1>9. s.leaf = Null \/ s.leaf \in Ids(s.entries)
  BY <1>1, <1>3, <1>7
<1>10. SessionFine(p, s, disk, exists, hurt, behind', lastId')
  BY <1>2, <1>3, <1>7, <1>8, <1>9 DEF SessionFine, InFile
<1>11. Bounds(p, exists, hurt, behind', lastId')
  BY <1>2, OfProcess DEF Bounds
<1>12. IInv'
  BY <1>2, <1>5, <1>10, <1>11, MemKeeps
<1> QED
  BY <1>2, <1>12 DEF Touched, Unwritten

----------------------------------------------------------------------------
(* The steps that append *)

(* Saying something.                                                       *)
LEMMA SayKeeps ==
  ASSUME IInv, NEW p \in Process, Say(p)
  PROVE  IInv' /\ (Touched => Trees!Next)
<1>1. PICK kind \in {"user", "assistant"} : AppendEntry(p, kind, Null, mem[p].leaf)
  BY DEF Say
<1>2. kind \in Kind /\ Null \in Nat
  BY DEF Kind, Messages, Null
<1>3. mem[p].leaf \in Nat /\ (mem[p].leaf = Null \/ mem[p].leaf \in Ids(mem[p].entries))
  BY OfProcess
<1> QED
  BY <1>1, <1>2, <1>3, AppendKeeps

(* Labelling an entry, or taking its label away.                            *)
LEMMA LabelKeeps ==
  ASSUME IInv, NEW p \in Process, Label(p)
  PROVE  IInv' /\ (Touched => Trees!Next)
<1>1. PICK t \in Ids(mem[p].entries) \ {Null} :
        AppendEntry(p, IF t \in Labelled(mem[p].entries) THEN "unlabel" ELSE "label", t, mem[p].leaf)
  BY DEF Label
<1>2. PICK kind : kind = IF t \in Labelled(mem[p].entries) THEN "unlabel" ELSE "label"
  OBVIOUS
<1>3. kind \in Kind /\ t \in Nat
  BY <1>2, OfProcess DEF Kind
<1>4. mem[p].leaf \in Nat /\ (mem[p].leaf = Null \/ mem[p].leaf \in Ids(mem[p].entries))
  BY OfProcess
<1> QED
  BY <1>1, <1>2, <1>3, <1>4, AppendKeeps

(* Compacting the path to the leaf.                                         *)
LEMMA CompactKeeps ==
  ASSUME IInv, NEW p \in Process, Compact(p)
  PROVE  IInv' /\ (Touched => Trees!Next)
<1>1. PICK kept \in FirstKept(Branch(mem[p].entries, mem[p].leaf)) :
        AppendEntry(p, "compaction", kept, mem[p].leaf)
  BY DEF Compact
<1>2. mem[p].entries \in Seq(Entry) /\ Known(mem[p].entries, lastId)
  BY OfProcess
<1>3. Branch(mem[p].entries, mem[p].leaf) \in Seq(Entry)
  BY <1>2, BranchIs
<1>4. kept \in Nat /\ "compaction" \in Kind
  BY <1>3, FirstKeptIds DEF Kind
<1>5. mem[p].leaf \in Nat /\ (mem[p].leaf = Null \/ mem[p].leaf \in Ids(mem[p].entries))
  BY OfProcess
<1> QED
  BY <1>1, <1>4, <1>5, AppendKeeps

(* Summarizing what is left behind.                                         *)
LEMMA SummarizeKeeps ==
  ASSUME IInv, NEW p \in Process, Summarize(p)
  PROVE  IInv' /\ (Touched => Trees!Next)
<1>1. PICK t \in Ids(mem[p].entries) \cup {Null} : AppendEntry(p, "summary", t, t)
  BY DEF Summarize
<1>2. t \in Nat /\ "summary" \in Kind
  BY OfProcess DEF Kind, Messages, Null
<1> QED
  BY <1>1, <1>2, AppendKeeps

----------------------------------------------------------------------------
(* The steps that write a file as a whole *)

(* An empty file gets a header.                                             *)
LEMMA OpenEmptyKeeps ==
  ASSUME IInv, NEW p \in Process, NEW f \in File, OpenEmpty(p, f)
  PROVE  IInv' /\ (Touched => Trees!Next)
<1>1. PICK es \in Seq(Entry) : es = <<>>
  <2>1. <<>> \in Seq(Entry)
    OBVIOUS
  <2> QED
    BY <2>1
<1>2. PICK s : s = Opened(f, es)
  OBVIOUS
<1>3. lastId' = lastId /\ f \in exists /\ disk[f] = <<>> /\ Writes(p, f, <<>>, SessionLines(es), FALSE, s, Down)
  BY <1>1, <1>2 DEF OpenEmpty
<1>4. s \in Session /\ s.file = f /\ s.entries = es /\ s.flushed /\ (s.leaf = Null \/ s.leaf \in Ids(es))
  BY <1>2, OpenedIs
<1>5. Known(es, lastId') /\ lastId' \in lastId..MaxId
  BY <1>1, <1>3, OfProcess DEF Known
<1>6. Handed(p, f, es, Down)
  BY DEF Handed
<1>7. f \in hurt
  BY <1>3, OfFile DEF FileFine
<1> QED
  BY <1>1, <1>3, <1>4, <1>5, <1>6, <1>7, WholeWrites

(* A file of the first version is rewritten.                                *)
LEMMA OpenOldKeeps ==
  ASSUME IInv, NEW p \in Process, NEW f \in File, OpenOld(p, f)
  PROVE  IInv' /\ (Touched => Trees!Next)
<1>1. PICK src \in Seq(Entry) : src = Loaded(disk[f])
  BY OfFile
<1>2. PICK es \in Seq(Entry) : /\ es = Migrated(src) /\ Len(es) = Len(src) /\ Rooted(es)
                               /\ Known(es, lastId + Len(src)) /\ Trees!Same(src, es)
  BY MigratedIs, OfProcess
<1>3. PICK s : s = Opened(f, es)
  OBVIOUS
<1>4. /\ Valid(disk[f]) /\ Version(disk[f]) = Old /\ lastId + Len(es) <= MaxId /\ lastId' = lastId + Len(es)
      /\ Writes(p, f, <<>>, SessionLines(es), FALSE, s, Down)
  BY <1>1, <1>2, <1>3 DEF OpenOld
<1>5. s \in Session /\ s.file = f /\ s.entries = es /\ s.flushed /\ (s.leaf = Null \/ s.leaf \in Ids(es))
  BY <1>3, OpenedIs
<1>6. Known(es, lastId') /\ lastId' \in lastId..MaxId
  <2>1. Len(es) \in Nat
    OBVIOUS
  <2> QED
    BY <1>2, <1>4, <2>1, OfProcess
<1>7. Handed(p, f, es, Down)
  BY DEF Handed
<1>8. f \in exists /\ disk[f] # <<>> /\ Head(Parsed(disk[f])) = disk[f][1].entry /\ disk[f][1].entry \in Headers
  BY <1>4, OfFile
<1>9. disk[f][1].entry = Header(Old)
  <2>1. disk[f][1].entry.ref = Old
    BY <1>4, <1>8 DEF Version
  <2>2. Header(Current).ref # Old
    BY HeadersDiffer
  <2> QED
    BY <1>8, <2>1, <2>2 DEF Headers
<1>10. f \in Legacy /\ f \notin hurt
  BY <1>8, <1>9, OfFile
<1> QED
  BY <1>1, <1>2, <1>4, <1>5, <1>6, <1>7, <1>8, <1>9, <1>10, WholeWrites

(* A copy of a file is written.                                             *)
LEMMA ForkFromKeeps ==
  ASSUME IInv, NEW p \in Process, NEW f \in File, NEW g \in File, ForkFrom(p, f, g)
  PROVE  IInv' /\ (Touched => Trees!Next)
<1>1. PICK es \in Seq(Entry) : es = Loaded(disk[f]) /\ Known(es, lastId)
  BY OfFile
<1>2. PICK s : s = Opened(g, es)
  OBVIOUS
<1>3. /\ lastId' = lastId /\ Valid(disk[f]) /\ g \notin exists
      /\ Writes(p, g, <<>>, SessionLines(es), f \in hurt, s, Down)
  BY <1>1, <1>2 DEF ForkFrom, Fresh
<1>4. s \in Session /\ s.file = g /\ s.entries = es /\ s.flushed /\ (s.leaf = Null \/ s.leaf \in Ids(es))
  BY <1>2, OpenedIs
<1>5. Known(es, lastId') /\ lastId' \in lastId..MaxId
  BY <1>1, <1>3, OfProcess
<1>6. Handed(p, g, es, Down)
  BY DEF Handed
<1>7. CASE f \in hurt
  <2>1. Writes(p, g, <<>>, SessionLines(es), TRUE, s, Down)
    BY <1>3, <1>7 DEF Writes
  <2> QED
    BY <1>3, <1>4, <1>5, <1>6, <2>1, WholeWrites
<1>8. CASE f \notin hurt
  <2>1. Writes(p, g, <<>>, SessionLines(es), FALSE, s, Down)
    BY <1>3, <1>8 DEF Writes
  <2>2. Rooted(es)
    BY <1>1, <1>3, <1>8, OfFile
  <2> QED
    BY <1>3, <1>4, <1>5, <1>6, <2>1, <2>2, WholeWrites
<1> QED
  BY <1>7, <1>8

(* A path becomes a session of its own.                                     *)
LEMMA ForkStep ==
  ASSUME IInv, NEW p \in Process, NEW id, NEW g \in File, Fork(p, id, g)
  PROVE  IInv' /\ (Touched => Trees!Next)
<1>1. mem[p] # Down /\ mem[p].file \in exists /\ Fresh(g)
  BY DEF Fork
<1>2. PICK f \in File : f = mem[p].file
  BY <1>1, OfProcess
<1>3. PICK src \in Seq(Entry) : src = Loaded(disk[f]) /\ Known(src, lastId)
  BY OfFile
<1>4. PICK es \in Seq(Entry), labels \in Nat :
        /\ es = Branched(src, id) /\ labels = Cardinality({i \in DOMAIN es : es[i].id > lastId})
        /\ Rooted(es) /\ Known(es, lastId + labels)
  <2>1. lastId \in Nat
    BY OfProcess
  <2> QED
    BY <1>3, <2>1, BranchedIs
<1>5. lastId + labels <= MaxId /\ lastId' = lastId + labels
  BY <1>2, <1>3, <1>4 DEF Fork
<1>6. PICK s, u : s = Opened(g, es) /\ u = [Opened(g, es) EXCEPT !.flushed = FALSE]
  OBVIOUS
<1>7. \/ HasReply(es) /\ Writes(p, g, <<>>, SessionLines(es), FALSE, s, mem[p])
      \/ ~HasReply(es) /\ mem' = [mem EXCEPT ![p] = u] /\ behind' = behind \ {p} /\ Unwritten
  BY <1>2, <1>3, <1>4, <1>6 DEF Fork
<1>8. s \in Session /\ s.file = g /\ s.entries = es /\ s.flushed /\ (s.leaf = Null \/ s.leaf \in Ids(es))
  BY <1>6, OpenedIs
<1>9. Known(es, lastId') /\ lastId' \in lastId..MaxId
  BY <1>4, <1>5, OfProcess
<1>10. CASE HasReply(es) /\ Writes(p, g, <<>>, SessionLines(es), FALSE, s, mem[p])
  <2>1. g \notin exists /\ mem[p].file # g
    BY <1>1 DEF Fresh
  <2>2. Handed(p, g, es, mem[p])
    BY <2>1 DEF Handed
  <2> QED
    BY <1>4, <1>8, <1>9, <1>10, <2>1, <2>2, WholeWrites
<1>11. CASE ~HasReply(es) /\ mem' = [mem EXCEPT ![p] = u] /\ behind' = behind \ {p} /\ Unwritten
  <2>1. u \in Session /\ u.entries = es /\ ~u.flushed /\ (u.leaf = Null \/ u.leaf \in Ids(es))
    BY <1>6, OpenedIs
  <2>2. SessionFine(p, u, disk, exists, hurt, behind', lastId')
    BY <1>4, <1>9, <1>11, <2>1 DEF SessionFine
  <2>3. Bounds(p, exists, hurt, behind', lastId')
    BY <1>9, <1>11, OfProcess DEF Bounds
  <2>4. IInv'
    BY <1>11, <2>2, <2>3, MemKeeps
  <2> QED
    BY <1>11, <2>4 DEF Touched, Unwritten
<1> QED
  BY <1>7, <1>10, <1>11

----------------------------------------------------------------------------
(* What past processes left.                                                *)
LEMMA Initially ==
  ASSUME Init
  PROVE  IInv /\ Trees!Init
<1>1. PICK past \in Found :
        /\ exists = DOMAIN past
        /\ disk = [f \in File |->
             IF f \in DOMAIN past
             THEN Lines(<<Header(IF f \in Legacy THEN Old ELSE Current)>> \o past[f]) ELSE <<>>]
  BY DEF Init
<1>2. /\ mem = [p \in Process |-> Down] /\ lastId = FirstId /\ hurt = {} /\ behind = {}
      /\ FirstId \in Nat /\ FirstId \in 0..MaxId
  BY BoundAssumption DEF Init
<1>3. exists \subseteq File
  BY <1>1, FileAssumption
<1>4. ASSUME NEW f \in File
      PROVE  /\ FileFine(f, disk[f], exists, hurt, lastId) /\ disk[f] \in Seq(Line)
             /\ Loaded(disk[f]) \in Seq(Entry) /\ Rooted(Loaded(disk[f]))
  <2>1. CASE f \notin exists
    <3>1. disk[f] = <<>>
      BY <1>1, <2>1
    <3>2. <<>> \in Seq(Line) /\ Shaped(<<>>) /\ IdsIn(<<>>, lastId) /\ Rooted(<<>>) /\ <<>> \in Seq(Entry)
      BY DEF Shaped, IdsIn, Rooted
    <3> QED
      BY <2>1, <3>1, <3>2, LoadedNothing DEF FileFine
  <2>2. CASE f \in exists
    <3>1. PICK h : h = Header(IF f \in Legacy THEN Old ELSE Current)
      OBVIOUS
    <3>2. h \in Headers /\ (h = Header(Old) => f \in Legacy)
      BY <3>1, HeadersDiffer DEF Headers
    <3>3. PICK es \in Seq(Entry) :
            /\ es = past[f]
            /\ \A i \in DOMAIN es : IF f \in Legacy THEN es[i].id = Null /\ es[i].parent = Null
                                    ELSE es[i].id \in 1..FirstId /\ RootOrChild(es, i)
      BY <1>1, <2>2, FoundAssumption
    <3>4. DOMAIN es = 1..Len(es)
      OBVIOUS
    <3>5. Rooted(es) /\ Known(es, FirstId)
      <4>1. ASSUME NEW i \in 1..Len(es)
            PROVE  RootOrChild(es, i) /\ es[i].id <= FirstId /\ (es[i].id = Null => es[i].parent = Null)
        <5>1. CASE f \in Legacy
          BY <1>2, <3>3, <3>4, <5>1 DEF RootOrChild, Null
        <5>2. CASE f \notin Legacy
          BY <1>2, <3>3, <3>4, <5>2 DEF Null
        <5> QED
          BY <5>1, <5>2
      <4> QED
        BY <4>1 DEF Rooted, Known
    <3>6. disk[f] = Lines(<<h>> \o es)
      BY <1>1, <2>2, <3>1, <3>3
    <3>7. PICK ls \in Seq(Line) :
            /\ ls = disk[f] /\ Len(ls) = Len(es) + 1 /\ ls # <<>> /\ Shaped(ls) /\ AllWhole(ls)
            /\ ls[1].entry = h /\ Loaded(ls) = es /\ \A i \in 1..Len(es) : ls[i + 1].entry = es[i]
      BY <3>2, <3>6, FoundLines
    <3>8. IdsIn(ls, FirstId)
      <4>1. ASSUME NEW i \in 1..Len(ls), i > 1
            PROVE  ls[i].entry.id <= FirstId /\ (ls[i].entry.id = Null => ls[i].entry.parent = Null)
        <5>1. Len(es) \in Nat
          OBVIOUS
        <5>2. i - 1 \in 1..Len(es) /\ (i - 1) + 1 = i
          BY <3>7, <4>1, <5>1
        <5>3. ls[(i - 1) + 1].entry = es[i - 1]
          BY <3>7, <5>2
        <5> QED
          BY <3>5, <5>2, <5>3 DEF Known
      <4> QED
        BY <4>1 DEF IdsIn
    <3> QED
      BY <1>2, <2>2, <3>2, <3>5, <3>7, <3>8 DEF FileFine
  <2> QED
    BY <2>1, <2>2
<1>5. disk \in [File -> Seq(Line)]
  <2>1. \A f \in File : disk[f] \in Seq(Line)
    BY <1>4
  <2>2. DOMAIN disk = File /\ disk = [f \in File |-> disk[f]]
    BY <1>1
  <2> QED
    BY <2>1, <2>2
<1>6. \A p \in Process : SessionFine(p, mem[p], disk, exists, hurt, behind, lastId)
  BY <1>2, DownIs
<1>7. mem \in [Process -> Session \cup {Down}]
  BY <1>2
<1>8. IInv
  BY <1>2, <1>3, <1>4, <1>5, <1>6, <1>7 DEF IInv
<1>9. Trees!Init
  <2>1. ASSUME NEW f \in File PROVE Trees!Rooted(Loaded(disk[f]))
    BY <1>4, TreesRooted
  <2>2. \A f \in File : [g \in File |-> Loaded(disk[g])][f] = Loaded(disk[f])
    OBVIOUS
  <2> QED
    BY <1>2, <2>1, <2>2 DEF Trees!Init
<1> QED
  BY <1>8, <1>9

(* Each step.                                                               *)
LEMMA EachStep ==
  ASSUME IInv, [Next]_vars
  PROVE  IInv' /\ (Touched => Trees!Next)
<1>1. ASSUME NEW p \in Process, NEW f \in File,
             OpenNew(p, f) \/ OpenEmpty(p, f) \/ OpenCurrent(p, f) \/ OpenOld(p, f)
      PROVE  IInv' /\ (Touched => Trees!Next)
  BY <1>1, OpenNewKeeps, OpenEmptyKeeps, OpenCurrentKeeps, OpenOldKeeps
<1>2. ASSUME NEW p \in Process, Say(p) \/ Exit(p) \/ Label(p) \/ Compact(p) \/ GoTo(p) \/ Summarize(p)
      PROVE  IInv' /\ (Touched => Trees!Next)
  BY <1>2, SayKeeps, ExitKeeps, LabelKeeps, CompactKeeps, GoToKeeps, SummarizeKeeps
<1>3. ASSUME NEW p \in Process, NEW f \in File, NEW g \in File, ForkFrom(p, f, g)
      PROVE  IInv' /\ (Touched => Trees!Next)
  BY <1>3, ForkFromKeeps
<1>4. ASSUME NEW p \in Process, NEW id \in Ids(mem[p].entries), NEW g \in File, Fork(p, id, g)
      PROVE  IInv' /\ (Touched => Trees!Next)
  BY <1>4, ForkStep
<1>5. CASE UNCHANGED vars
  BY <1>5 DEF vars, Touched, IInv, FileFine, SessionFine, Session, Down, InFile, Known, Rooted, IdsIn
<1> QED
  BY <1>1, <1>2, <1>3, <1>4, <1>5 DEF Next

(* The invariant.                                                           *)
LEMMA Invariant == Spec => []IInv
<1>1. Init => IInv
  BY Initially
<1>2. IInv /\ [Next]_vars => IInv'
  BY EachStep
<1> QED
  BY <1>1, <1>2, PTL DEF Spec

(* Files, sessions and ids are what they seem, and a leaf is an entry of    *)
(* its session.                                                             *)
THEOREM TypeCorrect == Spec => []TypeOK
<1>1. IInv => TypeOK
  <2> SUFFICES ASSUME IInv PROVE TypeOK
    OBVIOUS
  <2>1. \A p \in Process : mem[p].leaf = Null \/ mem[p].leaf \in Ids(mem[p].entries)
    BY OfProcess
  <2> QED
    BY <2>1 DEF IInv, TypeOK
<1> QED
  BY <1>1, Invariant, PTL

(* What a process has said is in its file: an entry waits in memory only    *)
(* until the first reply, a failed write aside.                             *)
THEOREM NothingUnsaved == Spec => []Saved
<1>1. IInv => Saved
  <2> SUFFICES ASSUME IInv, NEW p \in Process \ behind, mem[p] # Down, mem[p].file \notin hurt,
                      mem[p].flushed \/ HasReply(mem[p].entries)
               PROVE  /\ mem[p].file \in exists
                      /\ Within(Loaded(disk[mem[p].file]), mem[p].entries)
    BY DEF Saved, Within, Held
  <2>1. SessionFine(p, mem[p], disk, exists, hurt, behind, lastId)
    BY DEF IInv
  <2>2. mem[p].flushed
    BY <2>1 DEF SessionFine
  <2> QED
    BY <2>1, <2>2 DEF SessionFine, InFile
<1> QED
  BY <1>1, Invariant, PTL

(* What readers see of the files are the trees they were promised, however  *)
(* many processes write them and wherever a write is cut short.             *)
THEOREM ImplementsTree == Spec => TreeSpec
<1>1. Init => Trees!Init
  BY Initially
<1>2. IInv /\ [Next]_vars => [Touched => Trees!Next]_vars
  BY EachStep
<1> QED
  BY <1>1, <1>2, Invariant, PTL DEF Spec, TreeSpec

(* And they are the abstract specification itself.                          *)
THEOREM ImplementsTrees == Spec => Trees!Spec
<1>1. Init => Trees!Init
  BY Initially
<1>2. IInv /\ [Next]_vars => [Trees!Next]_(Trees!vars)
  <2> SUFFICES ASSUME IInv, [Next]_vars PROVE [Trees!Next]_(Trees!vars)
    OBVIOUS
  <2>1. CASE Touched
    BY <2>1, EachStep
  <2>2. CASE ~Touched
    BY <2>2 DEF Touched, Trees!vars
  <2> QED
    BY <2>1, <2>2
<1> QED
  BY <1>1, <1>2, Invariant, PTL DEF Spec, Trees!Spec

----------------------------------------------------------------------------
(* Entries in order *)

(* The entries have ids of their own, and a parent comes before its         *)
(* children; ids and parents are given away.                                *)
Apart(es, j) ==
  es[j].id # Null =>
    es[j].parent # es[j].id /\ \A i \in 1..(j - 1) : es[i].id # es[j].id /\ es[i].parent # es[j].id
Ordered(es, n) == \A j \in 1..Len(es) : es[j].id <= n /\ es[j].parent <= n /\ Apart(es, j)

(* What entries and headers are.                                            *)
LEMMA LinedIs ==
  /\ \A e \in Lined : e.id \in Nat /\ e.parent \in Nat
  /\ \A h \in Headers : h.id = Null /\ h.parent = Null
<1>1. \A h \in Headers : h.id = Null /\ h.parent = Null
  BY DEF Headers, Header
<1>2. \A e \in Entry : e.id \in Nat /\ e.parent \in Nat
  BY HeadersDiffer
<1> QED
  BY <1>1, <1>2 DEF Lined, Null

(* What is in order in another sequence, at places that grow.               *)
LEMMA OrderedPart ==
  ASSUME NEW es \in Seq(Lined), NEW ps \in Seq(Lined), NEW n \in Nat, Ordered(es, n),
         NEW at \in [1..Len(ps) -> 1..Len(es)],
         \A k \in 1..Len(ps) : ps[k].id = es[at[k]].id /\ ps[k].parent = es[at[k]].parent,
         \A k \in 1..Len(ps) : \A l \in 1..(k - 1) : at[l] < at[k]
  PROVE  Ordered(ps, n)
<1>1. Len(ps) \in Nat /\ Len(es) \in Nat
  OBVIOUS
<1>2. ASSUME NEW k \in 1..Len(ps) PROVE ps[k].id <= n /\ ps[k].parent <= n /\ Apart(ps, k)
  <2>1. PICK j \in 1..Len(es) : j = at[k]
    OBVIOUS
  <2>2. es[j].id <= n /\ es[j].parent <= n /\ Apart(es, j)
    BY DEF Ordered
  <2>3. ps[k].id = es[j].id /\ ps[k].parent = es[j].parent
    BY <2>1
  <2>4. ASSUME es[j].id # Null, NEW l \in 1..(k - 1)
        PROVE  ps[l].id # es[j].id /\ ps[l].parent # es[j].id
    <3>1. l \in 1..Len(ps)
      BY <1>1
    <3>2. PICK i \in 1..Len(es) : i = at[l]
      BY <3>1
    <3>3. i < j
      BY <2>1, <3>2
    <3>4. i \in 1..(j - 1)
      BY <1>1, <3>3
    <3>5. es[i].id # es[j].id /\ es[i].parent # es[j].id
      BY <2>2, <2>4, <3>4 DEF Apart
    <3>6. ps[l].id = es[i].id /\ ps[l].parent = es[i].parent
      BY <3>1, <3>2
    <3> QED
      BY <3>5, <3>6
  <2> QED
    BY <2>2, <2>3, <2>4 DEF Apart
<1> QED
  BY <1>2 DEF Ordered

(* The first ones of them.                                                  *)
LEMMA OrderedPrefix ==
  ASSUME NEW es \in Seq(Lined), NEW ps \in Seq(Lined), NEW n \in Nat, Ordered(es, n),
         Len(ps) <= Len(es),
         \A k \in 1..Len(ps) : ps[k].id = es[k].id /\ ps[k].parent = es[k].parent
  PROVE  Ordered(ps, n)
<1>1. Len(ps) \in Nat /\ Len(es) \in Nat
  OBVIOUS
<1>2. PICK at : at = [k \in 1..Len(ps) |-> k]
  OBVIOUS
<1>3. \A k \in 1..Len(ps) : at[k] = k /\ k \in 1..Len(es)
  BY <1>1, <1>2
<1>4. at \in [1..Len(ps) -> 1..Len(es)]
  BY <1>2, <1>3
<1>5. ASSUME NEW k \in 1..Len(ps), NEW l \in 1..(k - 1) PROVE at[l] < at[k]
  <2>1. l \in 1..Len(ps) /\ l < k
    BY <1>1
  <2> QED
    BY <1>3, <2>1
<1> QED
  BY <1>3, <1>4, <1>5, OrderedPart

(* Later ids are given away too; the next one may be added.                 *)
LEMMA OrderedMore ==
  ASSUME NEW es \in Seq(Lined), NEW n \in Nat, NEW m \in Nat, n <= m, Ordered(es, n)
  PROVE  /\ Ordered(es, m)
         /\ \A e \in Lined : e.id = m /\ n < m /\ e.parent <= n => Ordered(Append(es, e), m)
<1>1. Len(es) \in Nat /\ \A i \in 1..Len(es) : es[i].id \in Nat /\ es[i].parent \in Nat
  <2>1. \A i \in 1..Len(es) : es[i] \in Lined
    OBVIOUS
  <2> QED
    BY <2>1, LinedIs
<1>2. \A i \in 1..Len(es) : es[i].id <= n /\ es[i].parent <= n /\ Apart(es, i)
  BY DEF Ordered
<1>3. Ordered(es, m)
  BY <1>1, <1>2 DEF Ordered
<1>4. ASSUME NEW e \in Lined, e.id = m, n < m, e.parent <= n PROVE Ordered(Append(es, e), m)
  <2>1. PICK t \in Seq(Lined) : /\ t = Append(es, e) /\ Len(t) = Len(es) + 1
                                /\ \A i \in 1..Len(es) : t[i] = es[i]
                                /\ t[Len(es) + 1] = e
    BY AppendProperties
  <2>2. ASSUME NEW j \in 1..Len(t) PROVE t[j].id <= m /\ t[j].parent <= m /\ Apart(t, j)
    <3>1. CASE j = Len(es) + 1
      <4>1. e.parent \in Nat
        BY LinedIs
      <4>2. \A i \in 1..(j - 1) : i \in 1..Len(es)
        BY <1>1, <3>1
      <4>3. \A i \in 1..Len(es) : es[i].id # m /\ es[i].parent # m
        BY <1>1, <1>2, <1>4
      <4> QED
        BY <1>4, <2>1, <3>1, <4>1, <4>2, <4>3 DEF Apart
    <3>2. CASE j # Len(es) + 1
      <4>1. j \in 1..Len(es)
        BY <1>1, <2>1, <3>2
      <4>2. \A i \in 1..(j - 1) : i \in 1..Len(es)
        BY <1>1, <4>1
      <4>3. es[j].id <= m /\ es[j].parent <= m /\ Apart(es, j)
        BY <1>3, <4>1 DEF Ordered
      <4> QED
        BY <2>1, <4>1, <4>2, <4>3 DEF Apart
    <3> QED
      BY <3>1, <3>2
  <2> QED
    BY <2>1, <2>2 DEF Ordered
<1> QED
  BY <1>3, <1>4

(* What is loaded of lines in order is.                                     *)
LEMMA OrderedLoaded ==
  ASSUME NEW ls \in Seq(Line), Shaped(ls), NEW n \in Nat, Ordered(Texts(ls), n)
  PROVE  Ordered(Loaded(ls), n)
<1>1. PICK t \in Seq(Lined) : t = Texts(ls) /\ Len(t) = Len(ls) /\ \A i \in 1..Len(ls) : t[i] = ls[i].entry
  BY TextsType
<1>2. PICK es \in Seq(Lined) : es = Loaded(ls)
  <2>1. Loaded(ls) \in Seq(Entry) /\ Entry \subseteq Lined
    BY LoadedType DEF Lined
  <2> QED
    BY <2>1, SeqMonotonic
<1>3. PICK at \in SUBSET (1..Len(ls)) :
        /\ at = Seen(ls) /\ Len(ls) \in Nat
        /\ \A k \in 1..Len(Parsed(ls)) : \E i \in at : Rank(at, i) = k /\ Parsed(ls)[k] = ls[i].entry
  <2>1. Seen(ls) \in SUBSET (1..Len(ls)) /\ Len(ls) \in Nat
    BY DEF Seen
  <2> QED
    BY <2>1, ParsedIs
<1>4. CASE ~Valid(ls)
  <2>1. es = <<>>
    BY <1>2, <1>4 DEF Loaded
  <2>2. Len(es) = 0
    BY <2>1
  <2> QED
    BY <1>2, <2>2 DEF Ordered
<1>5. CASE Valid(ls)
  <2>1. PICK p \in Seq(Lined) : p = Parsed(ls) /\ p # <<>> /\ es = Tail(p)
    BY <1>2, <1>5, ParsedIs DEF Valid, Loaded
  <2>2. Len(es) = Len(p) - 1 /\ \A k \in 1..Len(es) : es[k] = p[k + 1]
    BY <2>1, HeadTailProperties
  <2>3. Len(p) \in Nat /\ Len(es) \in Nat
    OBVIOUS
  <2>4. ASSUME NEW k \in 1..Len(es)
        PROVE  \E i \in at : Rank(at, i) = k + 1 /\ es[k] = t[i]
    <3>1. k + 1 \in 1..Len(p)
      BY <2>2, <2>3
    <3>2. PICK i \in at : Rank(at, i) = k + 1 /\ p[k + 1] = ls[i].entry
      BY <1>3, <2>1, <3>1
    <3>3. t[i] = ls[i].entry
      BY <1>1, <1>3
    <3> QED
      BY <2>2, <3>2, <3>3
  <2>5. PICK f : f = [k \in 1..Len(es) |-> CHOOSE i \in at : Rank(at, i) = k + 1 /\ es[k] = t[i]]
    OBVIOUS
  <2>6. \A k \in 1..Len(es) : f[k] \in at /\ Rank(at, f[k]) = k + 1 /\ es[k] = t[f[k]]
    BY <2>4, <2>5
  <2>7. f \in [1..Len(es) -> 1..Len(t)]
    BY <1>1, <1>3, <2>5, <2>6
  <2>8. \A i, k \in at : i < k => Rank(at, i) < Rank(at, k)
    BY <1>3, RankGrows
  <2>9. ASSUME NEW k \in 1..Len(es), NEW l \in 1..(k - 1) PROVE f[l] < f[k]
    <3>1. l \in 1..Len(es) /\ l + 1 < k + 1 /\ k \in Nat /\ l \in Nat
      BY <2>3
    <3>2. PICK a \in at, b \in at : a = f[l] /\ b = f[k] /\ Rank(at, a) = l + 1 /\ Rank(at, b) = k + 1
      BY <2>6, <3>1
    <3>3. a \in Nat /\ b \in Nat
      BY <1>3
    <3>4. ~(Rank(at, b) < Rank(at, a)) /\ a # b
      BY <3>1, <3>2
    <3>5. ~(b < a)
      BY <2>8, <3>4
    <3> QED
      BY <3>2, <3>3, <3>4, <3>5
  <2>10. \A k \in 1..Len(es) : es[k].id = t[f[k]].id /\ es[k].parent = t[f[k]].parent
    BY <2>6
  <2>11. Ordered(t, n)
    BY <1>1
  <2>12. Ordered(es, n)
    BY <2>7, <2>9, <2>10, <2>11, OrderedPart
  <2> QED
    BY <1>2, <2>12
<1> QED
  BY <1>4, <1>5

(* A chain is in order: each is the child of the one before.                *)
Chain(es) ==
  \A i \in 1..Len(es) :
    /\ es[i].id # Null /\ es[i].parent = IF i = 1 THEN Null ELSE es[i - 1].id
    /\ \A j \in 1..(i - 1) : es[j].id # es[i].id

(* So its ids and parents, which are ids of it, are given away.            *)
LEMMA ChainOrdered ==
  ASSUME NEW es \in Seq(Lined), NEW n \in Nat, Chain(es), \A i \in 1..Len(es) : es[i].id <= n
  PROVE  Ordered(es, n)
<1>1. Len(es) \in Nat
  OBVIOUS
<1>2. ASSUME NEW j \in 1..Len(es) PROVE es[j].id <= n /\ es[j].parent <= n /\ Apart(es, j)
  <2>1. /\ es[j].id # Null /\ es[j].parent = IF j = 1 THEN Null ELSE es[j - 1].id
        /\ \A i \in 1..(j - 1) : es[i].id # es[j].id
    BY DEF Chain
  <2>2. j # 1 => j - 1 \in 1..Len(es) /\ j - 1 \in 1..(j - 1)
    BY <1>1
  <2>3. es[j].parent <= n /\ es[j].parent # es[j].id
    BY <2>1, <2>2 DEF Null
  <2>4. ASSUME NEW i \in 1..(j - 1) PROVE es[i].parent # es[j].id
    <3>1. i \in 1..Len(es) /\ (i # 1 => i - 1 \in 1..(j - 1))
      BY <1>1
    <3>2. es[i].parent = IF i = 1 THEN Null ELSE es[i - 1].id
      BY <3>1 DEF Chain
    <3> QED
      BY <2>1, <3>1, <3>2
  <2> QED
    BY <2>1, <2>3, <2>4 DEF Apart
<1> QED
  BY <1>2 DEF Ordered

----------------------------------------------------------------------------
(* Files and sessions in order *)

SInv ==
  /\ \A f \in File : Ordered(Texts(disk[f]), lastId)
  /\ \A p \in Process : Ordered(mem[p].entries, lastId)

(* A file that is written, and what may be left of it when the write is cut.*)
LEMMA LinesOrdered ==
  ASSUME NEW es \in Seq(Entry), NEW n \in Nat, Ordered(es, n)
  PROVE  /\ Ordered(Texts(SessionLines(es)), n)
         /\ \A cut \in Cuts(<<>>, SessionLines(es)) : Ordered(Texts(cut), n)
<1>1. PICK ls \in Seq(Line) :
        /\ ls = SessionLines(es) /\ Len(ls) = Len(es) + 1 /\ ls # <<>>
        /\ ls[1].entry = Header(Current) /\ \A i \in 1..Len(es) : ls[i + 1].entry = es[i]
  BY SessionFileLines
<1>2. PICK t \in Seq(Lined) : t = Texts(ls) /\ Len(t) = Len(ls) /\ \A i \in 1..Len(ls) : t[i] = ls[i].entry
  BY TextsType
<1>3. Len(es) \in Nat /\ \A i \in 1..Len(es) : es[i] \in Entry
  OBVIOUS
<1>4. t[1].id = Null /\ t[1].parent = Null
  <2>1. t[1] = Header(Current)
    BY <1>1, <1>2, <1>3
  <2> QED
    BY <2>1 DEF Header
<1>5. \A i \in 1..Len(es) : t[i + 1] = es[i]
  <2>1. \A i \in 1..Len(es) : i + 1 \in 1..Len(ls)
    BY <1>1, <1>3
  <2> QED
    BY <1>1, <1>2, <2>1
<1>6. ASSUME NEW j \in 1..Len(t) PROVE t[j].id <= n /\ t[j].parent <= n /\ Apart(t, j)
  <2>1. CASE j = 1
    BY <1>4, <2>1 DEF Apart, Null
  <2>2. CASE j # 1
    <3>1. PICK k \in 1..Len(es) : j = k + 1
      <4>1. j - 1 \in 1..Len(es) /\ j = (j - 1) + 1
        BY <1>1, <1>2, <1>3, <2>2
      <4> QED
        BY <4>1
    <3>2. es[k].id <= n /\ es[k].parent <= n /\ Apart(es, k) /\ t[j] = es[k]
      BY <1>5, <3>1 DEF Ordered
    <3>3. ASSUME es[k].id # Null, NEW i \in 1..(j - 1) PROVE t[i].id # es[k].id /\ t[i].parent # es[k].id
      <4>1. CASE i = 1
        BY <1>4, <3>3, <4>1
      <4>2. CASE i # 1
        <5>1. i - 1 \in 1..(k - 1) /\ i - 1 \in 1..Len(es) /\ i = (i - 1) + 1
          BY <1>3, <3>1, <4>2
        <5>2. t[i] = es[i - 1]
          BY <1>5, <5>1
        <5> QED
          BY <3>2, <3>3, <5>1, <5>2 DEF Apart
      <4> QED
        BY <4>1, <4>2
    <3> QED
      BY <3>2, <3>3 DEF Apart
  <2> QED
    BY <2>1, <2>2
<1>7. Ordered(t, n)
  BY <1>6 DEF Ordered
<1>8. ASSUME NEW cut \in Cuts(<<>>, ls) PROVE Ordered(Texts(cut), n)
  <2>1. /\ cut \in Seq(Line) /\ Len(cut) <= Len(ls)
        /\ \A i \in 1..Len(cut) : i \in 1..Len(ls) /\ cut[i].entry = ls[i].entry
    BY <1>1, CutOfFile
  <2>2. PICK c \in Seq(Lined) :
          c = Texts(cut) /\ Len(c) = Len(cut) /\ \A i \in 1..Len(cut) : c[i] = cut[i].entry
    BY <2>1, TextsType
  <2>3. Len(c) <= Len(t) /\ \A i \in 1..Len(c) : c[i] = t[i]
    BY <1>2, <2>1, <2>2
  <2> QED
    BY <1>7, <2>2, <2>3, OrderedPrefix
<1> QED
  BY <1>1, <1>2, <1>7, <1>8

(* A line that is appended, and what may be left of it.                     *)
LEMMA LineOrdered ==
  ASSUME NEW old \in Seq(Line), NEW e \in Entry, NEW n \in Nat, NEW m \in Nat, n < m,
         Ordered(Texts(old), n), e.id = m, e.parent <= n
  PROVE  /\ Ordered(Texts(old \o Lines(<<e>>)), m)
         /\ \A cut \in Cuts(old, Lines(<<e>>)) : Ordered(Texts(cut), m)
<1>1. PICK t \in Seq(Lined) : t = Texts(old) /\ Len(t) = Len(old) /\ \A i \in 1..Len(old) : t[i] = old[i].entry
  BY TextsType
<1>2. e \in Lined /\ n <= m
  BY DEF Lined
<1>3. Ordered(t, m) /\ Ordered(Append(t, e), m)
  BY <1>1, <1>2, OrderedMore
<1>4. ASSUME NEW l \in Line, l.entry = e PROVE Ordered(Texts(Append(old, l)), m)
  <2>1. PICK q \in Seq(Line) : /\ q = Append(old, l) /\ Len(q) = Len(old) + 1
                               /\ \A i \in 1..Len(old) : q[i] = old[i]
                               /\ q[Len(old) + 1] = l
    BY AppendProperties
  <2>2. PICK u \in Seq(Lined) : u = Texts(q) /\ Len(u) = Len(q) /\ \A i \in 1..Len(q) : u[i] = q[i].entry
    BY TextsType
  <2>3. PICK v \in Seq(Lined) : /\ v = Append(t, e) /\ Len(v) = Len(t) + 1
                                /\ \A i \in 1..Len(t) : v[i] = t[i]
                                /\ v[Len(t) + 1] = e
    BY <1>2, AppendProperties
  <2>4. Len(old) \in Nat
    OBVIOUS
  <2>5. ASSUME NEW i \in 1..Len(u) PROVE u[i] = v[i]
    <3>1. CASE i = Len(old) + 1
      BY <1>1, <1>4, <2>1, <2>2, <2>3, <3>1
    <3>2. CASE i # Len(old) + 1
      <4>1. i \in 1..Len(old)
        BY <2>1, <2>2, <2>4, <3>2
      <4> QED
        BY <1>1, <2>1, <2>2, <2>3, <4>1
    <3> QED
      BY <3>1, <3>2
  <2>6. Len(u) = Len(v)
    BY <1>1, <2>1, <2>2, <2>3
  <2>7. u = v
    BY <2>5, <2>6, SeqEqual
  <2> QED
    BY <1>3, <2>1, <2>2, <2>3, <2>7
<1>5. PICK w \in Line : w = Whole(e) /\ w.entry = e
  <2>1. Whole(e) \in Line /\ Whole(e).entry = e
    BY <1>2, HeadersDiffer DEF Whole
  <2> QED
    BY <2>1
<1>6. Lines(<<e>>) = <<w>>
  <2>1. DOMAIN <<e>> = 1..1 /\ <<e>>[1] = e
    OBVIOUS
  <2>2. Lines(<<e>>) = [i \in 1..1 |-> w]
    BY <1>5, <2>1 DEF Lines
  <2>3. <<w>> = [i \in 1..1 |-> w]
    OBVIOUS
  <2> QED
    BY <2>2, <2>3
<1>7. old \o <<w>> = Append(old, w)
  BY AppendIsConcat
<1>8. ASSUME NEW cut \in Cuts(old, <<w>>) PROVE Ordered(Texts(cut), m)
  <2>1. cut = old \/ \E l \in Line : l.entry = w.entry /\ cut = Append(old, l)
    BY CutOfLine
  <2> QED
    BY <1>1, <1>3, <1>4, <1>5, <2>1
<1> QED
  BY <1>4, <1>5, <1>6, <1>7, <1>8

(* A step that writes.                                                      *)
LEMMA WritesOrdered ==
  ASSUME IInv, SInv, NEW p \in Process, NEW f \in File, NEW old, NEW ls, NEW hurts, NEW done, NEW failed,
         lastId \in Nat, lastId' \in Nat, lastId <= lastId',
         Writes(p, f, old, ls, hurts, done, failed),
         Ordered(Texts(old \o ls), lastId'), \A cut \in Cuts(old, ls) : Ordered(Texts(cut), lastId'),
         Ordered(done.entries, lastId'), Ordered(failed.entries, lastId')
  PROVE  SInv'
<1>1. /\ disk \in [File -> Seq(Line)] /\ mem \in [Process -> Session \cup {Down}]
  BY DEF IInv
<1>2. PICK new, s : /\ disk' = [disk EXCEPT ![f] = new] /\ mem' = [mem EXCEPT ![p] = s]
                    /\ Ordered(Texts(new), lastId') /\ (s = Down \/ Ordered(s.entries, lastId'))
  BY DEF Writes
<1>3. Ordered(s.entries, lastId')
  <2>1. Down.entries = <<>> /\ Len(<<>>) = 0
    BY DownIs
  <2>2. Ordered(Down.entries, lastId')
    BY <2>1 DEF Ordered
  <2> QED
    BY <1>2, <2>2
<1>4. ASSUME NEW g \in File PROVE Ordered(Texts(disk'[g]), lastId')
  <2>1. CASE g = f
    BY <1>1, <1>2, <2>1
  <2>2. CASE g # f
    <3>1. disk'[g] = disk[g] /\ disk[g] \in Seq(Line)
      BY <1>1, <1>2, <2>2
    <3>2. Texts(disk[g]) \in Seq(Lined) /\ Ordered(Texts(disk[g]), lastId)
      BY <3>1, TextsType DEF SInv
    <3> QED
      BY <3>1, <3>2, OrderedMore
  <2> QED
    BY <2>1, <2>2
<1>5. ASSUME NEW q \in Process PROVE Ordered(mem'[q].entries, lastId')
  <2>1. CASE q = p
    BY <1>1, <1>2, <1>3, <2>1
  <2>2. CASE q # p
    <3>1. mem'[q] = mem[q]
      BY <1>1, <1>2, <2>2
    <3>2. mem[q].entries \in Seq(Entry) /\ Entry \subseteq Lined
      BY OfProcess DEF Lined
    <3>3. mem[q].entries \in Seq(Lined) /\ Ordered(mem[q].entries, lastId)
      BY <3>2, SeqMonotonic DEF SInv
    <3> QED
      BY <3>1, <3>3, OrderedMore
  <2> QED
    BY <2>1, <2>2
<1> QED
  BY <1>4, <1>5 DEF SInv

(* A step that changes one session only.                                    *)
LEMMA MemOrdered ==
  ASSUME IInv, SInv, NEW p \in Process, NEW s, Unwritten, mem' = [mem EXCEPT ![p] = s],
         lastId \in Nat, lastId' \in Nat, lastId <= lastId', Ordered(s.entries, lastId')
  PROVE  SInv'
<1>1. /\ disk \in [File -> Seq(Line)] /\ mem \in [Process -> Session \cup {Down}]
  BY DEF IInv
<1>2. disk' = disk
  BY DEF Unwritten
<1>4. ASSUME NEW g \in File PROVE Ordered(Texts(disk'[g]), lastId')
  <2>1. disk[g] \in Seq(Line)
    BY <1>1
  <2>2. Texts(disk[g]) \in Seq(Lined) /\ Ordered(Texts(disk[g]), lastId)
    BY <2>1, TextsType DEF SInv
  <2> QED
    BY <1>2, <2>2, OrderedMore
<1>5. ASSUME NEW q \in Process PROVE Ordered(mem'[q].entries, lastId')
  <2>1. CASE q = p
    BY <1>1, <2>1
  <2>2. CASE q # p
    <3>1. mem'[q] = mem[q]
      BY <1>1, <2>2
    <3>2. mem[q].entries \in Seq(Entry) /\ Entry \subseteq Lined
      BY OfProcess DEF Lined
    <3>3. mem[q].entries \in Seq(Lined) /\ Ordered(mem[q].entries, lastId)
      BY <3>2, SeqMonotonic DEF SInv
    <3> QED
      BY <3>1, <3>3, OrderedMore
  <2> QED
    BY <2>1, <2>2
<1> QED
  BY <1>4, <1>5 DEF SInv

----------------------------------------------------------------------------
(* Steps keep the order *)

(* What every step starts from.                                             *)
LEMMA OfOrder ==
  ASSUME IInv, SInv, NEW p \in Process, NEW f \in File
  PROVE  /\ Ordered(Loaded(disk[f]), lastId) /\ Ordered(mem[p].entries, lastId)
         /\ disk[f] \in Seq(Line) /\ Ordered(Texts(disk[f]), lastId)
         /\ lastId \in Nat /\ \A n \in lastId..MaxId : n \in Nat /\ lastId <= n
         /\ \A n : Ordered(<<>>, n)
<1>1. disk[f] \in Seq(Line) /\ Shaped(disk[f])
  BY OfFile DEF FileFine
<1>2. lastId \in Nat
  BY OfProcess
<1>3. Ordered(Texts(disk[f]), lastId) /\ Ordered(mem[p].entries, lastId)
  BY DEF SInv
<1>4. Ordered(Loaded(disk[f]), lastId)
  BY <1>1, <1>2, <1>3, OrderedLoaded
<1>5. \A n : Ordered(<<>>, n)
  <2>1. Len(<<>>) = 0
    OBVIOUS
  <2> QED
    BY <2>1 DEF Ordered
<1> QED
  BY <1>1, <1>2, <1>3, <1>4, <1>5

(* A file that is written as a whole.                                       *)
LEMMA WholeOrdered ==
  ASSUME IInv, SInv, NEW p \in Process, NEW f \in File, NEW es \in Seq(Entry), NEW hurts, NEW done, NEW failed,
         lastId' \in lastId..MaxId, Ordered(es, lastId'), done.entries = es,
         failed = Down \/ failed.entries = es \/ failed = mem[p],
         Writes(p, f, <<>>, SessionLines(es), hurts, done, failed)
  PROVE  SInv'
<1>1. lastId \in Nat /\ lastId' \in Nat /\ lastId <= lastId'
  BY OfOrder
<1>2. PICK old, ls : old = <<>> /\ ls = SessionLines(es)
  OBVIOUS
<1>3. old \o ls = ls
  BY <1>2, SessionFileLines, ConcatEmptySeq
<1>4. Ordered(Texts(ls), lastId') /\ \A cut \in Cuts(old, ls) : Ordered(Texts(cut), lastId')
  BY <1>1, <1>2, LinesOrdered
<1>5. Ordered(failed.entries, lastId')
  <2>1. CASE failed = Down
    BY <2>1, DownIs, OfOrder
  <2>2. CASE failed = mem[p]
    <3>1. mem[p].entries \in Seq(Entry) /\ Entry \subseteq Lined
      BY OfProcess DEF Lined
    <3>2. mem[p].entries \in Seq(Lined) /\ Ordered(mem[p].entries, lastId)
      BY <3>1, SeqMonotonic DEF SInv
    <3> QED
      BY <1>1, <2>2, <3>2, OrderedMore
  <2> QED
    BY <2>1, <2>2
<1>6. Writes(p, f, old, ls, hurts, done, failed)
  BY <1>2
<1> QED
  BY <1>1, <1>3, <1>4, <1>5, <1>6, WritesOrdered

(* Appending an entry.                                                      *)
LEMMA AppendOrdered ==
  ASSUME IInv, SInv, NEW p \in Process, NEW kind \in Kind, NEW ref \in Nat, NEW parent \in Nat,
         parent = Null \/ parent \in Ids(mem[p].entries), AppendEntry(p, kind, ref, parent)
  PROVE  SInv'
<1>1. /\ mem[p] \in Session /\ lastId \in Nat /\ lastId' = lastId + 1
      /\ lastId' \in lastId..MaxId /\ lastId' \in Nat /\ lastId < lastId' /\ lastId <= lastId'
      /\ disk \in [File -> Seq(Line)] /\ exists \subseteq File
  BY BoundAssumption DEF IInv, AppendEntry
<1>2. PICK e, t : /\ e = [id |-> lastId', parent |-> parent, kind |-> kind, ref |-> ref]
                  /\ t = [mem[p] EXCEPT !.entries = Append(@, e), !.leaf = e.id]
  OBVIOUS
<1>3. e \in Entry /\ e.id = lastId' /\ e.parent = parent
  BY <1>1, <1>2 DEF Entry
<1>4. Persist(p, t)
  BY <1>1, <1>2 DEF AppendEntry
<1>5. PICK es \in Seq(Entry) : es = mem[p].entries /\ Ordered(es, lastId) /\ es \in Seq(Lined)
  <2>1. mem[p].entries \in Seq(Entry) /\ Entry \subseteq Lined
    BY OfProcess DEF Lined
  <2> QED
    BY <2>1, SeqMonotonic DEF SInv
<1>6. parent <= lastId
  <2>1. CASE parent = Null
    BY <1>1, <2>1 DEF Null
  <2>2. CASE parent # Null
    <3>1. PICK i \in 1..Len(es) : parent = es[i].id
      BY <1>5, <2>2, IdsAre
    <3> QED
      BY <1>5, <3>1 DEF Ordered
  <2> QED
    BY <2>1, <2>2
<1>7. e \in Lined
  BY <1>3 DEF Lined
<1>8. PICK ts \in Seq(Entry) : ts = Append(es, e) /\ Ordered(ts, lastId')
  <2>1. Append(es, e) \in Seq(Entry)
    BY <1>3, AppendProperties
  <2>2. Ordered(Append(es, e), lastId')
    BY <1>1, <1>3, <1>5, <1>6, <1>7, OrderedMore
  <2> QED
    BY <2>1, <2>2
<1>9. t.entries = ts /\ t.file = mem[p].file /\ t.file \in File /\ t.flushed = mem[p].flushed
  <2>1. mem[p].file \in File
    BY <1>1, DownIs
  <2> QED
    BY <1>1, <1>2, <1>5, <1>8, <2>1 DEF Session
<1>10. Last(t.entries) = e
  <2>1. /\ Len(Append(es, e)) = Len(es) + 1 /\ Append(es, e)[Len(es) + 1] = e
    BY <1>3, AppendProperties
  <2> QED
    BY <1>8, <1>9, <2>1 DEF Last
<1>11. CASE Writes(p, t.file, disk[t.file], Lines(<<Last(t.entries)>>), FALSE, t, t)
  <2>1. PICK f \in File, old \in Seq(Line) : f = t.file /\ old = disk[f]
    BY <1>1, <1>9
  <2>6. PICK ls : ls = Lines(<<e>>)
    OBVIOUS
  <2>2. Ordered(Texts(old), lastId)
    BY <2>1 DEF SInv
  <2>3. /\ Ordered(Texts(old \o ls), lastId')
        /\ \A cut \in Cuts(old, ls) : Ordered(Texts(cut), lastId')
    BY <1>1, <1>3, <1>6, <2>2, <2>6, LineOrdered
  <2>4. Writes(p, f, old, ls, FALSE, t, t)
    BY <1>10, <1>11, <2>1, <2>6
  <2>5. Ordered(t.entries, lastId')
    BY <1>8, <1>9
  <2> QED
    BY <1>1, <2>3, <2>4, <2>5, WritesOrdered
<1>12. CASE Writes(p, t.file, <<>>, SessionLines(t.entries), FALSE, [t EXCEPT !.flushed = TRUE], t)
  <2>1. PICK u : u = [t EXCEPT !.flushed = TRUE]
    OBVIOUS
  <2>2. u.entries = ts
    <3>1. t \in Session
      BY <1>1, <1>2, <1>3, <1>5, <1>8 DEF Session
    <3> QED
      BY <1>9, <2>1, <3>1 DEF Session
  <2>3. PICK f \in File : f = t.file
    BY <1>9
  <2>4. Writes(p, f, <<>>, SessionLines(ts), FALSE, u, t)
    BY <1>9, <1>12, <2>1, <2>3
  <2> QED
    BY <1>1, <1>8, <1>9, <2>2, <2>4, WholeOrdered
<1>13. CASE Unwritten /\ mem' = [mem EXCEPT ![p] = t]
  <2>1. Ordered(t.entries, lastId')
    BY <1>8, <1>9
  <2> QED
    BY <1>1, <1>13, <2>1, MemOrdered
<1> QED
  BY <1>4, <1>11, <1>12, <1>13 DEF Persist

(* Opening a session, leaving it and moving in it.                          *)
LEMMA OpensOrdered ==
  ASSUME IInv, SInv, NEW p \in Process, NEW f \in File,
         OpenNew(p, f) \/ OpenEmpty(p, f) \/ OpenCurrent(p, f) \/ OpenOld(p, f) \/ Exit(p) \/ GoTo(p)
  PROVE  SInv'
<1>1. PICK none \in Seq(Entry) : none = <<>> /\ \A n : Ordered(none, n)
  <2>1. <<>> \in Seq(Entry)
    OBVIOUS
  <2> QED
    BY <2>1, OfOrder
<1>2. lastId \in Nat /\ lastId \in lastId..MaxId
  BY OfProcess
<1>3. PICK src \in Seq(Entry) : src = Loaded(disk[f]) /\ Ordered(src, lastId)
  BY OfFile, OfOrder
<1>10. lastId' = lastId => /\ lastId' \in Nat /\ lastId <= lastId'
                           /\ \A es : Ordered(es, lastId) => Ordered(es, lastId')
  BY <1>2
<1>4. CASE OpenNew(p, f)
  <2>1. PICK s : s = [Opened(f, none) EXCEPT !.flushed = FALSE]
    OBVIOUS
  <2>2. s.entries = none
    BY <2>1, OpenedIs
  <2>3. Unwritten /\ mem' = [mem EXCEPT ![p] = s] /\ lastId' = lastId
    BY <1>1, <1>4, <2>1 DEF OpenNew
  <2> QED
    BY <1>1, <1>2, <1>10, <2>2, <2>3, MemOrdered
<1>5. CASE OpenEmpty(p, f)
  <2>1. PICK s : s = Opened(f, none) /\ s.entries = none
    BY OpenedIs
  <2>2. lastId' = lastId /\ Writes(p, f, <<>>, SessionLines(none), FALSE, s, Down)
    BY <1>1, <1>5, <2>1 DEF OpenEmpty
  <2>3. lastId' \in lastId..MaxId /\ Ordered(none, lastId')
    BY <1>1, <1>2, <2>2
  <2> QED
    BY <2>1, <2>2, <2>3, WholeOrdered
<1>6. CASE OpenCurrent(p, f)
  <2>1. PICK s : s = Opened(f, src) /\ s.entries = src
    BY OpenedIs
  <2>2. Unwritten /\ mem' = [mem EXCEPT ![p] = s] /\ lastId' = lastId
    BY <1>3, <1>6, <2>1 DEF OpenCurrent
  <2> QED
    BY <1>2, <1>3, <1>10, <2>1, <2>2, MemOrdered
<1>7. CASE OpenOld(p, f)
  <2>1. PICK es \in Seq(Entry) :
          /\ es = Migrated(src) /\ Len(es) = Len(src)
          /\ \A i \in 1..Len(src) : es[i].id = lastId + i /\ es[i].parent = IF i = 1 THEN Null ELSE lastId + i - 1
    BY <1>2, MigratedIs
  <2>2. PICK s : s = Opened(f, es) /\ s.entries = es
    BY OpenedIs
  <2>3. /\ lastId + Len(es) <= MaxId /\ lastId' = lastId + Len(es)
        /\ Writes(p, f, <<>>, SessionLines(es), FALSE, s, Down)
    BY <1>3, <1>7, <2>1, <2>2 DEF OpenOld
  <2>4. Len(es) \in Nat
    OBVIOUS
  <2>5. lastId' \in lastId..MaxId /\ lastId' \in Nat
    BY <1>2, <2>3, <2>4, OfProcess
  <2>6. ASSUME NEW i \in 1..Len(es)
        PROVE  /\ es[i].id # Null /\ es[i].parent = IF i = 1 THEN Null ELSE es[i - 1].id
               /\ \A j \in 1..(i - 1) : es[j].id # es[i].id
               /\ es[i].id <= lastId'
    <3>1. i # 1 => i - 1 \in 1..Len(es)
      BY <2>4
    <3>2. \A j \in 1..(i - 1) : j \in 1..Len(es) /\ j # i /\ lastId + j # lastId + i
      BY <1>2, <2>4
    <3>3. lastId + i # Null /\ lastId + i <= lastId'
      BY <1>2, <2>3, <2>4 DEF Null
    <3>4. i # 1 => es[i].parent = lastId + i - 1 /\ es[i - 1].id = lastId + (i - 1)
      BY <2>1, <3>1
    <3>5. i # 1 => lastId + i - 1 = lastId + (i - 1)
      BY <1>2
    <3> QED
      BY <2>1, <3>2, <3>3, <3>4, <3>5
  <2>7. Chain(es) /\ \A i \in 1..Len(es) : es[i].id <= lastId'
    BY <2>6 DEF Chain
  <2>8. es \in Seq(Lined)
    <3>1. Entry \subseteq Lined
      BY DEF Lined
    <3> QED
      BY <3>1, SeqMonotonic
  <2>9. Ordered(es, lastId')
    BY <2>5, <2>7, <2>8, ChainOrdered
  <2> QED
    BY <2>2, <2>3, <2>5, <2>9, WholeOrdered
<1>8. CASE Exit(p)
  <2>1. Unwritten /\ mem' = [mem EXCEPT ![p] = Down] /\ lastId' = lastId /\ Down.entries = none
    BY <1>1, <1>8, DownIs DEF Exit
  <2> QED
    BY <1>1, <1>2, <1>10, <2>1, MemOrdered
<1>9. CASE GoTo(p)
  <2>1. PICK t : mem' = [mem EXCEPT ![p].leaf = t]
    BY <1>9 DEF GoTo
  <2>2. PICK s : s = [mem[p] EXCEPT !.leaf = t]
    OBVIOUS
  <2>3. mem[p] \in Session /\ Unwritten /\ lastId' = lastId
    BY <1>9, OfProcess DEF GoTo
  <2>4. s.entries = mem[p].entries
    BY <2>2, <2>3 DEF Session
  <2>5. Ordered(s.entries, lastId) /\ mem' = [mem EXCEPT ![p] = s]
    BY <2>1, <2>2, <2>4, OfOrder
  <2> QED
    BY <1>2, <1>10, <2>3, <2>5, MemOrdered
<1> QED
  BY <1>4, <1>5, <1>6, <1>7, <1>8, <1>9

(* Copying a file.                                                          *)
LEMMA ForkFromOrdered ==
  ASSUME IInv, SInv, NEW p \in Process, NEW f \in File, NEW g \in File, ForkFrom(p, f, g)
  PROVE  SInv'
<1>1. PICK es \in Seq(Entry) : es = Loaded(disk[f]) /\ Ordered(es, lastId)
  BY OfFile, OfOrder
<1>2. PICK s : s = Opened(g, es) /\ s.entries = es
  BY OpenedIs
<1>3. lastId' = lastId /\ Writes(p, g, <<>>, SessionLines(es), f \in hurt, s, Down)
  BY <1>1, <1>2 DEF ForkFrom
<1>4. lastId' \in lastId..MaxId
  BY <1>3, OfProcess
<1> QED
  BY <1>1, <1>2, <1>3, <1>4, WholeOrdered

----------------------------------------------------------------------------
(* Filters *)

(* The entries of a set, in their order.                                    *)
Kept(s, E) == Picked(s, {i \in DOMAIN s : s[i] \in E})

(* What is kept, by the places it is kept from.                              *)
KeptFrom(s, E, at, q) ==
  /\ at \in SUBSET (1..Len(s)) /\ q \in Seq(Entry)
  /\ q = Kept(s, E) /\ q = Picked(s, at)
  /\ \A i \in 1..Len(s) : i \in at <=> s[i] \in E
  /\ Len(q) = Cardinality(at) /\ IsFiniteSet(at) /\ Cardinality(at) \in Nat
  /\ \A i \in at : Rank(at, i) \in 1..Cardinality(at) /\ q[Rank(at, i)] = s[i]
  /\ \A k \in 1..Cardinality(at) : \E i \in at : Rank(at, i) = k /\ q[k] = s[i]

(* There are such places.                                                   *)
LEMMA KeptAt ==
  ASSUME NEW s \in Seq(Entry), NEW E
  PROVE  \E at, q : KeptFrom(s, E, at, q)
<1>1. PICK at : at = {i \in DOMAIN s : s[i] \in E}
  OBVIOUS
<1>2. at \in SUBSET (1..Len(s)) /\ \A i \in 1..Len(s) : i \in at <=> s[i] \in E
  BY <1>1
<1>3. PICK q : q = Picked(s, at)
  OBVIOUS
<1>4. q = Kept(s, E)
  BY <1>1, <1>3 DEF Kept
<1>5. /\ q \in Seq(Entry) /\ Len(q) = Cardinality(at) /\ IsFiniteSet(at) /\ Cardinality(at) \in Nat
      /\ \A i \in at : Rank(at, i) \in 1..Cardinality(at) /\ q[Rank(at, i)] = s[i]
      /\ \A k \in 1..Cardinality(at) : \E i \in at : Rank(at, i) = k /\ q[k] = s[i]
  <2>1. /\ Picked(s, at) \in Seq(Entry) /\ Len(Picked(s, at)) = Cardinality(at)
        /\ IsFiniteSet(at) /\ Cardinality(at) \in Nat
        /\ \A i \in at : Rank(at, i) \in 1..Cardinality(at) /\ Picked(s, at)[Rank(at, i)] = s[i]
        /\ \A k \in 1..Cardinality(at) : \E i \in at : Rank(at, i) = k /\ Picked(s, at)[k] = s[i]
    BY <1>2, PickedIs
  <2> QED
    BY <1>3, <2>1
<1>6. KeptFrom(s, E, at, q)
  BY <1>2, <1>3, <1>4, <1>5 DEF KeptFrom
<1> QED
  BY <1>6

(* What is kept is there and in the set, and all of it is kept.             *)
LEMMA KeptIs ==
  ASSUME NEW s \in Seq(Entry), NEW E
  PROVE  /\ Kept(s, E) \in Seq(Entry)
         /\ \A k \in 1..Len(Kept(s, E)) : \E i \in 1..Len(s) : Kept(s, E)[k] = s[i] /\ s[i] \in E
         /\ \A i \in 1..Len(s) : s[i] \in E => \E k \in 1..Len(Kept(s, E)) : Kept(s, E)[k] = s[i]
         /\ (\A i \in 1..Len(s) : s[i] \in E) => Kept(s, E) = s
         /\ (\A i \in 1..Len(s) : s[i] \notin E) => Kept(s, E) = <<>>
         /\ s = <<>> => Kept(s, E) = <<>>
<1>1. PICK at, q : KeptFrom(s, E, at, q)
  BY KeptAt
<1>2. /\ at \in SUBSET (1..Len(s)) /\ q \in Seq(Entry)
      /\ q = Kept(s, E) /\ q = Picked(s, at)
      /\ \A i \in 1..Len(s) : i \in at <=> s[i] \in E
      /\ Len(q) = Cardinality(at) /\ IsFiniteSet(at) /\ Cardinality(at) \in Nat
      /\ \A i \in at : Rank(at, i) \in 1..Cardinality(at) /\ q[Rank(at, i)] = s[i]
      /\ \A k \in 1..Cardinality(at) : \E i \in at : Rank(at, i) = k /\ q[k] = s[i]
  BY <1>1 DEF KeptFrom
<1>3. Len(s) \in Nat /\ DOMAIN s = 1..Len(s) /\ \A i \in at : i \in 1..Len(s)
  BY <1>2
<1>4. ASSUME \A i \in 1..Len(s) : s[i] \in E PROVE Kept(s, E) = s
  <2>1. at = DOMAIN s
    BY <1>2, <1>3, <1>4
  <2> QED
    BY <1>2, <2>1 DEF Picked
<1>5. ASSUME \A i \in 1..Len(s) : s[i] \notin E PROVE Kept(s, E) = <<>>
  <2>1. at = {}
    BY <1>2, <1>3, <1>5
  <2>2. Cardinality(at) = 0
    BY <2>1, FS_EmptySet
  <2>3. Len(q) = 0
    BY <1>2, <2>2
  <2>4. q = <<>>
    BY <2>3, EmptySeq
  <2> QED
    BY <1>2, <2>4
<1>6. s = <<>> => Kept(s, E) = <<>>
  <2>1. s = <<>> => \A i \in 1..Len(s) : s[i] \notin E
    OBVIOUS
  <2> QED
    BY <1>5, <2>1
<1>7. \A k \in 1..Len(Kept(s, E)) : \E i \in 1..Len(s) : Kept(s, E)[k] = s[i] /\ s[i] \in E
  <2>1. \A k \in 1..Len(q) : \E i \in 1..Len(s) : q[k] = s[i] /\ s[i] \in E
    BY <1>2, <1>3
  <2> QED
    BY <1>2, <2>1
<1>8. \A i \in 1..Len(s) : s[i] \in E => \E k \in 1..Len(Kept(s, E)) : Kept(s, E)[k] = s[i]
  <2>1. \A i \in 1..Len(s) : s[i] \in E => \E k \in 1..Len(q) : q[k] = s[i]
    BY <1>2, <1>3
  <2> QED
    BY <1>2, <2>1
<1> QED
  BY <1>2, <1>4, <1>5, <1>6, <1>7, <1>8

(* Ids that are each entry's own.                                           *)
OwnIds(s) == \A i \in 1..Len(s) : \A j \in 1..(i - 1) : s[j].id # s[i].id

(* They still are; the first one is kept in its place.                      *)
LEMMA KeptInOrder ==
  ASSUME NEW s \in Seq(Entry), NEW E
  PROVE  /\ OwnIds(s) => OwnIds(Kept(s, E))
         /\ s # <<>> /\ s[1] \in E => Kept(s, E) # <<>> /\ Kept(s, E)[1] = s[1]
<1>1. PICK at, q : KeptFrom(s, E, at, q)
  BY KeptAt
<1>2. /\ at \in SUBSET (1..Len(s)) /\ q \in Seq(Entry)
      /\ q = Kept(s, E) /\ q = Picked(s, at)
      /\ \A i \in 1..Len(s) : i \in at <=> s[i] \in E
      /\ Len(q) = Cardinality(at) /\ IsFiniteSet(at) /\ Cardinality(at) \in Nat
      /\ \A i \in at : Rank(at, i) \in 1..Cardinality(at) /\ q[Rank(at, i)] = s[i]
      /\ \A k \in 1..Cardinality(at) : \E i \in at : Rank(at, i) = k /\ q[k] = s[i]
  BY <1>1 DEF KeptFrom
<1>3. Len(s) \in Nat /\ DOMAIN s = 1..Len(s) /\ \A i \in at : i \in 1..Len(s)
  BY <1>2
<1>4. ASSUME OwnIds(s), NEW k \in 1..Len(q), NEW l \in 1..(k - 1) PROVE q[l].id # q[k].id
  <2>1. l \in 1..Len(q) /\ l # k
    BY <1>2, <1>3
  <2>0. k \in 1..Cardinality(at) /\ l \in 1..Cardinality(at)
    BY <1>2, <2>1
  <2>4. PICK i \in at : Rank(at, i) = k /\ q[k] = s[i]
    BY <1>2, <2>0
  <2>5. PICK j \in at : Rank(at, j) = l /\ q[l] = s[j]
    BY <1>2, <2>0
  <2>2. q[k] = s[i] /\ q[l] = s[j] /\ i # j
    BY <2>1, <2>4, <2>5
  <2>3. i \in 1..Len(s) /\ j \in 1..Len(s) /\ (i \in 1..(j - 1) \/ j \in 1..(i - 1))
    BY <1>3, <2>2
  <2> QED
    BY <1>4, <2>2, <2>3 DEF OwnIds
<1>5. ASSUME s # <<>>, s[1] \in E PROVE q # <<>> /\ q[1] = s[1]
  <2>1. 1 \in at
    BY <1>2, <1>3, <1>5
  <2>2. Rank(at, 1) = 1
    <3>1. {j \in at : j <= 1} = {1}
      <4>1. \A j \in at : j \in Nat /\ j >= 1
        BY <1>3
      <4> QED
        BY <2>1, <4>1
    <3> QED
      BY <3>1, FS_Singleton DEF Rank
  <2>3. 1 \in 1..Len(q) /\ q[1] = s[1]
    BY <1>2, <1>3, <2>1, <2>2
  <2> QED
    BY <2>3
<1>6. OwnIds(s) => OwnIds(q)
  BY <1>4 DEF OwnIds
<1> QED
  BY <1>2, <1>3, <1>5, <1>6

(* One more entry.                                                          *)
LEMMA KeptMore ==
  ASSUME NEW s \in Seq(Entry), NEW x \in Entry, NEW E
  PROVE  Kept(Append(s, x), E) = IF x \in E THEN Append(Kept(s, E), x) ELSE Kept(s, E)
<1>1. PICK b \in SUBSET (1..Len(s)) : b = {i \in DOMAIN s : s[i] \in E}
  <2>1. {i \in DOMAIN s : s[i] \in E} \in SUBSET (1..Len(s))
    OBVIOUS
  <2> QED
    BY <2>1
<1>2. PICK t \in Seq(Entry) : /\ t = Append(s, x) /\ Len(t) = Len(s) + 1
                              /\ \A i \in 1..Len(s) : t[i] = s[i]
                              /\ t[Len(s) + 1] = x
  <2>1. /\ Append(s, x) \in Seq(Entry) /\ Len(Append(s, x)) = Len(s) + 1
        /\ \A i \in 1..Len(s) : Append(s, x)[i] = s[i]
        /\ Append(s, x)[Len(s) + 1] = x
    BY AppendProperties
  <2> QED
    BY <2>1
<1>3. Len(s) \in Nat /\ DOMAIN s = 1..Len(s) /\ DOMAIN t = 1..Len(t)
  OBVIOUS
<1>4. {i \in DOMAIN t : t[i] \in E} = IF x \in E THEN b \cup {Len(s) + 1} ELSE b
  <2>1. \A i \in DOMAIN t : i \in 1..Len(s) \/ i = Len(s) + 1
    BY <1>2, <1>3
  <2>2. \A i \in 1..Len(s) : i \in DOMAIN t /\ i # Len(s) + 1 /\ (t[i] \in E <=> i \in b)
    BY <1>1, <1>2, <1>3
  <2>3. Len(s) + 1 \in DOMAIN t /\ (t[Len(s) + 1] \in E <=> x \in E)
    BY <1>2, <1>3
  <2>4. \A i \in b : i \in 1..Len(s)
    OBVIOUS
  <2>5. PICK at : at = {i \in DOMAIN t : t[i] \in E}
    OBVIOUS
  <2>6. x \in E => at = b \cup {Len(s) + 1}
    BY <2>1, <2>2, <2>3, <2>4, <2>5
  <2>7. x \notin E => at = b
    BY <2>1, <2>2, <2>3, <2>4, <2>5
  <2> QED
    BY <2>5, <2>6, <2>7
<1>5. Kept(t, E) = Picked(Append(s, x), IF x \in E THEN b \cup {Len(s) + 1} ELSE b)
  BY <1>2, <1>4 DEF Kept
<1>6. Kept(s, E) = Picked(s, b)
  BY <1>1 DEF Kept
<1>7. CASE x \in E
  BY <1>2, <1>5, <1>6, <1>7, PickedLast
<1>8. CASE x \notin E
  BY <1>2, <1>5, <1>6, <1>8, PickedRest
<1> QED
  BY <1>7, <1>8

(* Three in a row.                                                          *)
LEMMA ConcatThree ==
  ASSUME NEW s \in Seq(Entry), NEW t \in Seq(Entry), NEW u \in Seq(Entry)
  PROVE  (s \o t) \o u = s \o (t \o u)
  BY ConcatAssociative

(* One more behind two in a row.                                            *)
LEMMA AppendBehind ==
  ASSUME NEW s \in Seq(Entry), NEW f \in Seq(Entry), NEW x \in Entry
  PROVE  s \o Append(f, x) = Append(s \o f, x)
<1>1. PICK one \in Seq(Entry) : one = <<x>>
  <2>1. <<x>> \in Seq(Entry)
    OBVIOUS
  <2> QED
    BY <2>1
<1>2. PICK c \in Seq(Entry) : c = s \o f
  <2>1. s \o f \in Seq(Entry)
    BY ConcatProperties
  <2> QED
    BY <2>1
<1>3. Append(f, x) = f \o one /\ Append(c, x) = c \o one
  BY <1>1, AppendIsConcat
<1>4. (s \o f) \o one = s \o (f \o one)
  BY ConcatThree
<1> QED
  BY <1>2, <1>3, <1>4, Zenon

(* Entries behind others.                                                   *)
LEMMA KeptBoth ==
  ASSUME NEW s \in Seq(Entry), NEW t \in Seq(Entry), NEW E
  PROVE  Kept(s \o t, E) = Kept(s, E) \o Kept(t, E)
<1> DEFINE B == {n \in Nat : \E u \in Seq(Entry) : Len(u) = n /\ Kept(s \o u, E) # Kept(s, E) \o Kept(u, E)}
<1> SUFFICES ASSUME B # {} PROVE FALSE
  OBVIOUS
<1>1. PICK n \in B : \A m \in B : n <= m
  BY LeastFailure
<1>2. PICK u \in Seq(Entry) : Len(u) = n /\ Kept(s \o u, E) # Kept(s, E) \o Kept(u, E)
  BY <1>1
<1>3. CASE u = <<>>
  <2>1. Kept(u, E) = <<>> /\ s \o u = s
    BY <1>3, KeptIs, ConcatEmptySeq
  <2>2. Kept(s, E) \in Seq(Entry)
    BY KeptIs
  <2>3. Kept(s, E) \o <<>> = Kept(s, E)
    BY <2>2, ConcatEmptySeq
  <2> QED
    BY <1>2, <2>1, <2>3
<1>4. CASE u # <<>>
  <2>1. PICK f \in Seq(Entry), x \in Entry : u = Append(f, x)
    BY <1>4, SequenceEmptyOrAppend
  <2>2. Len(u) = Len(f) + 1 /\ Len(f) \in Nat
    BY <2>1, AppendProperties
  <2>3. Len(f) \notin B
    <3>1. n \in Nat /\ ~(n <= Len(f))
      BY <1>2, <2>2
    <3> HIDE DEF B
    <3> QED
      BY <1>1, <3>1
  <2>4. Kept(s \o f, E) = Kept(s, E) \o Kept(f, E)
    BY <2>2, <2>3
  <2>6. PICK a \in Seq(Entry), b \in Seq(Entry), c \in Seq(Entry) : a = Kept(s, E) /\ b = Kept(f, E) /\ c = s \o f
    <3>1. Kept(s, E) \in Seq(Entry) /\ Kept(f, E) \in Seq(Entry)
      BY KeptIs
    <3>2. s \o f \in Seq(Entry)
      BY ConcatProperties
    <3> QED
      BY <3>1, <3>2
  <2>7. s \o u = Append(c, x)
    BY <2>1, <2>6, AppendBehind, Zenon
  <2>8. Kept(s \o u, E) = IF x \in E THEN Append(a \o b, x) ELSE a \o b
    <3>1. Kept(Append(c, x), E) = IF x \in E THEN Append(Kept(c, E), x) ELSE Kept(c, E)
      BY KeptMore
    <3> QED
      BY <2>4, <2>6, <2>7, <3>1, Zenon
  <2>9. Kept(u, E) = IF x \in E THEN Append(b, x) ELSE b
    BY <2>1, <2>6, KeptMore
  <2>10. Append(a \o b, x) = a \o Append(b, x)
    BY AppendBehind
  <2>11. Kept(s \o u, E) = a \o Kept(u, E)
    BY <2>8, <2>9, <2>10
  <2> QED
    BY <1>2, <2>6, <2>11
<1> QED
  BY <1>3, <1>4

(* What is kept of more is kept at once.                                    *)
LEMMA KeptTwice ==
  ASSUME NEW s \in Seq(Entry), NEW D, NEW E, E \subseteq D
  PROVE  Kept(Kept(s, D), E) = Kept(s, E)
<1> DEFINE B == {n \in Nat : \E u \in Seq(Entry) : Len(u) = n /\ Kept(Kept(u, D), E) # Kept(u, E)}
<1> SUFFICES ASSUME B # {} PROVE FALSE
  OBVIOUS
<1>1. PICK n \in B : \A m \in B : n <= m
  BY LeastFailure
<1>2. PICK u \in Seq(Entry) : Len(u) = n /\ Kept(Kept(u, D), E) # Kept(u, E)
  BY <1>1
<1>3. CASE u = <<>>
  <2>1. Kept(u, D) = u /\ Kept(u, E) = u
    BY <1>3, KeptIs
  <2> QED
    BY <1>2, <2>1
<1>4. CASE u # <<>>
  <2>1. PICK f \in Seq(Entry), x \in Entry : u = Append(f, x)
    BY <1>4, SequenceEmptyOrAppend
  <2>2. Len(u) = Len(f) + 1 /\ Len(f) \in Nat
    BY <2>1, AppendProperties
  <2>3. Len(f) \notin B
    <3>1. n \in Nat /\ ~(n <= Len(f))
      BY <1>2, <2>2
    <3> HIDE DEF B
    <3> QED
      BY <1>1, <3>1
  <2>4. Kept(Kept(f, D), E) = Kept(f, E)
    BY <2>2, <2>3
  <2>5. PICK a \in Seq(Entry) : a = Kept(f, D)
    <3>1. Kept(f, D) \in Seq(Entry)
      BY KeptIs
    <3> QED
      BY <3>1
  <2>6. Kept(u, D) = IF x \in D THEN Append(a, x) ELSE a
    BY <2>1, <2>5, KeptMore
  <2>7. Kept(u, E) = IF x \in E THEN Append(Kept(f, E), x) ELSE Kept(f, E)
    BY <2>1, KeptMore
  <2>8. Kept(Append(a, x), E) = IF x \in E THEN Append(Kept(a, E), x) ELSE Kept(a, E)
    BY KeptMore
  <2>9. Kept(Kept(u, D), E) = Kept(u, E)
    BY <2>4, <2>5, <2>6, <2>7, <2>8
  <2> QED
    BY <1>2, <2>9
<1> QED
  BY <1>3, <1>4

(* The same entries, of other parents.                                      *)
Alike(s, t) ==
  /\ Len(s) = Len(t)
  /\ \A i \in 1..Len(s) : s[i].id = t[i].id /\ s[i].kind = t[i].kind /\ s[i].ref = t[i].ref

(* The same is kept of them.                                                *)
LEMMA KeptAlike ==
  ASSUME NEW s \in Seq(Entry), NEW t \in Seq(Entry), Alike(s, t), NEW E,
         \A i \in 1..Len(s) : s[i] \in E <=> t[i] \in E
  PROVE  Alike(Kept(s, E), Kept(t, E))
<1>1. PICK at, q : KeptFrom(s, E, at, q)
  BY KeptAt
<1>2. PICK too, r : KeptFrom(t, E, too, r)
  BY KeptAt
<1>3. /\ Len(s) = Len(t) /\ Len(s) \in Nat
      /\ at \in SUBSET (1..Len(s)) /\ too \in SUBSET (1..Len(t))
      /\ \A i \in 1..Len(s) : i \in at <=> s[i] \in E
      /\ \A i \in 1..Len(t) : i \in too <=> t[i] \in E
  BY <1>1, <1>2 DEF Alike, KeptFrom
<1>4. at = too
  BY <1>3
<1>5. Len(q) = Len(r)
  BY <1>1, <1>2, <1>4 DEF KeptFrom
<1>6. ASSUME NEW k \in 1..Len(q) PROVE q[k].id = r[k].id /\ q[k].kind = r[k].kind /\ q[k].ref = r[k].ref
  <2>1. PICK i \in at : Rank(at, i) = k /\ q[k] = s[i]
    BY <1>1 DEF KeptFrom
  <2>2. r[k] = t[i] /\ i \in 1..Len(s)
    BY <1>2, <1>3, <1>4, <2>1 DEF KeptFrom
  <2> QED
    BY <2>1, <2>2 DEF Alike
<1> QED
  BY <1>1, <1>2, <1>5, <1>6 DEF Alike, KeptFrom

(* Sequences that are alike, one behind the other; their ids.               *)
LEMMA AlikeBoth ==
  ASSUME NEW s \in Seq(Entry), NEW t \in Seq(Entry), NEW u \in Seq(Entry), NEW v \in Seq(Entry),
         Alike(s, t), Alike(u, v)
  PROVE  Alike(s \o u, t \o v)
<1>1. PICK a \in Seq(Entry) :
        /\ a = s \o u /\ Len(a) = Len(s) + Len(u)
        /\ \A i \in 1..Len(s) + Len(u) : a[i] = IF i <= Len(s) THEN s[i] ELSE u[i - Len(s)]
  <2>1. /\ s \o u \in Seq(Entry) /\ Len(s \o u) = Len(s) + Len(u)
        /\ \A i \in 1..Len(s) + Len(u) : (s \o u)[i] = IF i <= Len(s) THEN s[i] ELSE u[i - Len(s)]
    BY ConcatProperties
  <2> QED
    BY <2>1
<1>2. PICK b \in Seq(Entry) :
        /\ b = t \o v /\ Len(b) = Len(t) + Len(v)
        /\ \A i \in 1..Len(t) + Len(v) : b[i] = IF i <= Len(t) THEN t[i] ELSE v[i - Len(t)]
  <2>1. /\ t \o v \in Seq(Entry) /\ Len(t \o v) = Len(t) + Len(v)
        /\ \A i \in 1..Len(t) + Len(v) : (t \o v)[i] = IF i <= Len(t) THEN t[i] ELSE v[i - Len(t)]
    BY ConcatProperties
  <2> QED
    BY <2>1
<1>3. Len(s) = Len(t) /\ Len(u) = Len(v) /\ Len(s) \in Nat /\ Len(u) \in Nat
  BY DEF Alike
<1>4. ASSUME NEW i \in 1..Len(a) PROVE a[i].id = b[i].id /\ a[i].kind = b[i].kind /\ a[i].ref = b[i].ref
  <2>1. CASE i <= Len(s)
    <3>1. i \in 1..Len(s) /\ a[i] = s[i] /\ b[i] = t[i]
      BY <1>1, <1>2, <1>3, <2>1
    <3> QED
      BY <3>1 DEF Alike
  <2>2. CASE ~(i <= Len(s))
    <3>1. i - Len(s) \in 1..Len(u) /\ a[i] = u[i - Len(s)] /\ b[i] = v[i - Len(s)]
      BY <1>1, <1>2, <1>3, <2>2
    <3> QED
      BY <3>1 DEF Alike
  <2> QED
    BY <2>1, <2>2
<1>5. Len(a) = Len(b)
  BY <1>1, <1>2, <1>3
<1>6. Alike(a, b)
  BY <1>4, <1>5 DEF Alike
<1> QED
  BY <1>1, <1>2, <1>6

(* Their ids are the same.                                                  *)
LEMMA AlikeIds ==
  ASSUME NEW s \in Seq(Entry), NEW t \in Seq(Entry), Alike(s, t)
  PROVE  IdsOf(s) = IdsOf(t) /\ Ids(s) = Ids(t) /\ Alike(s, s) /\ Alike(t, s)
<1>1. DOMAIN s = 1..Len(s) /\ DOMAIN t = 1..Len(s) /\ \A i \in 1..Len(s) : s[i].id = t[i].id
  BY DEF Alike
<1>2. IdsOf(s) = IdsOf(t)
  BY <1>1 DEF IdsOf
<1>3. Ids(s) = Ids(t)
  BY <1>1 DEF Ids
<1> QED
  BY <1>2, <1>3 DEF Alike

----------------------------------------------------------------------------
(* Ways up *)

(* A branch is the part of a way up that has entries.                       *)
Ups(up, depth, es, leaf) ==
  /\ depth \in Nat /\ depth <= Len(es) + 1 /\ Climbs(up, es, leaf, Len(es))
  /\ Branch(es, leaf) = [k \in 1..depth |-> ById(es, up[depth - k])]
  /\ \A m \in 0..Len(es) : m < depth <=> up[m] # Null /\ up[m] \in Ids(es)

(* There is such a way.                                                     *)
LEMMA BranchUp ==
  ASSUME NEW es \in Seq(Entry), NEW n, Known(es, n), NEW leaf
  PROVE  \E up, depth : Ups(up, depth, es, leaf)
<1>1. PICK up : /\ Climbs(up, es, leaf, Len(es))
                /\ LET depth == Cardinality({m \in 0..Len(es) : up[m] # Null /\ up[m] \in Ids(es)})
                   IN  Branch(es, leaf) = [k \in 1..depth |-> ById(es, up[depth - k])]
  BY BranchUnfolds
<1> DEFINE On(m) == up[m] # Null /\ up[m] \in Ids(es)
           S == {m \in 0..Len(es) : On(m)}
           depth == Cardinality(S)
<1>2. Len(es) \in Nat
  OBVIOUS
<1>3. Branch(es, leaf) = [k \in 1..depth |-> ById(es, up[depth - k])]
  BY <1>1
<1>4. \A m \in 0..Len(es) : up[m] = IF m = 0 THEN leaf
        ELSE IF up[m - 1] \in Ids(es) THEN ById(es, up[m - 1]).parent ELSE Null
  BY <1>1 DEF Climbs
<1>5. ASSUME NEW m \in 0..Len(es), m # 0, On(m) PROVE On(m - 1)
  <2>1. up[m] = IF up[m - 1] \in Ids(es) THEN ById(es, up[m - 1]).parent ELSE Null
    BY <1>4, <1>5
  <2>2. up[m] # Null
    BY <1>5
  <2>3. up[m - 1] \in Ids(es) /\ ById(es, up[m - 1]).parent # Null
    BY <2>1, <2>2
  <2>4. PICK i \in 1..Len(es) : ById(es, up[m - 1]) = es[i] /\ es[i].id = up[m - 1]
    BY <2>3, ByIdIs
  <2>5. up[m - 1] # Null
    BY <2>3, <2>4 DEF Known
  <2> QED
    BY <2>3, <2>5
<1> HIDE DEF On
<1>6. S \in SUBSET (0..Len(es)) /\ IsFiniteSet(S) /\ depth \in Nat /\ depth <= Len(es) + 1
  <2>1. 0 \in Int /\ Len(es) \in Int
    BY <1>2
  <2>2. IsFiniteSet(0..Len(es)) /\ Cardinality(0..Len(es)) = IF 0 > Len(es) THEN 0 ELSE Len(es) - 0 + 1
    BY <2>1, FS_Interval
  <2>3. Cardinality(0..Len(es)) = Len(es) + 1
    BY <1>2, <2>2
  <2>4. S \in SUBSET (0..Len(es))
    OBVIOUS
  <2>5. IsFiniteSet(S) /\ Cardinality(S) <= Len(es) + 1
    BY <2>2, <2>3, <2>4, FS_Subset
  <2>6. Cardinality(S) \in Nat
    BY <2>5, FS_CardinalityType
  <2> QED
    BY <2>4, <2>5, <2>6
<1>7. ASSUME NEW m \in 0..Len(es), m < depth, ~On(m) PROVE FALSE
  <2> DEFINE B == {x \in 0..Len(es) : x >= m /\ On(x)}
  <2>1. B = {}
    <3> SUFFICES ASSUME B # {} PROVE FALSE
      OBVIOUS
    <3>1. B \in SUBSET Nat
      OBVIOUS
    <3>2. PICK x \in B : \A y \in B : x <= y
      BY <3>1, LeastFailure
    <3>3. x \in 0..Len(es) /\ On(x) /\ x >= m /\ x # m
      BY <1>7, <3>2
    <3>4. x # 0 /\ x - 1 \in 0..Len(es) /\ x - 1 >= m
      BY <3>3
    <3>5. On(x - 1)
      BY <1>5, <3>3, <3>4
    <3>6. x - 1 \in B /\ ~(x <= x - 1)
      BY <3>3, <3>4, <3>5
    <3> QED
      BY <3>2, <3>6
  <2>2. S \in SUBSET (0..(m - 1))
    <3>1. ASSUME NEW x \in S PROVE x \in 0..(m - 1)
      <4>1. x \in 0..Len(es) /\ On(x)
        OBVIOUS
      <4>2. ~(x >= m)
        BY <2>1, <4>1
      <4> QED
        BY <4>1, <4>2
    <3> QED
      BY <3>1
  <2>3. 0 \in Int /\ m - 1 \in Int
    OBVIOUS
  <2>4. IsFiniteSet(0..(m - 1)) /\ Cardinality(0..(m - 1)) = IF 0 > m - 1 THEN 0 ELSE m - 1 - 0 + 1
    BY <2>3, FS_Interval
  <2>5. Cardinality(0..(m - 1)) = m
    BY <2>4
  <2>6. Cardinality(S) <= m
    BY <2>2, <2>4, <2>5, FS_Subset
  <2> QED
    BY <1>6, <1>7, <2>6
<1>8. ASSUME NEW m \in 0..Len(es), On(m), ~(m < depth) PROVE FALSE
  <2> DEFINE B == {d \in 0..m : ~On(m - d)}
  <2>1. B = {}
    <3> SUFFICES ASSUME B # {} PROVE FALSE
      OBVIOUS
    <3>1. B \in SUBSET Nat
      OBVIOUS
    <3>2. PICK d \in B : \A y \in B : d <= y
      BY <3>1, LeastFailure
    <3>3. d \in 0..m /\ ~On(m - d) /\ d # 0
      BY <1>8, <3>2
    <3>4. d - 1 \in 0..m /\ ~(d <= d - 1) /\ m - (d - 1) \in 0..Len(es) /\ m - (d - 1) # 0
          /\ m - (d - 1) - 1 = m - d
      BY <3>3
    <3>5. On(m - (d - 1))
      BY <3>2, <3>4
    <3>6. On(m - d)
      BY <1>5, <3>4, <3>5
    <3> QED
      BY <3>3, <3>6
  <2>2. 0..m \in SUBSET S
    <3>1. ASSUME NEW x \in 0..m PROVE x \in 0..Len(es) /\ On(x)
      <4>1. m - x \in 0..m /\ m - (m - x) = x /\ x \in 0..Len(es)
        OBVIOUS
      <4>2. On(m - (m - x))
        BY <2>1, <4>1
      <4> QED
        BY <4>1, <4>2
    <3> QED
      BY <3>1
  <2>3. 0 \in Int /\ m \in Int
    OBVIOUS
  <2>4. Cardinality(0..m) = IF 0 > m THEN 0 ELSE m - 0 + 1
    BY <2>3, FS_Interval
  <2>5. Cardinality(0..m) <= depth
    BY <1>6, <2>2, FS_Subset
  <2> QED
    BY <1>6, <1>8, <2>4, <2>5
<1>9. \A m \in 0..Len(es) : m < depth <=> up[m] # Null /\ up[m] \in Ids(es)
  BY <1>7, <1>8 DEF On
<1>10. Ups(up, depth, es, leaf)
  BY <1>1, <1>3, <1>6, <1>9 DEF Ups
<1> QED
  BY <1>10

(* The entry of an id that no other has.                                    *)
LEMMA OwnById ==
  ASSUME NEW es \in Seq(Entry), OwnIds(es), NEW k \in 1..Len(es)
  PROVE  es[k].id \in Ids(es) /\ ById(es, es[k].id) = es[k]
<1>1. es[k].id \in Ids(es)
  BY IdsAre
<1>2. PICK i \in 1..Len(es) : ById(es, es[k].id) = es[i] /\ es[i].id = es[k].id
  BY <1>1, ByIdIs
<1>3. ~(i \in 1..(k - 1)) /\ ~(k \in 1..(i - 1))
  BY <1>2 DEF OwnIds
<1>4. i = k
  BY <1>3
<1> QED
  BY <1>1, <1>2, <1>4

(* Entries of a path are not the same.                                      *)
LEMMA PathIs ==
  ASSUME NEW es \in Seq(Entry), NEW n \in Nat, Known(es, n), Ordered(es, n), NEW leaf
  PROVE  OwnIds(Branch(es, leaf))
<1>1. PICK up, depth : Ups(up, depth, es, leaf)
  BY BranchUp
<1>2. /\ depth \in Nat /\ depth <= Len(es) + 1 /\ Len(es) \in Nat
      /\ \A m \in 0..Len(es) : m < depth <=> up[m] # Null /\ up[m] \in Ids(es)
      /\ \A m \in 0..Len(es) : up[m] = IF m = 0 THEN leaf
           ELSE IF up[m - 1] \in Ids(es) THEN ById(es, up[m - 1]).parent ELSE Null
  BY <1>1 DEF Ups, Climbs
<1> DEFINE D == 0..(depth - 1)
           At(m, i) == ById(es, up[m]) = es[i] /\ es[i].id = up[m]
           pos == [m \in D |-> CHOOSE i \in 1..Len(es) : At(m, i)]
<1>3. ASSUME NEW m \in D
      PROVE  pos[m] \in 1..Len(es) /\ ById(es, up[m]) = es[pos[m]] /\ es[pos[m]].id = up[m] /\ up[m] # Null
  <2>1. up[m] \in Ids(es) /\ up[m] # Null
    BY <1>2
  <2>2. \E i \in 1..Len(es) : At(m, i)
    BY <2>1, ByIdIs
  <2>3. pos[m] = CHOOSE i \in 1..Len(es) : At(m, i)
    OBVIOUS
  <2> HIDE DEF pos, At
  <2>4. pos[m] \in 1..Len(es) /\ At(m, pos[m])
    BY <2>2, <2>3
  <2> QED
    BY <2>1, <2>4 DEF At
<1> HIDE DEF pos
<1>4. ASSUME NEW m \in D, m + 1 \in D PROVE pos[m + 1] < pos[m]
  <2>1. PICK i \in 1..Len(es) : i = pos[m] /\ ById(es, up[m]) = es[i] /\ es[i].id = up[m]
    BY <1>3
  <2>2. PICK j \in 1..Len(es) : j = pos[m + 1] /\ es[j].id = up[m + 1] /\ es[j].id # Null
    BY <1>3, <1>4
  <2>3. m + 1 \in 0..Len(es) /\ m + 1 # 0 /\ m + 1 - 1 = m /\ m \in 0..Len(es)
    BY <1>2, <1>4
  <2>4. up[m] \in Ids(es)
    BY <1>2, <2>3
  <2>5. up[m + 1] = ById(es, up[m]).parent
    BY <1>2, <2>3, <2>4
  <2>6. es[i].parent = es[j].id
    BY <2>1, <2>2, <2>5
  <2>7. Apart(es, j)
    BY DEF Ordered
  <2>8. i # j /\ ~(i \in 1..(j - 1))
    BY <2>2, <2>6, <2>7 DEF Apart
  <2> QED
    BY <2>1, <2>2, <2>8
<1>5. ASSUME NEW m \in D, NEW q \in D, m < q PROVE pos[q] < pos[m]
  <2> DEFINE B == {x \in D : m < x /\ ~(pos[x] < pos[m])}
  <2> SUFFICES B = {}
    BY <1>5
  <2> SUFFICES ASSUME B # {} PROVE FALSE
    OBVIOUS
  <2>1. B \in SUBSET Nat
    OBVIOUS
  <2>2. PICK x \in B : \A y \in B : x <= y
    BY <2>1, LeastFailure
  <2>3. x \in D /\ m < x /\ ~(pos[x] < pos[m]) /\ pos[x] \in Nat /\ pos[m] \in Nat
    BY <1>3, <2>2
  <2>4. x - 1 \in D /\ x - 1 + 1 = x /\ ~(x <= x - 1) /\ (m < x - 1 \/ m = x - 1)
    BY <1>2, <2>3
  <2>5. pos[x] < pos[x - 1] /\ pos[x - 1] \in Nat
    BY <1>3, <1>4, <2>3, <2>4
  <2>6. ~(x - 1 \in B)
    BY <2>2, <2>4
  <2>7. m < x - 1 => pos[x - 1] < pos[m]
    BY <2>4, <2>6
  <2> QED
    BY <2>3, <2>4, <2>5, <2>7
<1>6. PICK b : b = Branch(es, leaf)
  OBVIOUS
<1>7. Len(b) = depth /\ \A k \in 1..depth : b[k] = ById(es, up[depth - k])
  BY <1>1, <1>2, <1>6 DEF Ups
<1>8. ASSUME NEW k \in 1..Len(b), NEW l \in 1..(k - 1) PROVE b[l].id # b[k].id
  <2>1. depth - k \in D /\ depth - l \in D /\ depth - k < depth - l /\ k \in 1..depth /\ l \in 1..depth
    BY <1>2, <1>7
  <2>2. PICK i \in 1..Len(es) : i = pos[depth - k] /\ b[k] = es[i] /\ es[i].id # Null
    BY <1>3, <1>7, <2>1
  <2>3. PICK j \in 1..Len(es) : j = pos[depth - l] /\ b[l] = es[j]
    BY <1>3, <1>7, <2>1
  <2>4. j < i
    BY <1>5, <2>1, <2>2, <2>3
  <2>5. Apart(es, i) /\ j \in 1..(i - 1)
    BY <2>4 DEF Ordered
  <2> QED
    BY <2>2, <2>3, <2>5 DEF Apart
<1>9. OwnIds(b)
  BY <1>8 DEF OwnIds
<1> QED
  BY <1>6, <1>9

(* The end of a sequence of entries.                                        *)
Tip(es) == IF es = <<>> THEN Null ELSE Last(es).id

(* The path to the end of a chain is the chain.                             *)
LEMMA ChainBranch ==
  ASSUME NEW es \in Seq(Entry), NEW n \in Nat, Known(es, n), Chain(es)
  PROVE  Branch(es, Tip(es)) = es
<1>1. PICK L \in Nat : L = Len(es)
  OBVIOUS
<1>2. /\ OwnIds(es)
      /\ \A i \in 1..L : es[i].id # Null /\ es[i].parent = IF i = 1 THEN Null ELSE es[i - 1].id
  BY <1>1 DEF OwnIds, Chain
<1>3. PICK up, depth : Ups(up, depth, es, Tip(es))
  BY BranchUp
<1>4. /\ depth \in Nat /\ depth <= L + 1
      /\ \A m \in 0..L : m < depth <=> up[m] # Null /\ up[m] \in Ids(es)
      /\ \A m \in 0..L : up[m] = IF m = 0 THEN Tip(es)
           ELSE IF up[m - 1] \in Ids(es) THEN ById(es, up[m - 1]).parent ELSE Null
  BY <1>1, <1>3 DEF Ups, Climbs
<1>5. \A k \in 1..L : es[k].id \in Ids(es) /\ ById(es, es[k].id) = es[k]
  BY <1>1, <1>2, OwnById
<1>6. \A m \in 0..(L - 1) : up[m] = es[L - m].id
  <2> DEFINE B == {m \in 0..(L - 1) : up[m] # es[L - m].id}
  <2> SUFFICES B = {}
    OBVIOUS
  <2> SUFFICES ASSUME B # {} PROVE FALSE
    OBVIOUS
  <2>1. B \in SUBSET Nat
    OBVIOUS
  <2>2. PICK m \in B : \A y \in B : m <= y
    BY <2>1, LeastFailure
  <2>3. m \in 0..(L - 1) /\ up[m] # es[L - m].id /\ m \in 0..L
    BY <1>1, <2>2
  <2>4. CASE m = 0
    <3>1. es # <<>> /\ Last(es) = es[L]
      BY <1>1, <2>3 DEF Last
    <3>2. up[m] = es[L].id
      BY <1>4, <2>3, <2>4, <3>1 DEF Tip
    <3> QED
      BY <2>3, <2>4, <3>2
  <2>5. CASE m # 0
    <3>1. m - 1 \in 0..(L - 1) /\ ~(m <= m - 1) /\ L - (m - 1) \in 1..L /\ L - (m - 1) # 1
          /\ L - (m - 1) - 1 = L - m
      BY <2>3, <2>5
    <3>2. ~(m - 1 \in B)
      BY <2>2, <3>1
    <3>3. up[m - 1] = es[L - (m - 1)].id
      BY <3>1, <3>2
    <3>4. up[m - 1] \in Ids(es) /\ ById(es, up[m - 1]) = es[L - (m - 1)]
      BY <1>5, <3>1, <3>3
    <3>5. up[m] = es[L - (m - 1)].parent
      BY <1>4, <2>3, <2>5, <3>4
    <3>6. es[L - (m - 1)].parent = es[L - m].id
      BY <1>2, <3>1
    <3> QED
      BY <2>3, <3>5, <3>6
  <2> QED
    BY <2>4, <2>5
<1>7. depth = L
  <2>1. CASE L = 0
    <3>1. es = <<>>
      BY <1>1, <2>1, EmptySeq
    <3>2. up[0] = Null
      BY <1>4, <2>1, <3>1 DEF Tip
    <3> QED
      BY <1>4, <2>1, <3>2
  <2>2. CASE L # 0
    <3>1. L - 1 \in 0..(L - 1) /\ L - 1 \in 0..L /\ L - (L - 1) = 1 /\ 1 \in 1..L /\ L \in 0..L
      BY <2>2
    <3>2. up[L - 1] = es[1].id
      BY <1>6, <3>1
    <3>3. up[L - 1] # Null /\ up[L - 1] \in Ids(es) /\ ById(es, up[L - 1]) = es[1] /\ es[1].parent = Null
      BY <1>2, <1>5, <3>1, <3>2
    <3>4. up[L] = Null
      BY <1>4, <2>2, <3>1, <3>3
    <3>5. L - 1 < depth /\ ~(L < depth)
      BY <1>4, <3>1, <3>3, <3>4
    <3> QED
      BY <1>4, <3>5
  <2> QED
    BY <2>1, <2>2
<1>8. PICK b : b = Branch(es, Tip(es))
  OBVIOUS
<1>9. b = [k \in 1..L |-> ById(es, up[L - k])]
  BY <1>3, <1>7, <1>8 DEF Ups
<1>10. \A k \in 1..L : ById(es, up[L - k]) = es[k]
  <2>1. ASSUME NEW k \in 1..L PROVE ById(es, up[L - k]) = es[k]
    <3>1. L - k \in 0..(L - 1) /\ L - (L - k) = k
      OBVIOUS
    <3>2. up[L - k] = es[k].id
      BY <1>6, <3>1
    <3> QED
      BY <1>5, <3>2
  <2> QED
    BY <2>1
<1>11. b = [k \in 1..L |-> es[k]]
  BY <1>9, <1>10
<1>12. es = [k \in 1..L |-> es[k]]
  BY <1>1
<1> QED
  BY <1>8, <1>11, <1>12
----------------------------------------------------------------------------
(* Forks in order *)

NoLabels == {e \in Entry : ~IsLabel(e)}

(* What a fork retains of a path.                                           *)
LEMMA RetainedKept ==
  ASSUME NEW path \in Seq(Entry)
  PROVE  Retained(path) = Kept(path, NoLabels) /\ Retained(path) \in Seq(Entry)
<1>1. \A i \in DOMAIN path : ~IsLabel(path[i]) <=> path[i] \in NoLabels
  BY DEF NoLabels
<1>2. {i \in DOMAIN path : ~IsLabel(path[i])} = {i \in DOMAIN path : path[i] \in NoLabels}
  BY <1>1
<1>3. Retained(path) = Kept(path, NoLabels)
  BY <1>2 DEF Retained, Kept
<1> QED
  BY <1>3, KeptIs

(* Chained again, they are the same but for their parents.                  *)
LEMMA ChainedIs ==
  ASSUME NEW r \in Seq(Entry)
  PROVE  /\ Chained(r) \in Seq(Entry) /\ Alike(Chained(r), r)
         /\ \A i \in 1..Len(r) : Chained(r)[i].parent = IF i = 1 THEN Null ELSE r[i - 1].id
<1>1. Len(r) \in Nat /\ DOMAIN r = 1..Len(r) /\ \A i \in 1..Len(r) : r[i] \in Entry
  OBVIOUS
<1> DEFINE par(i) == IF i = 1 THEN Null ELSE r[i - 1].id
           new(i) == [r[i] EXCEPT !.parent = par(i)]
           t == [i \in 1..Len(r) |-> new(i)]
<1>2. Chained(r) = t
  BY <1>1 DEF Chained
<1>3. ASSUME NEW i \in 1..Len(r) PROVE par(i) \in Nat
  <2>1. i # 1 => i - 1 \in 1..Len(r)
    BY <1>1
  <2>2. i # 1 => r[i - 1].id \in Nat
    BY <1>1, <2>1, HeadersDiffer
  <2> QED
    BY <2>2 DEF Null
<1>4. ASSUME NEW i \in 1..Len(r)
      PROVE  /\ new(i) \in Entry /\ new(i).id = r[i].id /\ new(i).parent = par(i)
             /\ new(i).kind = r[i].kind /\ new(i).ref = r[i].ref
  <2>1. r[i] \in Entry /\ par(i) \in Nat
    BY <1>1, <1>3
  <2> HIDE DEF par
  <2> QED
    BY <2>1 DEF Entry
<1> HIDE DEF new
<1>5. t \in Seq(Entry) /\ Len(t) = Len(r) /\ \A i \in 1..Len(r) : t[i] = new(i)
  BY <1>1, <1>4
<1> HIDE DEF t
<1>6. Alike(t, r)
  BY <1>4, <1>5 DEF Alike
<1>7. \A i \in 1..Len(r) : t[i].parent = IF i = 1 THEN Null ELSE r[i - 1].id
  BY <1>4, <1>5 DEF par
<1> QED
  BY <1>2, <1>5, <1>6, <1>7

(* What is retained of a path is a chain, and has no labels.                *)
LEMMA RetainedChain ==
  ASSUME NEW es \in Seq(Entry), NEW n \in Nat, Known(es, n), Ordered(es, n), NEW id
  PROVE  Chain(Chained(Retained(Branch(es, id))))
<1>1. PICK b \in Seq(Entry) : /\ b = Branch(es, id) /\ OwnIds(b)
                              /\ \A k \in 1..Len(b) : b[k].id # Null
  <2>1. Branch(es, id) \in Seq(Entry)
    BY BranchIs
  <2>2. \A k \in 1..Len(Branch(es, id)) : \E i \in 1..Len(es) :
          Branch(es, id)[k] = es[i] /\ es[i].id # Null
    BY BranchIs
  <2>3. OwnIds(Branch(es, id))
    BY PathIs
  <2> QED
    BY <2>1, <2>2, <2>3
<1>2. PICK r \in Seq(Entry) : r = Retained(b) /\ r = Kept(b, NoLabels)
  BY RetainedKept
<1>3. OwnIds(r)
  BY <1>1, <1>2, KeptInOrder
<1>4. \A k \in 1..Len(r) : r[k].id # Null
  <2>1. \A k \in 1..Len(Kept(b, NoLabels)) : \E i \in 1..Len(b) :
          Kept(b, NoLabels)[k] = b[i] /\ b[i] \in NoLabels
    BY KeptIs
  <2> QED
    BY <1>1, <1>2, <2>1
<1>5. PICK c \in Seq(Entry) : /\ c = Chained(r) /\ Alike(c, r)
                              /\ \A i \in 1..Len(r) : c[i].parent = IF i = 1 THEN Null ELSE r[i - 1].id
  <2>1. Chained(r) \in Seq(Entry) /\ Alike(Chained(r), r)
    BY ChainedIs
  <2>2. \A i \in 1..Len(r) : Chained(r)[i].parent = IF i = 1 THEN Null ELSE r[i - 1].id
    BY ChainedIs
  <2> QED
    BY <2>1, <2>2
<1>6. Len(c) = Len(r) /\ Len(r) \in Nat /\ \A i \in 1..Len(r) : c[i].id = r[i].id
  BY <1>5 DEF Alike
<1>7. ASSUME NEW i \in 1..Len(c)
      PROVE  /\ c[i].id # Null /\ c[i].parent = IF i = 1 THEN Null ELSE c[i - 1].id
             /\ \A j \in 1..(i - 1) : c[j].id # c[i].id
  <2>1. i # 1 => i - 1 \in 1..Len(r)
    BY <1>6
  <2>2. \A j \in 1..(i - 1) : j \in 1..Len(r)
    BY <1>6
  <2>3. \A j \in 1..(i - 1) : r[j].id # r[i].id
    BY <1>3, <1>6 DEF OwnIds
  <2> QED
    BY <1>4, <1>5, <1>6, <2>1, <2>2, <2>3
<1>8. Chain(c)
  BY <1>7 DEF Chain
<1> QED
  BY <1>1, <1>2, <1>5, <1>8

(* The labels made again are those of the entries that had one.             *)
LEMMA LabelsMark ==
  ASSUME NEW kept \in Seq(Entry), NEW labelled, lastId \in Nat
  PROVE  LET ls == LabelsAgain(kept, labelled)
         IN  /\ \A k \in 1..Len(ls) : /\ ls[k].kind = "label"
                                      /\ \E i \in 1..Len(kept) : ls[k].ref = kept[i].id /\ kept[i].id \in labelled
             /\ \A i \in 1..Len(kept) : kept[i].id \in labelled => \E k \in 1..Len(ls) : ls[k].ref = kept[i].id
<1> DEFINE at == {i \in DOMAIN kept : kept[i].id \in labelled}
           leaf == IF kept = <<>> THEN Null ELSE Last(kept).id
           targets == Picked(kept, at)
           new(k) == [id |-> lastId + k, parent |-> IF k = 1 THEN leaf ELSE lastId + k - 1,
                      kind |-> "label", ref |-> targets[k].id]
           t == [k \in DOMAIN targets |-> new(k)]
<1>1. LabelsAgain(kept, labelled) = t
  BY DEF LabelsAgain
<1>2. at \in SUBSET (1..Len(kept)) /\ \A i \in 1..Len(kept) : i \in at <=> kept[i].id \in labelled
  OBVIOUS
<1> HIDE DEF at
<1>3. targets \in Seq(Entry) /\ Len(targets) = Cardinality(at)
  BY <1>2, PickedIs
<1>4. /\ \A i \in at : Rank(at, i) \in 1..Cardinality(at) /\ targets[Rank(at, i)] = kept[i]
      /\ \A k \in 1..Cardinality(at) : \E i \in at : Rank(at, i) = k /\ targets[k] = kept[i]
  BY <1>2, PickedIs
<1> HIDE DEF targets, leaf
<1>5. Len(targets) \in Nat /\ DOMAIN targets = 1..Len(targets)
  BY <1>3
<1>6. \A k \in 1..Len(targets) : new(k).kind = "label" /\ new(k).ref = targets[k].id
  OBVIOUS
<1> HIDE DEF new
<1>7. Len(t) = Len(targets) /\ \A k \in 1..Len(targets) : t[k] = new(k)
  BY <1>5
<1> HIDE DEF t
<1>8. ASSUME NEW k \in 1..Len(t)
      PROVE  t[k].kind = "label" /\ \E i \in 1..Len(kept) : t[k].ref = kept[i].id /\ kept[i].id \in labelled
  <2>1. k \in 1..Cardinality(at) /\ t[k].kind = "label" /\ t[k].ref = targets[k].id
    BY <1>3, <1>6, <1>7
  <2>2. PICK i \in at : targets[k] = kept[i]
    BY <1>4, <2>1
  <2> QED
    BY <1>2, <2>1, <2>2
<1>9. ASSUME NEW i \in 1..Len(kept), kept[i].id \in labelled
      PROVE  \E k \in 1..Len(t) : t[k].ref = kept[i].id
  <2>1. i \in at
    BY <1>2, <1>9
  <2>2. PICK k : k = Rank(at, i) /\ k \in 1..Cardinality(at) /\ targets[k] = kept[i]
    BY <1>4, <2>1
  <2>3. k \in 1..Len(t) /\ t[k].ref = targets[k].id
    BY <1>3, <1>6, <1>7, <2>2
  <2> QED
    BY <2>2, <2>3
<1> QED
  BY <1>1, <1>8, <1>9

(* A fork is a chain.                                                       *)
LEMMA BranchedChain ==
  ASSUME NEW es \in Seq(Entry), lastId \in Nat, Known(es, lastId), Ordered(es, lastId), NEW id
  PROVE  Chain(Branched(es, id))
<1>1. PICK c : c = Chained(Retained(Branch(es, id)))
  OBVIOUS
<1>2. /\ c \in Seq(Entry) /\ \A i \in 1..Len(c) : c[i].id # Null /\ c[i].id <= lastId
  BY <1>1, ChainIs
<1>3. Chain(c)
  BY <1>1, RetainedChain
<1>4. PICK ls : ls = LabelsAgain(c, Labelled(es))
  OBVIOUS
<1>5. /\ ls \in Seq(Entry) /\ (c = <<>> => Len(ls) = 0)
      /\ \A k \in 1..Len(ls) :
           /\ ls[k].id = lastId + k
           /\ ls[k].parent = IF k = 1 THEN IF c = <<>> THEN Null ELSE Last(c).id ELSE lastId + k - 1
  BY <1>2, <1>4, LabelsAre
<1>6. PICK b : b = c \o ls
  OBVIOUS
<1>7. /\ Len(b) = Len(c) + Len(ls)
      /\ \A i \in 1..(Len(c) + Len(ls)) : b[i] = IF i <= Len(c) THEN c[i] ELSE ls[i - Len(c)]
  BY <1>2, <1>5, <1>6, ConcatProperties
<1>8. Len(c) \in Nat /\ Len(ls) \in Nat /\ \A i \in 1..Len(c) : c[i].id \in Nat
  <2>1. \A i \in 1..Len(c) : c[i] \in Entry
    BY <1>2
  <2> QED
    BY <1>2, <1>5, <2>1, HeadersDiffer
<1>9. ASSUME NEW i \in 1..Len(b)
      PROVE  \/ i \in 1..Len(c) /\ b[i] = c[i]
             \/ i - Len(c) \in 1..Len(ls) /\ b[i] = ls[i - Len(c)] /\ b[i].id = lastId + (i - Len(c))
  BY <1>5, <1>7, <1>8
<1>10. ASSUME NEW i \in 1..Len(b), NEW j \in 1..(i - 1) PROVE b[j].id # b[i].id
  <2>1. j \in 1..Len(b)
    BY <1>7, <1>8
  <2>2. CASE i \in 1..Len(c) /\ b[i] = c[i]
    <3>1. j \in 1..Len(c) /\ b[j] = c[j]
      BY <1>7, <1>8, <2>2
    <3>2. c[j].id # c[i].id
      BY <1>3, <2>2 DEF Chain
    <3> QED
      BY <2>2, <3>1, <3>2
  <2>3. CASE i - Len(c) \in 1..Len(ls) /\ b[i].id = lastId + (i - Len(c))
    <3>1. CASE j \in 1..Len(c) /\ b[j] = c[j]
      <4>1. c[j].id <= lastId /\ c[j].id \in Nat
        BY <1>2, <1>8, <3>1
      <4> QED
        BY <1>8, <2>3, <3>1, <4>1
    <3>2. CASE j - Len(c) \in 1..Len(ls) /\ b[j].id = lastId + (j - Len(c))
      BY <1>8, <2>3, <3>2
    <3> QED
      BY <1>9, <2>1, <3>1, <3>2
  <2> QED
    BY <1>9, <2>2, <2>3
<1>11. ASSUME NEW i \in 1..Len(b)
       PROVE  b[i].id # Null /\ b[i].parent = IF i = 1 THEN Null ELSE b[i - 1].id
  <2>1. CASE i \in 1..Len(c) /\ b[i] = c[i]
    <3>1. c[i].id # Null /\ c[i].parent = IF i = 1 THEN Null ELSE c[i - 1].id
      BY <1>3, <2>1 DEF Chain
    <3>2. i # 1 => b[i - 1] = c[i - 1]
      BY <1>7, <1>8, <2>1
    <3> QED
      BY <2>1, <3>1, <3>2
  <2>2. CASE i - Len(c) \in 1..Len(ls) /\ b[i] = ls[i - Len(c)] /\ b[i].id = lastId + (i - Len(c))
    <3>1. PICK k \in 1..Len(ls) : k = i - Len(c) /\ i = Len(c) + k
      BY <1>8, <2>2
    <3>2. b[i].id # Null
      BY <2>2, <3>1 DEF Null
    <3>3. CASE k # 1
      <4>1. k - 1 \in 1..Len(ls) /\ i - 1 = Len(c) + (k - 1) /\ i # 1 /\ i - 1 \in 1..Len(c) + Len(ls)
            /\ ~(i - 1 <= Len(c)) /\ i - 1 - Len(c) = k - 1
        BY <1>8, <3>1, <3>3
      <4>2. b[i - 1] = ls[k - 1]
        BY <1>7, <4>1
      <4>3. ls[k - 1].id = lastId + (k - 1)
        BY <1>5, <4>1
      <4>4. b[i].parent = lastId + k - 1
        BY <1>5, <2>2, <3>1, <3>3
      <4> QED
        BY <3>1, <3>2, <4>1, <4>2, <4>3, <4>4
    <3>4. CASE k = 1
      <4>1. c # <<>> /\ Len(c) # 0
        <5>1. c # <<>>
          BY <1>5, <1>8, <3>1
        <5> QED
          BY <1>2, <5>1, EmptySeq
      <4>2. i # 1 /\ i - 1 = Len(c) /\ b[i - 1] = c[Len(c)] /\ Last(c) = c[Len(c)]
        BY <1>7, <1>8, <3>1, <3>4, <4>1 DEF Last
      <4>3. b[i].parent = Last(c).id
        BY <1>5, <2>2, <3>1, <3>4, <4>1
      <4> QED
        BY <3>2, <4>2, <4>3
    <3> QED
      BY <3>3, <3>4
  <2> QED
    BY <1>9, <2>1, <2>2
<1>12. Chain(b)
  BY <1>10, <1>11 DEF Chain
<1>13. Branched(es, id) = b
  BY <1>1, <1>4, <1>6 DEF Branched
<1> QED
  BY <1>12, <1>13
----------------------------------------------------------------------------
(* The order is kept *)

(* What a fork makes: of the entries src in a file, the session es.         *)
Forked(p, id, g, f, src, es, s, u) ==
  /\ f \in File /\ f = mem[p].file /\ mem[p] # Down /\ Fresh(g)
  /\ src \in Seq(Entry) /\ src = Loaded(disk[f]) /\ Known(src, lastId) /\ Ordered(src, lastId)
  /\ es \in Seq(Entry) /\ es = Branched(src, id) /\ Chain(es) /\ Known(es, lastId')
  /\ s = Opened(g, es) /\ u = [Opened(g, es) EXCEPT !.flushed = FALSE]
  /\ \/ Writes(p, g, <<>>, SessionLines(es), FALSE, s, mem[p])
     \/ mem' = [mem EXCEPT ![p] = u] /\ Unwritten

(* It does.                                                                 *)
LEMMA ForkMakes ==
  ASSUME IInv, SInv, NEW p \in Process, NEW id, NEW g \in File, Fork(p, id, g)
  PROVE  lastId' \in lastId..MaxId /\ \E f, src, es, s, u : Forked(p, id, g, f, src, es, s, u)
<1>1. mem[p] # Down /\ Fresh(g)
  BY DEF Fork
<1>2. PICK f \in File : f = mem[p].file
  <2>1. mem[p] \in Session \cup {Down}
    BY OfProcess
  <2>2. mem[p].file \in File
    BY <1>1, <2>1, DownIs
  <2> QED
    BY <2>2
<1>3. lastId \in Nat
  BY OfProcess
<1>4. PICK src \in Seq(Entry) : src = Loaded(disk[f]) /\ Known(src, lastId) /\ Ordered(src, lastId)
  <2>1. Loaded(disk[f]) \in Seq(Entry) /\ Known(Loaded(disk[f]), lastId)
    BY OfFile
  <2>2. Ordered(Loaded(disk[f]), lastId)
    BY OfOrder
  <2> QED
    BY <2>1, <2>2
<1>5. PICK es \in Seq(Entry), labels \in Nat :
        /\ es = Branched(src, id) /\ labels = Cardinality({i \in DOMAIN es : es[i].id > lastId})
        /\ Known(es, lastId + labels)
  BY <1>3, <1>4, BranchedIs
<1>6. lastId + labels <= MaxId /\ lastId' = lastId + labels
  BY <1>2, <1>4, <1>5 DEF Fork
<1>7. Known(es, lastId') /\ lastId' \in lastId..MaxId
  BY <1>5, <1>6, OfProcess
<1>8. Chain(es)
  BY <1>3, <1>4, <1>5, BranchedChain
<1>9. PICK s, u : s = Opened(g, es) /\ u = [Opened(g, es) EXCEPT !.flushed = FALSE]
  OBVIOUS
<1>10. \/ Writes(p, g, <<>>, SessionLines(es), FALSE, s, mem[p])
       \/ mem' = [mem EXCEPT ![p] = u] /\ Unwritten
  BY <1>2, <1>4, <1>5, <1>9 DEF Fork
<1>11. Forked(p, id, g, f, src, es, s, u)
  BY <1>1, <1>2, <1>4, <1>5, <1>7, <1>8, <1>9, <1>10 DEF Forked
<1> QED
  BY <1>7, <1>11

(* A fork is in order.                                                      *)
LEMMA ForkOrdered ==
  ASSUME IInv, SInv, NEW p \in Process, NEW id, NEW g \in File, Fork(p, id, g)
  PROVE  SInv'
<1>1. PICK f, src, es, s, u : Forked(p, id, g, f, src, es, s, u)
  BY ForkMakes
<1>2. lastId \in Nat /\ lastId' \in Nat /\ lastId <= lastId' /\ lastId' \in lastId..MaxId
  BY ForkMakes, OfProcess
<1>3. /\ es \in Seq(Entry) /\ Chain(es) /\ Known(es, lastId')
      /\ s = Opened(g, es) /\ u = [Opened(g, es) EXCEPT !.flushed = FALSE]
      /\ \/ Writes(p, g, <<>>, SessionLines(es), FALSE, s, mem[p])
         \/ mem' = [mem EXCEPT ![p] = u] /\ Unwritten
  BY <1>1 DEF Forked
<1>4. Ordered(es, lastId')
  <2>1. \A i \in 1..Len(es) : es[i].id <= lastId'
    BY <1>3 DEF Known
  <2>2. es \in Seq(Lined)
    BY <1>3 DEF Lined
  <2> QED
    BY <1>2, <1>3, <2>1, <2>2, ChainOrdered
<1>5. s.entries = es /\ u.entries = es
  BY <1>3, OpenedIs
<1>6. CASE Writes(p, g, <<>>, SessionLines(es), FALSE, s, mem[p])
  BY <1>2, <1>3, <1>4, <1>5, <1>6, WholeOrdered
<1>7. CASE mem' = [mem EXCEPT ![p] = u] /\ Unwritten
  BY <1>2, <1>4, <1>5, <1>7, MemOrdered
<1> QED
  BY <1>3, <1>6, <1>7

(* Saying something, labelling, compacting and summarizing.                 *)
LEMMA AppendsOrdered ==
  ASSUME IInv, SInv, NEW p \in Process, Say(p) \/ Label(p) \/ Compact(p) \/ Summarize(p)
  PROVE  SInv'
<1>1. mem[p].leaf \in Nat /\ (mem[p].leaf = Null \/ mem[p].leaf \in Ids(mem[p].entries))
  BY OfProcess
<1>2. CASE Say(p)
  <2>1. PICK kind \in {"user", "assistant"} : AppendEntry(p, kind, Null, mem[p].leaf)
    BY <1>2 DEF Say
  <2>2. kind \in Kind /\ Null \in Nat
    BY DEF Kind, Messages, Null
  <2> QED
    BY <1>1, <2>1, <2>2, AppendOrdered
<1>3. CASE Label(p)
  <2>1. PICK t \in Ids(mem[p].entries) \ {Null} :
          AppendEntry(p, IF t \in Labelled(mem[p].entries) THEN "unlabel" ELSE "label", t, mem[p].leaf)
    BY <1>3 DEF Label
  <2>2. PICK kind : kind = IF t \in Labelled(mem[p].entries) THEN "unlabel" ELSE "label"
    OBVIOUS
  <2>3. kind \in Kind /\ t \in Nat
    BY <2>2, OfProcess DEF Kind
  <2> QED
    BY <1>1, <2>1, <2>2, <2>3, AppendOrdered
<1>4. CASE Compact(p)
  <2>1. PICK kept \in FirstKept(Branch(mem[p].entries, mem[p].leaf)) :
          AppendEntry(p, "compaction", kept, mem[p].leaf)
    BY <1>4 DEF Compact
  <2>2. mem[p].entries \in Seq(Entry) /\ Known(mem[p].entries, lastId)
    BY OfProcess
  <2>3. Branch(mem[p].entries, mem[p].leaf) \in Seq(Entry)
    BY <2>2, BranchIs
  <2>4. kept \in Nat /\ "compaction" \in Kind
    BY <2>3, FirstKeptIds DEF Kind
  <2> QED
    BY <1>1, <2>1, <2>4, AppendOrdered
<1>5. CASE Summarize(p)
  <2>1. PICK t \in Ids(mem[p].entries) \cup {Null} : AppendEntry(p, "summary", t, t)
    BY <1>5 DEF Summarize
  <2>2. t \in Nat /\ "summary" \in Kind
    BY OfProcess DEF Kind, Messages, Null
  <2> QED
    BY <2>1, <2>2, AppendOrdered
<1> QED
  BY <1>2, <1>3, <1>4, <1>5

(* What past processes left is in order.                                    *)
LEMMA InitOrdered ==
  ASSUME Init
  PROVE  SInv
<1>1. PICK past \in Found :
        /\ exists = DOMAIN past
        /\ disk = [f \in File |->
             IF f \in DOMAIN past
             THEN Lines(<<Header(IF f \in Legacy THEN Old ELSE Current)>> \o past[f]) ELSE <<>>]
  BY DEF Init
<1>2. mem = [p \in Process |-> Down] /\ lastId = FirstId /\ FirstId \in Nat
  BY BoundAssumption DEF Init
<1>3. \A n : Ordered(<<>>, n)
  BY DEF Ordered
<1>4. \A p \in Process : Ordered(mem[p].entries, lastId)
  <2>1. Down.entries = <<>>
    BY DownIs
  <2> QED
    BY <1>2, <1>3, <2>1
<1>5. ASSUME NEW f \in File PROVE Ordered(Texts(disk[f]), lastId)
  <2>1. CASE f \notin exists
    <3>1. disk[f] = <<>>
      BY <1>1, <2>1
    <3>2. Texts(<<>>) = <<>>
      BY DEF Texts
    <3> QED
      BY <1>3, <3>1, <3>2
  <2>2. CASE f \in exists
    <3>1. PICK h : h = Header(IF f \in Legacy THEN Old ELSE Current)
      OBVIOUS
    <3>2. h \in Headers /\ h.id = Null /\ h.parent = Null
      <4>1. h \in Headers
        BY <3>1 DEF Headers
      <4> QED
        BY <4>1, LinedIs
    <3>3. PICK es \in Seq(Entry) :
            /\ es = past[f]
            /\ \A i \in DOMAIN es : IF f \in Legacy THEN es[i].id = Null /\ es[i].parent = Null
                                    ELSE /\ es[i].id \in 1..FirstId /\ RootOrChild(es, i)
                                         /\ \A j \in 1..(i - 1) : es[j].id # es[i].id
      BY <1>1, <2>2, FoundAssumption
    <3>4. DOMAIN es = 1..Len(es) /\ Len(es) \in Nat /\ \A i \in 1..Len(es) : es[i] \in Entry
      OBVIOUS
    <3>5. disk[f] = Lines(<<h>> \o es)
      BY <1>1, <2>2, <3>1, <3>3
    <3>6. PICK ls \in Seq(Line) :
            /\ ls = disk[f] /\ Len(ls) = Len(es) + 1
            /\ ls[1].entry = h /\ \A i \in 1..Len(es) : ls[i + 1].entry = es[i]
      BY <3>2, <3>5, FoundLines
    <3>7. PICK t : t = Texts(ls) /\ Len(t) = Len(es) + 1 /\ \A i \in 1..Len(t) : t[i] = ls[i].entry
      <4>1. DOMAIN ls = 1..Len(ls) /\ Len(ls) \in Nat
        OBVIOUS
      <4>2. Len(Texts(ls)) = Len(ls) /\ \A i \in 1..Len(ls) : Texts(ls)[i] = ls[i].entry
        BY <4>1 DEF Texts
      <4> QED
        BY <3>6, <4>2
    <3>8. t[1] = h /\ \A i \in 1..Len(es) : t[i + 1] = es[i]
      BY <3>4, <3>6, <3>7
    <3>9. \A i \in 1..Len(t) : i = 1 \/ (i - 1 \in 1..Len(es) /\ i - 1 + 1 = i)
      BY <3>4, <3>7
    <3>10. \A i \in 1..Len(es) : es[i].id \in Nat /\ es[i].parent \in Nat
      BY <3>4, LinedIs DEF Lined
    <3>11. ASSUME NEW i \in 1..Len(es)
           PROVE  /\ es[i].id <= FirstId /\ es[i].parent <= FirstId
                  /\ es[i].id # Null =>
                       /\ es[i].parent # es[i].id
                       /\ \A j \in 1..(i - 1) : es[j].id # es[i].id /\ es[j].parent # es[i].id
      <4>1. CASE f \in Legacy
        BY <1>2, <3>3, <3>4, <4>1 DEF Null
      <4>2. CASE f \notin Legacy
        <5>1. es[i].id \in 1..FirstId /\ \A j \in 1..(i - 1) : es[j].id # es[i].id
          BY <3>3, <3>4, <4>2
        <5>2. ASSUME NEW j \in 1..Len(es)
              PROVE  es[j].parent = Null \/ \E k \in 1..(j - 1) : es[k].id = es[j].parent
          BY <3>3, <3>4, <4>2 DEF RootOrChild
        <5>3. es[i].parent <= FirstId
          <6>1. CASE es[i].parent = Null
            BY <1>2, <6>1 DEF Null
          <6>2. CASE es[i].parent # Null
            <7>1. PICK k \in 1..(i - 1) : es[k].id = es[i].parent
              BY <5>2, <6>2
            <7>2. k \in 1..Len(es)
              BY <3>4
            <7>3. es[k].id \in 1..FirstId
              BY <3>3, <3>4, <4>2, <7>2
            <7> QED
              BY <1>2, <7>1, <7>3
          <6> QED
            BY <6>1, <6>2
        <5>4. ASSUME NEW j \in 1..i, es[j].parent = es[i].id PROVE FALSE
          <6>1. j \in 1..Len(es) /\ es[j].parent # Null
            BY <5>1, <5>4, <3>4 DEF Null
          <6>2. PICK k \in 1..(j - 1) : es[k].id = es[j].parent
            BY <5>2, <6>1
          <6>3. k \in 1..(i - 1)
            BY <6>1, <6>2
          <6> QED
            BY <5>1, <5>4, <6>2, <6>3
        <5>5. i \in 1..i /\ \A j \in 1..(i - 1) : j \in 1..i
          BY <3>4
        <5> QED
          BY <1>2, <5>1, <5>3, <5>4, <5>5
      <4> QED
        BY <4>1, <4>2
    <3>12. ASSUME NEW i \in 1..Len(t)
           PROVE  t[i].id <= FirstId /\ t[i].parent <= FirstId /\ Apart(t, i)
      <4>1. CASE i = 1
        BY <1>2, <3>2, <3>8, <4>1 DEF Apart, Null
      <4>2. CASE i # 1
        <5>1. PICK k \in 1..Len(es) : i = k + 1 /\ t[i] = es[k]
          BY <3>8, <3>9, <4>2
        <5>2. ASSUME t[i].id # Null, NEW j \in 1..(i - 1)
              PROVE  t[j].id # t[i].id /\ t[j].parent # t[i].id
          <6>1. CASE j = 1
            BY <3>2, <3>8, <5>2, <6>1
          <6>2. CASE j # 1
            <7>1. j \in 1..Len(t) /\ j - 1 \in 1..(k - 1) /\ j - 1 + 1 = j /\ j - 1 \in 1..Len(es)
              BY <3>4, <3>7, <5>1, <6>2
            <7>2. t[j] = es[j - 1]
              BY <3>8, <7>1
            <7> QED
              BY <3>11, <5>1, <5>2, <7>1, <7>2
          <6> QED
            BY <6>1, <6>2
        <5>3. t[i].id # Null => t[i].parent # t[i].id
          BY <3>11, <5>1
        <5> QED
          BY <3>11, <5>1, <5>2, <5>3 DEF Apart
      <4> QED
        BY <4>1, <4>2
    <3>13. Ordered(t, FirstId)
      BY <3>12 DEF Ordered
    <3> QED
      BY <1>2, <3>6, <3>7, <3>13
  <2> QED
    BY <2>1, <2>2
<1> QED
  BY <1>4, <1>5 DEF SInv

(* Each step keeps the order.                                               *)
LEMMA EachOrdered ==
  ASSUME IInv, SInv, [Next]_vars
  PROVE  SInv'
<1>1. ASSUME NEW p \in Process, NEW f \in File,
             OpenNew(p, f) \/ OpenEmpty(p, f) \/ OpenCurrent(p, f) \/ OpenOld(p, f)
      PROVE  SInv'
  BY <1>1, OpensOrdered
<1>2. ASSUME NEW p \in Process, Exit(p) \/ GoTo(p)
      PROVE  SInv'
  <2>1. mem[p] # Down
    BY <1>2 DEF Exit, GoTo
  <2>2. PICK f \in File : f = mem[p].file
    <3>1. mem[p] \in Session \cup {Down}
      BY OfProcess
    <3>2. mem[p].file \in File
      BY <2>1, <3>1, DownIs
    <3> QED
      BY <3>2
  <2> QED
    BY <1>2, <2>2, OpensOrdered
<1>3. ASSUME NEW p \in Process, Say(p) \/ Label(p) \/ Compact(p) \/ Summarize(p)
      PROVE  SInv'
  BY <1>3, AppendsOrdered
<1>4. ASSUME NEW p \in Process, NEW f \in File, NEW g \in File, ForkFrom(p, f, g)
      PROVE  SInv'
  BY <1>4, ForkFromOrdered
<1>5. ASSUME NEW p \in Process, NEW id \in Ids(mem[p].entries), NEW g \in File, Fork(p, id, g)
      PROVE  SInv'
  BY <1>5, ForkOrdered
<1>6. CASE UNCHANGED vars
  BY <1>6 DEF vars, SInv
<1> QED
  BY <1>1, <1>2, <1>3, <1>4, <1>5, <1>6 DEF Next

(* The order holds.                                                         *)
LEMMA InOrder == Spec => [](IInv /\ SInv)
<1>1. Init => SInv
  BY InitOrdered
<1>2. IInv /\ SInv /\ [Next]_vars => SInv'
  BY EachOrdered
<1> QED
  BY <1>1, <1>2, Invariant, PTL DEF Spec
----------------------------------------------------------------------------
(* Paths in parts *)

(* A part of a sequence.                                                    *)
LEMMA PartOf ==
  ASSUME NEW s \in Seq(Entry), NEW m \in 1..(Len(s) + 1), NEW n \in (m - 1)..Len(s)
  PROVE  /\ SubSeq(s, m, n) \in Seq(Entry) /\ Len(SubSeq(s, m, n)) = n - m + 1
         /\ \A i \in 1..(n - m + 1) : SubSeq(s, m, n)[i] = s[m + i - 1]
<1>1. Len(s) \in Nat /\ m \in Int /\ n \in Int
  OBVIOUS
<1>2. \A i \in m..n : i \in 1..Len(s)
  BY <1>1
<1>3. \A i \in m..n : s[i] \in Entry
  BY <1>2
<1>4. /\ SubSeq(s, m, n) \in Seq(Entry)
      /\ Len(SubSeq(s, m, n)) = IF m <= n THEN n - m + 1 ELSE 0
      /\ \A i \in 1..(n - m + 1) : SubSeq(s, m, n)[i] = s[m + i - 1]
  BY <1>1, <1>3, SubSeqProperties
<1> QED
  BY <1>1, <1>4

(* One sequence behind the other, and what each of them is of it.           *)
LEMMA ConcatAt ==
  ASSUME NEW s \in Seq(Entry), NEW t \in Seq(Entry)
  PROVE  /\ s \o t \in Seq(Entry) /\ Len(s \o t) = Len(s) + Len(t)
         /\ \A i \in 1..Len(s) : (s \o t)[i] = s[i]
         /\ \A i \in 1..Len(t) : (s \o t)[Len(s) + i] = t[i]
<1>1. /\ s \o t \in Seq(Entry) /\ Len(s \o t) = Len(s) + Len(t)
      /\ \A i \in 1..Len(s) + Len(t) : (s \o t)[i] = IF i <= Len(s) THEN s[i] ELSE t[i - Len(s)]
  BY ConcatProperties
<1>2. Len(s) \in Nat /\ Len(t) \in Nat
  OBVIOUS
<1>3. \A i \in 1..Len(s) : i \in 1..Len(s) + Len(t) /\ i <= Len(s)
  BY <1>2
<1>4. \A i \in 1..Len(t) : Len(s) + i \in 1..Len(s) + Len(t) /\ ~(Len(s) + i <= Len(s)) /\ Len(s) + i - Len(s) = i
  BY <1>2
<1>5. \A i \in 1..Len(s) : (s \o t)[i] = s[i]
  BY <1>1, <1>3
<1>6. \A i \in 1..Len(t) : (s \o t)[Len(s) + i] = t[i]
  BY <1>1, <1>4
<1> QED
  BY <1>1, <1>5, <1>6

(* A sequence of one.                                                       *)
LEMMA OneIs ==
  ASSUME NEW c \in Entry
  PROVE  <<c>> \in Seq(Entry) /\ Len(<<c>>) = 1 /\ <<c>>[1] = c
  OBVIOUS

(* What is before an entry, the entry, and what is behind it.               *)
Four(p, s, t, c, u) ==
  /\ p \in Seq(Entry) /\ s \in Seq(Entry) /\ t \in Seq(Entry) /\ c \in Entry /\ u \in Seq(Entry)
  /\ Len(p) = Len(s) + Len(t) + 1 + Len(u)
  /\ \A i \in 1..Len(s) : p[i] = s[i]
  /\ \A i \in 1..Len(t) : p[Len(s) + i] = t[i]
  /\ p[Len(s) + Len(t) + 1] = c
  /\ \A i \in 1..Len(u) : p[Len(s) + Len(t) + 1 + i] = u[i]

(* They are one behind the other.                                           *)
LEMMA FourIs ==
  ASSUME NEW s \in Seq(Entry), NEW t \in Seq(Entry), NEW c \in Entry, NEW u \in Seq(Entry)
  PROVE  Four(((s \o t) \o <<c>>) \o u, s, t, c, u)
<1>1. PICK q \in Seq(Entry) : /\ q = s \o t /\ Len(q) = Len(s) + Len(t)
                              /\ \A i \in 1..Len(s) : q[i] = s[i]
                              /\ \A i \in 1..Len(t) : q[Len(s) + i] = t[i]
  <2>1. /\ s \o t \in Seq(Entry) /\ Len(s \o t) = Len(s) + Len(t)
        /\ \A i \in 1..Len(s) : (s \o t)[i] = s[i]
        /\ \A i \in 1..Len(t) : (s \o t)[Len(s) + i] = t[i]
    BY ConcatAt
  <2> QED
    BY <2>1
<1>2. PICK one \in Seq(Entry) : one = <<c>> /\ Len(one) = 1 /\ one[1] = c
  <2>1. <<c>> \in Seq(Entry) /\ Len(<<c>>) = 1 /\ <<c>>[1] = c
    BY OneIs
  <2> QED
    BY <2>1
<1>3. PICK r \in Seq(Entry) : /\ r = q \o one /\ Len(r) = Len(q) + 1
                              /\ \A i \in 1..Len(q) : r[i] = q[i]
                              /\ r[Len(q) + 1] = c
  <2>1. /\ q \o one \in Seq(Entry) /\ Len(q \o one) = Len(q) + Len(one)
        /\ \A i \in 1..Len(q) : (q \o one)[i] = q[i]
        /\ \A i \in 1..Len(one) : (q \o one)[Len(q) + i] = one[i]
    BY ConcatAt
  <2>2. 1 \in 1..Len(one)
    BY <1>2
  <2> QED
    BY <1>2, <2>1, <2>2
<1>4. PICK p \in Seq(Entry) : /\ p = r \o u /\ Len(p) = Len(r) + Len(u)
                              /\ \A i \in 1..Len(r) : p[i] = r[i]
                              /\ \A i \in 1..Len(u) : p[Len(r) + i] = u[i]
  <2>1. /\ r \o u \in Seq(Entry) /\ Len(r \o u) = Len(r) + Len(u)
        /\ \A i \in 1..Len(r) : (r \o u)[i] = r[i]
        /\ \A i \in 1..Len(u) : (r \o u)[Len(r) + i] = u[i]
    BY ConcatAt
  <2> QED
    BY <2>1
<1>5. Len(s) \in Nat /\ Len(t) \in Nat /\ Len(u) \in Nat
  OBVIOUS
<1>6. Len(p) = Len(s) + Len(t) + 1 + Len(u) /\ Len(r) = Len(s) + Len(t) + 1 /\ Len(q) + 1 = Len(s) + Len(t) + 1
  BY <1>1, <1>3, <1>4, <1>5
<1>7. ASSUME NEW i \in 1..Len(s) PROVE p[i] = s[i]
  <2>1. i \in 1..Len(q) /\ i \in 1..Len(r)
    BY <1>1, <1>3, <1>5
  <2> QED
    BY <1>1, <1>3, <1>4, <2>1
<1>8. ASSUME NEW i \in 1..Len(t) PROVE p[Len(s) + i] = t[i]
  <2>1. Len(s) + i \in 1..Len(q) /\ Len(s) + i \in 1..Len(r)
    BY <1>1, <1>3, <1>5
  <2> QED
    BY <1>1, <1>3, <1>4, <2>1
<1>9. p[Len(s) + Len(t) + 1] = c
  <2>1. Len(q) + 1 \in 1..Len(r)
    BY <1>3, <1>1, <1>5
  <2> QED
    BY <1>3, <1>4, <1>6, <2>1
<1>10. \A i \in 1..Len(u) : p[Len(s) + Len(t) + 1 + i] = u[i]
  BY <1>4, <1>6
<1>11. Four(p, s, t, c, u)
  BY <1>6, <1>7, <1>8, <1>9, <1>10 DEF Four
<1> QED
  BY <1>1, <1>2, <1>3, <1>4, <1>11

(* And only if they are.                                                    *)
LEMMA FourOf ==
  ASSUME NEW p, NEW s, NEW t, NEW c, NEW u, Four(p, s, t, c, u)
  PROVE  p = ((s \o t) \o <<c>>) \o u
<1>1. PICK q : q = ((s \o t) \o <<c>>) \o u
  OBVIOUS
<1>2. Four(q, s, t, c, u)
  <2>1. s \in Seq(Entry) /\ t \in Seq(Entry) /\ c \in Entry /\ u \in Seq(Entry)
    BY DEF Four
  <2> QED
    BY <1>1, <2>1, FourIs
<1>3. /\ p \in Seq(Entry) /\ q \in Seq(Entry) /\ Len(p) = Len(q)
      /\ Len(p) = Len(s) + Len(t) + 1 + Len(u) /\ Len(s) \in Nat /\ Len(t) \in Nat /\ Len(u) \in Nat
  BY <1>2 DEF Four
<1>4. ASSUME NEW i \in 1..Len(p) PROVE p[i] = q[i]
  <2>1. CASE i \in 1..Len(s)
    BY <1>2, <2>1 DEF Four
  <2>2. CASE i - Len(s) \in 1..Len(t)
    <3>1. PICK j \in 1..Len(t) : i = Len(s) + j
      <4>1. i = Len(s) + (i - Len(s))
        BY <1>3
      <4> QED
        BY <2>2, <4>1
    <3> QED
      BY <1>2, <3>1 DEF Four
  <2>3. CASE i = Len(s) + Len(t) + 1
    BY <1>2, <2>3 DEF Four
  <2>4. CASE i - (Len(s) + Len(t) + 1) \in 1..Len(u)
    <3>1. PICK j \in 1..Len(u) : i = Len(s) + Len(t) + 1 + j
      <4>1. i = Len(s) + Len(t) + 1 + (i - (Len(s) + Len(t) + 1))
        BY <1>3
      <4> QED
        BY <2>4, <4>1
    <3> QED
      BY <1>2, <3>1 DEF Four
  <2> QED
    BY <1>3, <2>1, <2>2, <2>3, <2>4
<1> QED
  BY <1>1, <1>3, <1>4, SeqEqual

(* What is like two sequences in a row is two such in a row.                *)
LEMMA AlikeSplit ==
  ASSUME NEW t \in Seq(Entry), NEW s \in Seq(Entry), NEW u \in Seq(Entry), Alike(t, s \o u)
  PROVE  \E a, b \in Seq(Entry) : t = a \o b /\ Alike(a, s) /\ Alike(b, u)
<1>1. PICK q \in Seq(Entry) : /\ q = s \o u /\ Len(q) = Len(s) + Len(u)
                              /\ \A i \in 1..Len(s) : q[i] = s[i]
                              /\ \A i \in 1..Len(u) : q[Len(s) + i] = u[i]
  <2>1. /\ s \o u \in Seq(Entry) /\ Len(s \o u) = Len(s) + Len(u)
        /\ \A i \in 1..Len(s) : (s \o u)[i] = s[i]
        /\ \A i \in 1..Len(u) : (s \o u)[Len(s) + i] = u[i]
    BY ConcatAt
  <2> QED
    BY <2>1
<1>2. /\ Len(t) = Len(s) + Len(u) /\ Len(s) \in Nat /\ Len(u) \in Nat
      /\ \A i \in 1..Len(t) : t[i].id = q[i].id /\ t[i].kind = q[i].kind /\ t[i].ref = q[i].ref
  BY <1>1 DEF Alike
<1>3. PICK a \in Seq(Entry) : a = SubSeq(t, 1, Len(s)) /\ Len(a) = Len(s) /\ \A i \in 1..Len(s) : a[i] = t[i]
  <2>1. 1 \in 1..(Len(t) + 1) /\ Len(s) \in (1 - 1)..Len(t)
    BY <1>2
  <2>2. /\ SubSeq(t, 1, Len(s)) \in Seq(Entry) /\ Len(SubSeq(t, 1, Len(s))) = Len(s) - 1 + 1
        /\ \A i \in 1..(Len(s) - 1 + 1) : SubSeq(t, 1, Len(s))[i] = t[1 + i - 1]
    BY <2>1, PartOf
  <2>3. Len(s) - 1 + 1 = Len(s) /\ \A i \in 1..Len(s) : 1 + i - 1 = i
    BY <1>2
  <2> QED
    BY <2>2, <2>3
<1>4. PICK b \in Seq(Entry) : /\ b = SubSeq(t, Len(s) + 1, Len(t)) /\ Len(b) = Len(u)
                              /\ \A i \in 1..Len(u) : b[i] = t[Len(s) + i]
  <2>1. Len(s) + 1 \in 1..(Len(t) + 1) /\ Len(t) \in (Len(s) + 1 - 1)..Len(t)
    BY <1>2
  <2>2. /\ SubSeq(t, Len(s) + 1, Len(t)) \in Seq(Entry)
        /\ Len(SubSeq(t, Len(s) + 1, Len(t))) = Len(t) - (Len(s) + 1) + 1
        /\ \A i \in 1..(Len(t) - (Len(s) + 1) + 1) : SubSeq(t, Len(s) + 1, Len(t))[i] = t[Len(s) + 1 + i - 1]
    BY <2>1, PartOf
  <2>3. Len(t) - (Len(s) + 1) + 1 = Len(u) /\ \A i \in 1..Len(u) : Len(s) + 1 + i - 1 = Len(s) + i
    BY <1>2
  <2> QED
    BY <2>2, <2>3
<1>5. PICK r \in Seq(Entry) : /\ r = a \o b /\ Len(r) = Len(a) + Len(b)
                              /\ \A i \in 1..Len(a) : r[i] = a[i]
                              /\ \A i \in 1..Len(b) : r[Len(a) + i] = b[i]
  <2>1. /\ a \o b \in Seq(Entry) /\ Len(a \o b) = Len(a) + Len(b)
        /\ \A i \in 1..Len(a) : (a \o b)[i] = a[i]
        /\ \A i \in 1..Len(b) : (a \o b)[Len(a) + i] = b[i]
    BY ConcatAt
  <2> QED
    BY <2>1
<1>6. ASSUME NEW i \in 1..Len(t) PROVE t[i] = r[i]
  <2>1. CASE i \in 1..Len(s)
    BY <1>3, <1>5, <2>1
  <2>2. CASE ~(i \in 1..Len(s))
    <3>1. PICK j \in 1..Len(u) : i = Len(s) + j
      <4>1. i - Len(s) \in 1..Len(u) /\ i = Len(s) + (i - Len(s))
        BY <1>2, <2>2
      <4> QED
        BY <4>1
    <3> QED
      BY <1>3, <1>4, <1>5, <3>1
  <2> QED
    BY <2>1, <2>2
<1>7. Len(t) = Len(r)
  BY <1>2, <1>3, <1>4, <1>5
<1>8. t = r
  BY <1>6, <1>7, SeqEqual
<1>9. Alike(a, s)
  <2>1. \A i \in 1..Len(s) : i \in 1..Len(t)
    BY <1>2
  <2> QED
    BY <1>1, <1>2, <1>3, <2>1 DEF Alike
<1>10. Alike(b, u)
  <2>1. ASSUME NEW i \in 1..Len(u) PROVE b[i].id = u[i].id /\ b[i].kind = u[i].kind /\ b[i].ref = u[i].ref
    <3>1. Len(s) + i \in 1..Len(t)
      BY <1>2
    <3>2. b[i] = t[Len(s) + i] /\ q[Len(s) + i] = u[i]
      BY <1>1, <1>4
    <3> QED
      BY <1>2, <3>1, <3>2
  <2> QED
    BY <1>4, <2>1 DEF Alike
<1> QED
  BY <1>3, <1>4, <1>5, <1>8, <1>9, <1>10
----------------------------------------------------------------------------
(* Contexts *)

Shown == {e \in Entry : IsMessage(e) \/ IsCompaction(e)}
SaidOnes == {e \in Entry : IsMessage(e)}

(* What is said, and what is shown, goes by the kind of an entry; no label  *)
(* is.                                                                      *)
LEMMA ByKind ==
  /\ SaidOnes \subseteq NoLabels /\ Shown \subseteq NoLabels
  /\ \A s, t \in Seq(Entry) : \A i \in 1..Len(s) : i \in 1..Len(t) /\ s[i].kind = t[i].kind =>
       /\ s[i] \in SaidOnes <=> t[i] \in SaidOnes
       /\ s[i] \in Shown <=> t[i] \in Shown
  /\ \A e \in Entry : e.kind = "label" => e \notin SaidOnes /\ e \notin Shown /\ e \notin NoLabels /\ ~IsCompaction(e)
<1>1. SaidOnes \subseteq NoLabels /\ Shown \subseteq NoLabels
  BY DEF SaidOnes, Shown, NoLabels, IsLabel, IsMessage, IsCompaction, Messages
<1>2. ASSUME NEW e \in Entry, NEW f \in Entry, e.kind = f.kind
      PROVE  (e \in SaidOnes <=> f \in SaidOnes) /\ (e \in Shown <=> f \in Shown)
  BY <1>2 DEF SaidOnes, Shown, IsMessage, IsCompaction
<1>3. ASSUME NEW e \in Entry, e.kind = "label"
      PROVE  e \notin SaidOnes /\ e \notin Shown /\ e \notin NoLabels /\ ~IsCompaction(e)
  BY <1>3 DEF SaidOnes, Shown, NoLabels, IsLabel, IsMessage, IsCompaction, Messages
<1>4. ASSUME NEW s \in Seq(Entry), NEW t \in Seq(Entry), NEW i \in 1..Len(s),
             i \in 1..Len(t), s[i].kind = t[i].kind
      PROVE  (s[i] \in SaidOnes <=> t[i] \in SaidOnes) /\ (s[i] \in Shown <=> t[i] \in Shown)
  <2>1. s[i] \in Entry /\ t[i] \in Entry
    BY <1>4
  <2> QED
    BY <1>2, <1>4, <2>1
<1> QED
  BY <1>1, <1>3, <1>4

(* What is said of a path.                                                  *)
LEMMA SaidKept ==
  ASSUME NEW path \in Seq(Entry)
  PROVE  Said(path) = Kept(path, SaidOnes)
<1>1. \A i \in DOMAIN path : IsMessage(path[i]) <=> path[i] \in SaidOnes
  BY DEF SaidOnes
<1>2. {i \in DOMAIN path : IsMessage(path[i])} = {i \in DOMAIN path : path[i] \in SaidOnes}
  BY <1>1
<1> QED
  BY <1>2 DEF Said, Kept

(* What is shown of a path.                                                 *)
LEMMA ShownKept ==
  ASSUME NEW path \in Seq(Entry)
  PROVE  Picked(path, {i \in DOMAIN path : IsMessage(path[i]) \/ IsCompaction(path[i])}) = Kept(path, Shown)
<1>1. \A i \in DOMAIN path : IsMessage(path[i]) \/ IsCompaction(path[i]) <=> path[i] \in Shown
  BY DEF Shown
<1>2. {i \in DOMAIN path : IsMessage(path[i]) \/ IsCompaction(path[i])} = {i \in DOMAIN path : path[i] \in Shown}
  BY <1>1
<1> QED
  BY <1>2 DEF Kept

(* The context of a path without a compaction is what is shown of it.       *)
LEMMA ContextPlain ==
  ASSUME NEW p \in Seq(Entry), \A i \in 1..Len(p) : ~IsCompaction(p[i])
  PROVE  Context(p) = Kept(p, Shown)
<1> DEFINE compactions == {i \in DOMAIN p : p[i].kind = "compaction"}
           last == CHOOSE i \in compactions : \A j \in compactions : j <= i
           firstKept == {i \in 1..(last - 1) : p[i].id = p[last].ref}
           first == IF firstKept = {} THEN last
                    ELSE CHOOSE i \in firstKept : \A j \in firstKept : i <= j
           parts == <<p[last]>> \o SubSeq(p, first, last - 1) \o SubSeq(p, last + 1, Len(p))
           shown == IF compactions = {} THEN p ELSE parts
<1>1. Context(p) = Picked(shown, {i \in DOMAIN shown : IsMessage(shown[i]) \/ IsCompaction(shown[i])})
  BY DEF Context
<1> HIDE DEF parts
<1>2. compactions = {}
  BY DEF IsCompaction
<1>3. shown = p
  BY <1>2
<1> HIDE DEF shown
<1>4. Context(p) = Picked(p, {i \in DOMAIN p : IsMessage(p[i]) \/ IsCompaction(p[i])})
  BY <1>1, <1>3
<1> QED
  BY <1>4, ShownKept

(* A path with a compaction: what was left out, what is kept from the entry *)
(* on that the compaction names, the newest compaction, what came after it. *)
Parts(p, s, t, c, u) ==
  /\ Four(p, s, t, c, u)
  /\ IsCompaction(c) /\ \A i \in 1..Len(u) : ~IsCompaction(u[i])
  /\ \A i \in 1..Len(s) : s[i].id # c.ref
  /\ t # <<>> => t[1].id = c.ref

(* Its context.                                                             *)
LEMMA ContextOf ==
  ASSUME NEW p, NEW s, NEW t, NEW c, NEW u, Parts(p, s, t, c, u)
  PROVE  Context(p) = Kept((<<c>> \o t) \o u, Shown)
<1> DEFINE compactions == {i \in DOMAIN p : p[i].kind = "compaction"}
           last == CHOOSE i \in compactions : \A j \in compactions : j <= i
           firstKept == {i \in 1..(last - 1) : p[i].id = p[last].ref}
           first == IF firstKept = {} THEN last
                    ELSE CHOOSE i \in firstKept : \A j \in firstKept : i <= j
           shown == IF compactions = {} THEN p
                    ELSE <<p[last]>> \o SubSeq(p, first, last - 1) \o SubSeq(p, last + 1, Len(p))
<1>1. Context(p) = Picked(shown, {i \in DOMAIN shown : IsMessage(shown[i]) \/ IsCompaction(shown[i])})
  BY DEF Context
<1> HIDE DEF shown
<1>2. /\ p \in Seq(Entry) /\ s \in Seq(Entry) /\ t \in Seq(Entry) /\ c \in Entry /\ u \in Seq(Entry)
      /\ Len(p) = Len(s) + Len(t) + 1 + Len(u)
      /\ \A i \in 1..Len(s) : p[i] = s[i]
      /\ \A i \in 1..Len(t) : p[Len(s) + i] = t[i]
      /\ p[Len(s) + Len(t) + 1] = c
      /\ \A i \in 1..Len(u) : p[Len(s) + Len(t) + 1 + i] = u[i]
      /\ c.kind = "compaction" /\ \A i \in 1..Len(u) : u[i].kind # "compaction"
      /\ \A i \in 1..Len(s) : s[i].id # c.ref
      /\ t # <<>> => t[1].id = c.ref
  BY DEF Parts, Four, IsCompaction
<1>3. /\ Len(s) \in Nat /\ Len(t) \in Nat /\ Len(u) \in Nat /\ Len(p) \in Nat /\ DOMAIN p = 1..Len(p)
      /\ (t = <<>> <=> Len(t) = 0)
  BY <1>2, EmptySeq
<1>4. PICK l \in 1..Len(p) : l = Len(s) + Len(t) + 1
  <2>1. Len(s) + Len(t) + 1 \in 1..Len(p)
    BY <1>2, <1>3
  <2> QED
    BY <2>1
<1>5. l \in compactions
  BY <1>2, <1>3, <1>4
<1>6. \A j \in compactions : j <= l
  <2>1. ASSUME NEW j \in compactions, ~(j <= l) PROVE FALSE
    <3>1. j \in 1..Len(p) /\ p[j].kind = "compaction"
      BY <1>3
    <3>2. PICK k \in 1..Len(u) : j = Len(s) + Len(t) + 1 + k
      <4>1. j - (Len(s) + Len(t) + 1) \in 1..Len(u) /\ j = Len(s) + Len(t) + 1 + (j - (Len(s) + Len(t) + 1))
        <5>1. l = Len(s) + Len(t) + 1 /\ j \in 1..Len(p) /\ ~(j <= l)
          BY <1>4, <2>1, <3>1
        <5>2. Len(p) = l + Len(u)
          BY <1>2, <5>1
        <5> QED
          BY <1>3, <5>1, <5>2
      <4> QED
        BY <4>1
    <3> QED
      BY <1>2, <3>1, <3>2
  <2> QED
    BY <2>1
<1>7. last = l
  <2>1. \E i \in compactions : \A j \in compactions : j <= i
    BY <1>5, <1>6
  <2>2. \A i \in compactions : i \in Nat
    BY <1>3
  <2> HIDE DEF compactions
  <2>3. last \in compactions /\ \A j \in compactions : j <= last
    BY <2>1
  <2> HIDE DEF last
  <2> QED
    BY <1>5, <1>6, <2>2, <2>3
<1> HIDE DEF last
<1>8. firstKept = {i \in 1..(l - 1) : p[i].id = c.ref}
  BY <1>2, <1>4, <1>7
<1>9. \A i \in firstKept : i \in Nat /\ Len(s) + 1 <= i
  <2>1. ASSUME NEW i \in firstKept, ~(Len(s) + 1 <= i) PROVE FALSE
    <3>1. i \in 1..Len(s) /\ p[i].id = c.ref
      BY <1>3, <1>4, <1>8, <2>1
    <3> QED
      BY <1>2, <3>1
  <2>2. \A i \in firstKept : i \in Nat
    BY <1>3, <1>4, <1>8
  <2> QED
    BY <2>1, <2>2
<1>10. first = Len(s) + 1
  <2>1. CASE t = <<>>
    <3>1. l = Len(s) + 1
      BY <1>3, <1>4, <2>1
    <3>2. firstKept = {}
      <4>1. \A i \in firstKept : i <= l - 1
        BY <1>3, <1>4, <1>8
      <4> HIDE DEF firstKept
      <4> QED
        BY <1>3, <1>9, <3>1, <4>1
    <3> HIDE DEF firstKept
    <3> QED
      BY <1>7, <3>1, <3>2
  <2>2. CASE t # <<>>
    <3>1. 1 \in 1..Len(t) /\ Len(s) + 1 \in 1..(l - 1)
      BY <1>3, <1>4, <2>2
    <3>2. p[Len(s) + 1].id = c.ref
      BY <1>2, <2>2, <3>1
    <3>3. Len(s) + 1 \in firstKept
      BY <1>8, <3>1, <3>2
    <3> HIDE DEF firstKept
    <3>4. first \in firstKept /\ \A j \in firstKept : first <= j
      <4>1. \E i \in firstKept : \A j \in firstKept : i <= j
        BY <1>9, <3>3
      <4> QED
        BY <3>3, <4>1
    <3> HIDE DEF first
    <3> QED
      BY <1>3, <1>9, <3>3, <3>4
  <2> QED
    BY <2>1, <2>2
<1> HIDE DEF first
<1>11. SubSeq(p, Len(s) + 1, l - 1) = t
  <2>1. Len(s) + 1 \in 1..(Len(p) + 1) /\ l - 1 \in (Len(s) + 1 - 1)..Len(p)
    BY <1>2, <1>3, <1>4
  <2>2. PICK q : q = SubSeq(p, Len(s) + 1, l - 1)
    OBVIOUS
  <2>3. /\ q \in Seq(Entry) /\ Len(q) = l - 1 - (Len(s) + 1) + 1
        /\ \A i \in 1..(l - 1 - (Len(s) + 1) + 1) : q[i] = p[Len(s) + 1 + i - 1]
    <3>1. p \in Seq(Entry)
      BY <1>2
    <3>2. /\ SubSeq(p, Len(s) + 1, l - 1) \in Seq(Entry)
          /\ Len(SubSeq(p, Len(s) + 1, l - 1)) = l - 1 - (Len(s) + 1) + 1
          /\ \A i \in 1..(l - 1 - (Len(s) + 1) + 1) : SubSeq(p, Len(s) + 1, l - 1)[i] = p[Len(s) + 1 + i - 1]
      BY <2>1, <3>1, PartOf
    <3> QED
      BY <2>2, <3>2
  <2>4. l - 1 - (Len(s) + 1) + 1 = Len(t) /\ \A i \in 1..Len(t) : Len(s) + 1 + i - 1 = Len(s) + i
    BY <1>3, <1>4
  <2>5. Len(q) = Len(t) /\ \A i \in 1..Len(q) : q[i] = t[i]
    <3>1. Len(q) = Len(t) /\ \A i \in 1..Len(t) : q[i] = p[Len(s) + 1 + i - 1]
      BY <2>3, <2>4
    <3>2. \A i \in 1..Len(t) : q[i] = p[Len(s) + i]
      BY <2>4, <3>1
    <3> QED
      BY <1>2, <3>1, <3>2
  <2>6. q = t
    BY <1>2, <2>3, <2>5, SeqEqual
  <2> QED
    BY <2>2, <2>6
<1>12. SubSeq(p, l + 1, Len(p)) = u
  <2>1. l + 1 \in 1..(Len(p) + 1) /\ Len(p) \in (l + 1 - 1)..Len(p)
    BY <1>2, <1>3, <1>4
  <2>2. PICK q : q = SubSeq(p, l + 1, Len(p))
    OBVIOUS
  <2>3. /\ q \in Seq(Entry) /\ Len(q) = Len(p) - (l + 1) + 1
        /\ \A i \in 1..(Len(p) - (l + 1) + 1) : q[i] = p[l + 1 + i - 1]
    <3>1. p \in Seq(Entry)
      BY <1>2
    <3>2. /\ SubSeq(p, l + 1, Len(p)) \in Seq(Entry)
          /\ Len(SubSeq(p, l + 1, Len(p))) = Len(p) - (l + 1) + 1
          /\ \A i \in 1..(Len(p) - (l + 1) + 1) : SubSeq(p, l + 1, Len(p))[i] = p[l + 1 + i - 1]
      BY <2>1, <3>1, PartOf
    <3> QED
      BY <2>2, <3>2
  <2>4. Len(p) - (l + 1) + 1 = Len(u) /\ \A i \in 1..Len(u) : l + 1 + i - 1 = Len(s) + Len(t) + 1 + i
    BY <1>2, <1>3, <1>4
  <2>5. Len(q) = Len(u) /\ \A i \in 1..Len(q) : q[i] = u[i]
    <3>1. Len(q) = Len(u) /\ \A i \in 1..Len(u) : q[i] = p[l + 1 + i - 1]
      BY <2>3, <2>4
    <3>2. \A i \in 1..Len(u) : q[i] = p[Len(s) + Len(t) + 1 + i]
      BY <2>4, <3>1
    <3> QED
      BY <1>2, <3>1, <3>2
  <2>6. q = u
    BY <1>2, <2>3, <2>5, SeqEqual
  <2> QED
    BY <2>2, <2>6
<1>13. PICK sh : sh = shown
  OBVIOUS
<1>14. sh = (<<c>> \o t) \o u
  <2>1. compactions # {}
    BY <1>5
  <2>2. p[last] = c
    BY <1>2, <1>4, <1>7
  <2> HIDE DEF compactions
  <2>3. shown = <<p[last]>> \o SubSeq(p, first, last - 1) \o SubSeq(p, last + 1, Len(p))
    BY <2>1 DEF shown
  <2>4. SubSeq(p, first, last - 1) = t /\ SubSeq(p, last + 1, Len(p)) = u
    BY <1>7, <1>10, <1>11, <1>12
  <2> QED
    BY <1>13, <2>2, <2>3, <2>4
<1>15. sh \in Seq(Entry)
  <2>1. PICK one \in Seq(Entry) : one = <<c>>
    <3>1. <<c>> \in Seq(Entry)
      BY <1>2
    <3> QED
      BY <3>1
  <2>2. PICK q \in Seq(Entry) : q = one \o t
    <3>1. one \o t \in Seq(Entry)
      BY <1>2, ConcatAt
    <3> QED
      BY <3>1
  <2>3. q \o u \in Seq(Entry)
    BY <1>2, ConcatAt
  <2> QED
    BY <1>14, <2>1, <2>2, <2>3
<1>16. Context(p) = Picked(sh, {i \in DOMAIN sh : IsMessage(sh[i]) \/ IsCompaction(sh[i])})
  BY <1>1, <1>13
<1>17. Context(p) = Kept(sh, Shown)
  BY <1>15, <1>16, ShownKept
<1> QED
  BY <1>14, <1>17

(* A path with a compaction has such parts.                                 *)
LEMMA PartsExist ==
  ASSUME NEW p \in Seq(Entry), NEW i0 \in 1..Len(p), IsCompaction(p[i0])
  PROVE  \E s, t, c, u : Parts(p, s, t, c, u)
<1> DEFINE S == {i \in 1..Len(p) : IsCompaction(p[i])}
<1>1. Len(p) \in Nat /\ \A i \in 1..Len(p) : p[i] \in Entry
  OBVIOUS
<1>2. PICK l \in 1..Len(p) : IsCompaction(p[l]) /\ \A i \in 1..Len(p) : IsCompaction(p[i]) => i <= l
  <2>1. S \in SUBSET (0..Len(p)) /\ S # {}
    BY <1>1
  <2>2. PICK g \in S : \A i \in S : i <= g
    BY <1>1, <2>1, Greatest
  <2> QED
    BY <2>2
<1>3. PICK c \in Entry : c = p[l]
  BY <1>1
<1> DEFINE K == {i \in 1..(l - 1) : p[i].id = c.ref}
<1>4. PICK f \in 1..l : /\ \A i \in 1..(f - 1) : p[i].id # c.ref
                        /\ f # l => p[f].id = c.ref
  <2>1. CASE K = {}
    <3>1. l \in 1..l /\ \A i \in 1..(l - 1) : p[i].id # c.ref
      BY <1>1, <2>1
    <3> QED
      BY <3>1
  <2>2. CASE K # {}
    <3>1. K \in SUBSET Nat
      OBVIOUS
    <3>2. PICK f \in K : \A y \in K : f <= y
      BY <2>2, <3>1, LeastFailure
    <3>3. f \in 1..l /\ p[f].id = c.ref /\ \A i \in 1..(f - 1) : i \in 1..(l - 1) /\ ~(f <= i)
      BY <3>2
    <3>4. \A i \in 1..(f - 1) : p[i].id # c.ref
      BY <3>2, <3>3
    <3> QED
      BY <3>3, <3>4
  <2> QED
    BY <2>1, <2>2
<1>5. PICK s \in Seq(Entry) : Len(s) = f - 1 /\ \A i \in 1..(f - 1) : s[i] = p[i]
  <2>1. 1 \in 1..(Len(p) + 1) /\ f - 1 \in (1 - 1)..Len(p)
    BY <1>1
  <2>2. /\ SubSeq(p, 1, f - 1) \in Seq(Entry) /\ Len(SubSeq(p, 1, f - 1)) = f - 1 - 1 + 1
        /\ \A i \in 1..(f - 1 - 1 + 1) : SubSeq(p, 1, f - 1)[i] = p[1 + i - 1]
    BY <2>1, PartOf
  <2>3. f - 1 - 1 + 1 = f - 1 /\ \A i \in 1..(f - 1) : 1 + i - 1 = i
    OBVIOUS
  <2> QED
    BY <2>2, <2>3
<1>6. PICK t \in Seq(Entry) : Len(t) = l - f /\ \A i \in 1..(l - f) : t[i] = p[f - 1 + i]
  <2>1. f \in 1..(Len(p) + 1) /\ l - 1 \in (f - 1)..Len(p)
    BY <1>1
  <2>2. PICK q \in Seq(Entry) : /\ Len(q) = l - 1 - f + 1
                                /\ \A i \in 1..(l - 1 - f + 1) : q[i] = p[f + i - 1]
    <3>1. /\ SubSeq(p, f, l - 1) \in Seq(Entry) /\ Len(SubSeq(p, f, l - 1)) = l - 1 - f + 1
          /\ \A i \in 1..(l - 1 - f + 1) : SubSeq(p, f, l - 1)[i] = p[f + i - 1]
      BY <2>1, PartOf
    <3> QED
      BY <3>1
  <2>3. l - 1 - f + 1 = l - f /\ \A i \in 1..(l - f) : f + i - 1 = f - 1 + i
    OBVIOUS
  <2>4. Len(q) = l - f /\ \A i \in 1..(l - f) : q[i] = p[f + i - 1]
    BY <2>2, <2>3
  <2>5. \A i \in 1..(l - f) : q[i] = p[f - 1 + i]
    BY <2>3, <2>4
  <2> QED
    BY <2>4, <2>5
<1>7. PICK u \in Seq(Entry) : Len(u) = Len(p) - l /\ \A i \in 1..(Len(p) - l) : u[i] = p[l + i]
  <2>1. l + 1 \in 1..(Len(p) + 1) /\ Len(p) \in (l + 1 - 1)..Len(p)
    BY <1>1
  <2>2. PICK q \in Seq(Entry) : /\ Len(q) = Len(p) - (l + 1) + 1
                                /\ \A i \in 1..(Len(p) - (l + 1) + 1) : q[i] = p[l + 1 + i - 1]
    <3>1. /\ SubSeq(p, l + 1, Len(p)) \in Seq(Entry) /\ Len(SubSeq(p, l + 1, Len(p))) = Len(p) - (l + 1) + 1
          /\ \A i \in 1..(Len(p) - (l + 1) + 1) : SubSeq(p, l + 1, Len(p))[i] = p[l + 1 + i - 1]
      BY <2>1, PartOf
    <3> QED
      BY <3>1
  <2>3. Len(p) - (l + 1) + 1 = Len(p) - l /\ \A i \in 1..(Len(p) - l) : l + 1 + i - 1 = l + i
    BY <1>1
  <2>4. Len(q) = Len(p) - l /\ \A i \in 1..(Len(p) - l) : q[i] = p[l + 1 + i - 1]
    BY <2>2, <2>3
  <2>5. \A i \in 1..(Len(p) - l) : q[i] = p[l + i]
    BY <2>3, <2>4
  <2> QED
    BY <2>4, <2>5
<1>8. Four(p, s, t, c, u)
  <2>1. Len(s) + Len(t) + 1 = l /\ Len(p) = Len(s) + Len(t) + 1 + Len(u)
    BY <1>1, <1>5, <1>6, <1>7
  <2>2. \A i \in 1..Len(t) : p[Len(s) + i] = t[i]
    BY <1>5, <1>6
  <2>3. \A i \in 1..Len(u) : p[Len(s) + Len(t) + 1 + i] = u[i]
    BY <1>7, <2>1
  <2> QED
    BY <1>3, <1>5, <2>1, <2>2, <2>3 DEF Four
<1>9. \A i \in 1..Len(u) : ~IsCompaction(u[i])
  <2>1. \A i \in 1..Len(u) : l + i \in 1..Len(p) /\ ~(l + i <= l)
    BY <1>1, <1>7
  <2> QED
    BY <1>2, <1>7, <2>1
<1>10. t # <<>> => t[1].id = c.ref
  <2>1. t # <<>> => Len(t) # 0
    BY EmptySeq
  <2>2. t # <<>> => f # l /\ 1 \in 1..(l - f) /\ f - 1 + 1 = f
    BY <1>6, <2>1
  <2> QED
    BY <1>4, <1>6, <2>2
<1>11. \A i \in 1..Len(s) : s[i].id # c.ref
  BY <1>4, <1>5
<1>12. IsCompaction(c)
  BY <1>2, <1>3
<1>13. Parts(p, s, t, c, u)
  BY <1>8, <1>9, <1>10, <1>11, <1>12 DEF Parts
<1> QED
  BY <1>13

(* What is kept of two, three and four in a row.                            *)
KeptTwo(s, t, E) == Kept(s \o t, E) = Kept(s, E) \o Kept(t, E)
KeptThree(s, t, u, E) == Kept((s \o t) \o u, E) = (Kept(s, E) \o Kept(t, E)) \o Kept(u, E)
KeptFour(s, t, u, v, E) ==
  Kept(((s \o t) \o u) \o v, E) = ((Kept(s, E) \o Kept(t, E)) \o Kept(u, E)) \o Kept(v, E)

(* Two.                                                                     *)
LEMMA KeptOfTwo ==
  ASSUME NEW s \in Seq(Entry), NEW t \in Seq(Entry), NEW E
  PROVE  KeptTwo(s, t, E)
  BY KeptBoth DEF KeptTwo

(* Three.                                                                   *)
LEMMA KeptOfThree ==
  ASSUME NEW s \in Seq(Entry), NEW t \in Seq(Entry), NEW u \in Seq(Entry), NEW E
  PROVE  KeptThree(s, t, u, E)
<1>1. PICK a \in Seq(Entry) : a = s \o t
  <2>1. s \o t \in Seq(Entry)
    BY ConcatAt
  <2> QED
    BY <2>1
<1>2. KeptTwo(s, t, E) /\ KeptTwo(a, u, E)
  BY KeptOfTwo
<1>3. Kept(a, E) = Kept(s, E) \o Kept(t, E)
  BY <1>1, <1>2, Zenon DEF KeptTwo
<1>4. Kept(a \o u, E) = Kept(a, E) \o Kept(u, E)
  BY <1>2, Zenon DEF KeptTwo
<1> QED
  BY <1>1, <1>3, <1>4, Zenon DEF KeptThree

(* Four.                                                                    *)
LEMMA KeptOfFour ==
  ASSUME NEW s \in Seq(Entry), NEW t \in Seq(Entry), NEW u \in Seq(Entry), NEW v \in Seq(Entry), NEW E
  PROVE  KeptFour(s, t, u, v, E)
<1>1. PICK a \in Seq(Entry) : a = (s \o t) \o u
  <2>1. PICK b \in Seq(Entry) : b = s \o t
    <3>1. s \o t \in Seq(Entry)
      BY ConcatAt
    <3> QED
      BY <3>1
  <2>2. b \o u \in Seq(Entry)
    BY ConcatAt
  <2> QED
    BY <2>1, <2>2
<1>2. KeptThree(s, t, u, E) /\ KeptTwo(a, v, E)
  BY KeptOfTwo, KeptOfThree
<1>3. Kept(a, E) = (Kept(s, E) \o Kept(t, E)) \o Kept(u, E)
  BY <1>1, <1>2, Zenon DEF KeptThree
<1>4. Kept(a \o v, E) = Kept(a, E) \o Kept(v, E)
  BY <1>2, Zenon DEF KeptTwo
<1> QED
  BY <1>1, <1>3, <1>4, Zenon DEF KeptFour

(* What is kept of one entry.                                               *)
LEMMA KeptOne ==
  ASSUME NEW c \in Entry, NEW E
  PROVE  Kept(<<c>>, E) = IF c \in E THEN <<c>> ELSE <<>>
<1>1. PICK one \in Seq(Entry) : one = <<c>> /\ Len(one) = 1 /\ one[1] = c
  <2>1. <<c>> \in Seq(Entry) /\ Len(<<c>>) = 1 /\ <<c>>[1] = c
    BY OneIs
  <2> QED
    BY <2>1
<1>2. (\A i \in 1..Len(one) : one[i] \in E) => Kept(one, E) = one
  BY KeptIs
<1>3. (\A i \in 1..Len(one) : one[i] \notin E) => Kept(one, E) = <<>>
  BY KeptIs
<1>4. c \in E => Kept(one, E) = one
  BY <1>1, <1>2
<1>5. c \notin E => Kept(one, E) = <<>>
  BY <1>1, <1>3
<1> QED
  BY <1>1, <1>4, <1>5

(* The parts of what is retained, unless the compaction keeps from a label  *)
(* on.                                                                      *)
LEMMA RetainedParts ==
  ASSUME NEW p, NEW s, NEW t, NEW c, NEW u, Parts(p, s, t, c, u), ~FromLabel(p)
  PROVE  Parts(Kept(p, NoLabels), Kept(s, NoLabels), Kept(t, NoLabels), c, Kept(u, NoLabels))
<1>1. Four(p, s, t, c, u) /\ IsCompaction(c)
  BY DEF Parts
<1>2. /\ p \in Seq(Entry) /\ s \in Seq(Entry) /\ t \in Seq(Entry) /\ c \in Entry /\ u \in Seq(Entry)
      /\ Len(p) = Len(s) + Len(t) + 1 + Len(u)
      /\ \A i \in 1..Len(t) : p[Len(s) + i] = t[i]
      /\ p[Len(s) + Len(t) + 1] = c
  BY <1>1 DEF Four
<1>3. PICK a \in Seq(Entry), b \in Seq(Entry), d \in Seq(Entry) :
        a = Kept(s, NoLabels) /\ b = Kept(t, NoLabels) /\ d = Kept(u, NoLabels)
  <2>1. Kept(s, NoLabels) \in Seq(Entry)
    BY <1>2, KeptIs
  <2>2. Kept(t, NoLabels) \in Seq(Entry)
    BY <1>2, KeptIs
  <2>3. Kept(u, NoLabels) \in Seq(Entry)
    BY <1>2, KeptIs
  <2> QED
    BY <2>1, <2>2, <2>3
<1>4. c \in NoLabels
  BY <1>1, <1>2 DEF NoLabels, IsLabel, IsCompaction
<1>5. Kept(<<c>>, NoLabels) = <<c>>
  BY <1>2, <1>4, KeptOne
<1>6. Kept(p, NoLabels) = ((a \o b) \o <<c>>) \o d
  <2>1. p = ((s \o t) \o <<c>>) \o u
    BY <1>1, FourOf
  <2>2. Kept(((s \o t) \o <<c>>) \o u, NoLabels)
          = ((Kept(s, NoLabels) \o Kept(t, NoLabels)) \o Kept(<<c>>, NoLabels)) \o Kept(u, NoLabels)
    <3>1. <<c>> \in Seq(Entry)
      BY <1>2, OneIs
    <3>2. KeptFour(s, t, <<c>>, u, NoLabels)
      BY <1>2, <3>1, KeptOfFour
    <3> QED
      BY <3>2, Zenon DEF KeptFour
  <2>3. Kept(p, NoLabels) = ((Kept(s, NoLabels) \o Kept(t, NoLabels)) \o Kept(<<c>>, NoLabels)) \o Kept(u, NoLabels)
    BY <2>1, <2>2, Zenon
  <2>4. ((Kept(s, NoLabels) \o Kept(t, NoLabels)) \o Kept(<<c>>, NoLabels)) \o Kept(u, NoLabels)
          = ((a \o b) \o <<c>>) \o d
    BY <1>3, <1>5, Zenon
  <2> QED
    BY <2>3, <2>4, Zenon
<1>7. Four(Kept(p, NoLabels), a, b, c, d)
  <2>1. Four(((a \o b) \o <<c>>) \o d, a, b, c, d)
    BY <1>2, FourIs
  <2> QED
    BY <1>6, <2>1
<1>8. \A i \in 1..Len(d) : ~IsCompaction(d[i])
  <2>1. \A k \in 1..Len(Kept(u, NoLabels)) : \E i \in 1..Len(u) : Kept(u, NoLabels)[k] = u[i] /\ u[i] \in NoLabels
    BY <1>2, KeptIs
  <2> QED
    BY <1>3, <2>1 DEF Parts
<1>9. \A i \in 1..Len(a) : a[i].id # c.ref
  <2>1. \A k \in 1..Len(Kept(s, NoLabels)) : \E i \in 1..Len(s) : Kept(s, NoLabels)[k] = s[i] /\ s[i] \in NoLabels
    BY <1>2, KeptIs
  <2> QED
    BY <1>3, <2>1 DEF Parts
<1>10. b # <<>> => b[1].id = c.ref
  <2> SUFFICES ASSUME b # <<>> PROVE b[1].id = c.ref
    OBVIOUS
  <2>1. t # <<>>
    BY <1>2, <1>3, KeptIs
  <2>2. t[1].id = c.ref
    BY <2>1 DEF Parts
  <2>3. t[1] \in NoLabels
    <3>1. Len(t) # 0 /\ Len(s) \in Nat /\ Len(t) \in Nat /\ Len(u) \in Nat /\ DOMAIN p = 1..Len(p)
      BY <1>2, <2>1, EmptySeq
    <3>2. 1 \in 1..Len(t) /\ Len(s) + 1 \in DOMAIN p /\ Len(s) + Len(t) + 1 \in DOMAIN p
      BY <1>2, <3>1
    <3>3. p[Len(s) + 1] = t[1] /\ t[1] \in Entry
      BY <1>2, <3>2
    <3>4. c.kind = "compaction"
      BY <1>1 DEF IsCompaction
    <3>5. ~IsLabel(p[Len(s) + 1])
      BY <1>2, <2>2, <3>2, <3>3, <3>4 DEF FromLabel
    <3> QED
      BY <3>3, <3>5 DEF NoLabels
  <2>4. Kept(t, NoLabels)[1] = t[1]
    BY <1>2, <2>1, <2>3, KeptInOrder
  <2> QED
    BY <1>3, <2>2, <2>4
<1>11. Parts(Kept(p, NoLabels), a, b, c, d)
  BY <1>1, <1>7, <1>8, <1>9, <1>10 DEF Parts
<1> QED
  BY <1>3, <1>11
----------------------------------------------------------------------------
(* The fork of a path *)

(* What is shown or said of what is like the retained entries of a path.    *)
LEMMA KeptLike ==
  ASSUME NEW p \in Seq(Entry), NEW k \in Seq(Entry), Alike(k, Kept(p, NoLabels)), NEW E \in {Shown, SaidOnes}
  PROVE  Alike(Kept(k, E), Kept(p, E))
<1>1. PICK r \in Seq(Entry) : r = Kept(p, NoLabels)
  <2>1. Kept(p, NoLabels) \in Seq(Entry)
    BY KeptIs
  <2> QED
    BY <2>1
<1>2. E \subseteq NoLabels
  BY ByKind
<1>3. Kept(Kept(p, NoLabels), E) = Kept(p, E)
  BY <1>2, KeptTwice
<1>4. Kept(r, E) = Kept(p, E)
  BY <1>1, <1>3
<1>5. \A i \in 1..Len(k) : i \in 1..Len(r) /\ k[i].kind = r[i].kind
  BY <1>1 DEF Alike
<1>6. \A i \in 1..Len(k) : k[i] \in E <=> r[i] \in E
  BY <1>5, ByKind
<1>7. Alike(Kept(k, E), Kept(r, E))
  BY <1>1, <1>6, KeptAlike
<1> QED
  BY <1>4, <1>7

(* Labels behind entries are neither shown nor said.                        *)
LEMMA KeptLabels ==
  ASSUME NEW k \in Seq(Entry), NEW ls \in Seq(Entry), \A i \in 1..Len(ls) : ls[i].kind = "label",
         NEW E \in {Shown, SaidOnes}
  PROVE  Kept(k \o ls, E) = Kept(k, E)
<1>1. \A i \in 1..Len(ls) : ls[i] \notin E
  <2>1. \A i \in 1..Len(ls) : ls[i] \in Entry
    OBVIOUS
  <2> QED
    BY <2>1, ByKind
<1>2. Kept(ls, E) = <<>>
  BY <1>1, KeptIs
<1>3. KeptTwo(k, ls, E)
  BY KeptOfTwo
<1>4. PICK q \in Seq(Entry) : q = Kept(k, E)
  <2>1. Kept(k, E) \in Seq(Entry)
    BY KeptIs
  <2> QED
    BY <2>1
<1>5. q \o <<>> = q
  BY ConcatEmptySeq
<1> QED
  BY <1>2, <1>3, <1>4, <1>5, Zenon DEF KeptTwo

(* Three in a row, either way.                                              *)
InRow(s, t, u) == (s \o t) \o u = s \o (t \o u)

(* They are the same.                                                       *)
LEMMA RowOfThree ==
  ASSUME NEW s \in Seq(Entry), NEW t \in Seq(Entry), NEW u \in Seq(Entry)
  PROVE  InRow(s, t, u)
  BY ConcatThree DEF InRow

(* The parts of what is like a path in parts, with labels behind it.        *)
Same(q, a, b, d, e, ls, s, t, c, u) ==
  /\ a \in Seq(Entry) /\ b \in Seq(Entry) /\ d \in Entry /\ e \in Seq(Entry)
  /\ Parts(q, a, b, d, e \o ls)
  /\ Alike(b, t) /\ Alike(<<d>>, <<c>>) /\ Alike(e, u)

(* They are like the parts of the path.                                     *)
LEMMA AlikeParts ==
  ASSUME NEW r, NEW s, NEW t, NEW c, NEW u, Parts(r, s, t, c, u),
         NEW k \in Seq(Entry), Alike(k, r),
         NEW ls \in Seq(Entry), \A i \in 1..Len(ls) : ls[i].kind = "label"
  PROVE  \E a, b, d, e : Same(k \o ls, a, b, d, e, ls, s, t, c, u)
<1>1. /\ s \in Seq(Entry) /\ t \in Seq(Entry) /\ c \in Entry /\ u \in Seq(Entry)
      /\ Four(r, s, t, c, u) /\ r = ((s \o t) \o <<c>>) \o u
  <2>1. Four(r, s, t, c, u)
    BY DEF Parts
  <2>2. r = ((s \o t) \o <<c>>) \o u
    BY <2>1, FourOf
  <2> QED
    BY <2>1, <2>2, Zenon DEF Four
<1>2. PICK one \in Seq(Entry) : one = <<c>> /\ Len(one) = 1 /\ one[1] = c
  <2>1. <<c>> \in Seq(Entry) /\ Len(<<c>>) = 1 /\ <<c>>[1] = c
    BY <1>1, OneIs
  <2> QED
    BY <2>1
<1>3. PICK st \in Seq(Entry) : st = s \o t
  <2>1. s \o t \in Seq(Entry)
    BY <1>1, ConcatAt
  <2> QED
    BY <2>1
<1>4. PICK sto \in Seq(Entry) : sto = st \o one
  <2>1. st \o one \in Seq(Entry)
    BY ConcatAt
  <2> QED
    BY <2>1
<1>5. Alike(k, sto \o u)
  <2>1. r = sto \o u
    BY <1>1, <1>2, <1>3, <1>4, Zenon
  <2> QED
    BY <2>1
<1>6. PICK x \in Seq(Entry), e \in Seq(Entry) : k = x \o e /\ Alike(x, sto) /\ Alike(e, u)
  BY <1>1, <1>5, AlikeSplit
<1>7. Alike(x, st \o one)
  BY <1>4, <1>6
<1>8. PICK y \in Seq(Entry), o \in Seq(Entry) : x = y \o o /\ Alike(y, st) /\ Alike(o, one)
  BY <1>7, AlikeSplit
<1>9. Alike(y, s \o t)
  BY <1>3, <1>8
<1>10. PICK a \in Seq(Entry), b \in Seq(Entry) : y = a \o b /\ Alike(a, s) /\ Alike(b, t)
  BY <1>1, <1>9, AlikeSplit
<1>11. PICK d \in Entry : o = <<d>> /\ o[1] = d
  <2>1. Len(o) = 1
    BY <1>2, <1>8 DEF Alike
  <2>2. o[1] \in Entry
    <3>1. \A i \in 1..Len(o) : o[i] \in Entry
      OBVIOUS
    <3>2. 1 \in 1..Len(o)
      BY <2>1
    <3> QED
      BY <3>1, <3>2
  <2>3. o = <<o[1]>>
    <3>1. PICK d \in Entry : d = o[1]
      BY <2>2
    <3>2. PICK w \in Seq(Entry) : w = <<d>> /\ Len(w) = 1 /\ w[1] = d
      <4>1. <<d>> \in Seq(Entry) /\ Len(<<d>>) = 1 /\ <<d>>[1] = d
        BY OneIs
      <4> QED
        BY <4>1
    <3>3. \A i \in 1..Len(o) : i = 1
      BY <2>1
    <3>4. \A i \in 1..Len(o) : o[i] = w[i]
      BY <3>1, <3>2, <3>3
    <3>5. o = w
      BY <2>1, <3>2, <3>4, SeqEqual
    <3> QED
      BY <3>1, <3>2, <3>5
  <2> QED
    BY <2>2, <2>3
<1>12. PICK v \in Seq(Entry) : v = e \o ls
  <2>1. e \o ls \in Seq(Entry)
    BY ConcatAt
  <2> QED
    BY <2>1
<1>13. k \o ls = ((a \o b) \o <<d>>) \o v
  <2>1. k \o ls = (x \o e) \o ls
    BY <1>6
  <2>2. (x \o e) \o ls = x \o (e \o ls)
    <3>1. InRow(x, e, ls)
      BY RowOfThree
    <3> QED
      BY <3>1, Zenon DEF InRow
  <2>3. x = (a \o b) \o <<d>>
    BY <1>8, <1>10, <1>11, Zenon
  <2> QED
    BY <1>12, <2>1, <2>2, <2>3, Zenon
<1>14. Four(k \o ls, a, b, d, v)
  <2>1. Four(((a \o b) \o <<d>>) \o v, a, b, d, v)
    BY FourIs
  <2> QED
    BY <1>13, <2>1, Zenon
<1>15. d.id = c.id /\ d.kind = c.kind /\ d.ref = c.ref
  <2>1. 1 \in 1..Len(o)
    BY <1>2, <1>8 DEF Alike
  <2>2. o[1].id = one[1].id /\ o[1].kind = one[1].kind /\ o[1].ref = one[1].ref
    BY <1>8, <2>1 DEF Alike
  <2> QED
    BY <1>2, <1>11, <2>2
<1>16. IsCompaction(d)
  BY <1>15 DEF Parts, IsCompaction
<1>17. \A i \in 1..Len(a) : a[i].id # d.ref
  BY <1>10, <1>15 DEF Alike, Parts
<1>18. b # <<>> => b[1].id = d.ref
  <2> SUFFICES ASSUME b # <<>> PROVE b[1].id = d.ref
    OBVIOUS
  <2>1. Len(b) # 0 /\ Len(b) \in Nat /\ Len(t) = Len(b)
    BY <1>10, EmptySeq DEF Alike
  <2>2. 1 \in 1..Len(b) /\ t # <<>>
    BY <2>1
  <2>3. b[1].id = t[1].id
    BY <1>10, <2>2 DEF Alike
  <2> QED
    BY <1>15, <2>2, <2>3 DEF Parts
<1>19. \A i \in 1..Len(v) : ~IsCompaction(v[i])
  <2>1. /\ Len(v) = Len(e) + Len(ls)
        /\ \A i \in 1..Len(e) : v[i] = e[i]
        /\ \A i \in 1..Len(ls) : v[Len(e) + i] = ls[i]
    BY <1>12, ConcatAt
  <2>2. Len(e) \in Nat /\ Len(ls) \in Nat /\ Len(e) = Len(u)
    BY <1>6 DEF Alike
  <2>3. ASSUME NEW i \in 1..Len(v) PROVE ~IsCompaction(v[i])
    <3>1. CASE i \in 1..Len(e)
      <4>1. v[i] = e[i] /\ e[i].kind = u[i].kind /\ i \in 1..Len(u)
        BY <1>6, <2>1, <2>2, <3>1 DEF Alike
      <4> QED
        BY <4>1 DEF Parts, IsCompaction
    <3>2. CASE ~(i \in 1..Len(e))
      <4>1. PICK j \in 1..Len(ls) : i = Len(e) + j
        <5>1. i - Len(e) \in 1..Len(ls) /\ i = Len(e) + (i - Len(e))
          BY <2>1, <2>2, <3>2
        <5> QED
          BY <5>1
      <4>2. v[i].kind = "label"
        BY <2>1, <4>1
      <4> QED
        BY <4>2 DEF IsCompaction
    <3> QED
      BY <3>1, <3>2
  <2> QED
    BY <2>3
<1>20. Parts(k \o ls, a, b, d, v)
  BY <1>14, <1>16, <1>17, <1>18, <1>19 DEF Parts
<1>21. Alike(<<d>>, <<c>>)
  BY <1>2, <1>8, <1>11
<1>22. Parts(k \o ls, a, b, d, e \o ls)
  BY <1>12, <1>20
<1>23. Same(k \o ls, a, b, d, e, ls, s, t, c, u)
  BY <1>6, <1>10, <1>21, <1>22, Zenon DEF Same
<1> QED
  BY <1>23
(* Three in a row have the ids of three others.                             *)
SameIds(s, t, u, x, y, z) == IdsOf((s \o t) \o u) = IdsOf((x \o y) \o z)

(* They do if they are like them.                                           *)
LEMMA AlikeThree ==
  ASSUME NEW s \in Seq(Entry), NEW t \in Seq(Entry), NEW u \in Seq(Entry),
         NEW x \in Seq(Entry), NEW y \in Seq(Entry), NEW z \in Seq(Entry),
         Alike(s, x), Alike(t, y), Alike(u, z)
  PROVE  SameIds(s, t, u, x, y, z)
<1>1. Alike(s \o t, x \o y)
  BY AlikeBoth
<1>2. PICK a \in Seq(Entry), b \in Seq(Entry) : a = s \o t /\ b = x \o y
  <2>1. s \o t \in Seq(Entry)
    BY ConcatAt
  <2>2. x \o y \in Seq(Entry)
    BY ConcatAt
  <2> QED
    BY <2>1, <2>2
<1>3. Alike(a, b)
  BY <1>1, <1>2
<1>4. Alike(a \o u, b \o z)
  BY <1>3, AlikeBoth
<1>5. PICK v \in Seq(Entry), w \in Seq(Entry) : v = a \o u /\ w = b \o z
  <2>1. a \o u \in Seq(Entry)
    BY ConcatAt
  <2>2. b \o z \in Seq(Entry)
    BY ConcatAt
  <2> QED
    BY <2>1, <2>2
<1>6. Alike(v, w)
  BY <1>4, <1>5
<1>7. IdsOf(v) = IdsOf(w)
  BY <1>6, AlikeIds
<1> QED
  BY <1>2, <1>5, <1>7, Zenon DEF SameIds

(* The context of a fork is that of its path, unless a compaction keeps     *)
(* from a label on.                                                         *)
LEMMA ContextsAlike ==
  ASSUME NEW p \in Seq(Entry), ~FromLabel(p),
         NEW k \in Seq(Entry), Alike(k, Kept(p, NoLabels)),
         NEW ls \in Seq(Entry), \A i \in 1..Len(ls) : ls[i].kind = "label"
  PROVE  IdsOf(Context(k \o ls)) = IdsOf(Context(p))
<1>1. PICK q \in Seq(Entry) : q = k \o ls
  <2>1. k \o ls \in Seq(Entry)
    BY ConcatAt
  <2> QED
    BY <2>1
<1>2. ASSUME \A i \in 1..Len(p) : ~IsCompaction(p[i])
      PROVE  IdsOf(Context(q)) = IdsOf(Context(p))
  <2>1. \A i \in 1..Len(k) : ~IsCompaction(k[i])
    <3>1. \A m \in 1..Len(Kept(p, NoLabels)) : \E i \in 1..Len(p) :
            Kept(p, NoLabels)[m] = p[i] /\ p[i] \in NoLabels
      BY KeptIs
    <3>2. \A m \in 1..Len(Kept(p, NoLabels)) : ~IsCompaction(Kept(p, NoLabels)[m])
      BY <1>2, <3>1
    <3> QED
      BY <3>2 DEF Alike, IsCompaction
  <2>2. /\ Len(q) = Len(k) + Len(ls)
        /\ \A i \in 1..Len(k) : q[i] = k[i]
        /\ \A i \in 1..Len(ls) : q[Len(k) + i] = ls[i]
    BY <1>1, ConcatAt
  <2>3. \A i \in 1..Len(q) : ~IsCompaction(q[i])
    <3>1. ASSUME NEW i \in 1..Len(q) PROVE ~IsCompaction(q[i])
      <4>1. CASE i \in 1..Len(k)
        BY <2>1, <2>2, <4>1
      <4>2. CASE ~(i \in 1..Len(k))
        <5>1. PICK j \in 1..Len(ls) : i = Len(k) + j
          <6>1. i - Len(k) \in 1..Len(ls) /\ i = Len(k) + (i - Len(k))
            BY <2>2, <4>2
          <6> QED
            BY <6>1
        <5>2. q[i].kind = "label"
          BY <2>2, <5>1
        <5> QED
          BY <5>2 DEF IsCompaction
      <4> QED
        BY <4>1, <4>2
    <3> QED
      BY <3>1
  <2>4. Context(q) = Kept(q, Shown) /\ Context(p) = Kept(p, Shown)
    BY <1>2, <2>3, ContextPlain
  <2>5. Kept(q, Shown) = Kept(k, Shown)
    BY <1>1, KeptLabels
  <2>6. PICK a \in Seq(Entry), b \in Seq(Entry) : a = Kept(k, Shown) /\ b = Kept(p, Shown)
    <3>1. Kept(k, Shown) \in Seq(Entry)
      BY KeptIs
    <3>2. Kept(p, Shown) \in Seq(Entry)
      BY KeptIs
    <3> QED
      BY <3>1, <3>2
  <2>7. Alike(a, b)
    BY <2>6, KeptLike
  <2>8. IdsOf(a) = IdsOf(b)
    BY <2>7, AlikeIds
  <2> QED
    BY <2>4, <2>5, <2>6, <2>8
<1>3. ASSUME NEW i0 \in 1..Len(p), IsCompaction(p[i0])
      PROVE  IdsOf(Context(q)) = IdsOf(Context(p))
  <2>1. PICK s, t, c, u : Parts(p, s, t, c, u)
    BY <1>3, PartsExist
  <2>2. s \in Seq(Entry) /\ t \in Seq(Entry) /\ c \in Entry /\ u \in Seq(Entry)
    BY <2>1 DEF Parts, Four
  <2>3. Parts(Kept(p, NoLabels), Kept(s, NoLabels), Kept(t, NoLabels), c, Kept(u, NoLabels))
    BY <2>1, RetainedParts
  <2>4. PICK a, b, d, e : Same(k \o ls, a, b, d, e, ls, Kept(s, NoLabels), Kept(t, NoLabels), c, Kept(u, NoLabels))
    BY <2>3, AlikeParts
  <2>5. /\ a \in Seq(Entry) /\ b \in Seq(Entry) /\ d \in Entry /\ e \in Seq(Entry)
        /\ Parts(k \o ls, a, b, d, e \o ls)
        /\ Alike(b, Kept(t, NoLabels)) /\ Alike(<<d>>, <<c>>) /\ Alike(e, Kept(u, NoLabels))
    BY <2>4, Zenon DEF Same
  <2>6. PICK one \in Seq(Entry), two \in Seq(Entry), v \in Seq(Entry) :
          one = <<c>> /\ two = <<d>> /\ v = e \o ls
    <3>1. <<c>> \in Seq(Entry)
      BY <2>2, OneIs
    <3>2. <<d>> \in Seq(Entry)
      BY <2>5, OneIs
    <3>3. e \o ls \in Seq(Entry)
      BY <2>5, ConcatAt
    <3> QED
      BY <3>1, <3>2, <3>3
  <2>7. Context(p) = (Kept(one, Shown) \o Kept(t, Shown)) \o Kept(u, Shown)
    <3>1. Context(p) = Kept((<<c>> \o t) \o u, Shown)
      BY <2>1, ContextOf
    <3>2. KeptThree(one, t, u, Shown)
      BY <2>2, KeptOfThree
    <3> QED
      BY <2>6, <3>1, <3>2, Zenon DEF KeptThree
  <2>8. Context(q) = (Kept(two, Shown) \o Kept(b, Shown)) \o Kept(e, Shown)
    <3>1. Context(k \o ls) = Kept((<<d>> \o b) \o (e \o ls), Shown)
      BY <2>5, ContextOf
    <3>2. KeptThree(two, b, v, Shown)
      BY <2>5, KeptOfThree
    <3>3. Kept(v, Shown) = Kept(e, Shown)
      BY <2>5, <2>6, KeptLabels
    <3>4. Context(q) = Kept((two \o b) \o v, Shown)
      BY <1>1, <2>6, <3>1, Zenon
    <3> QED
      BY <3>2, <3>3, <3>4, Zenon DEF KeptThree
  <2>9. Alike(Kept(b, Shown), Kept(t, Shown)) /\ Alike(Kept(e, Shown), Kept(u, Shown))
    BY <2>2, <2>5, KeptLike
  <2>10. Alike(Kept(two, Shown), Kept(one, Shown))
    <3>1. Alike(two, one)
      BY <2>5, <2>6
    <3>2. \A i \in 1..Len(two) : i \in 1..Len(one) /\ two[i].kind = one[i].kind
      BY <3>1 DEF Alike
    <3>3. \A i \in 1..Len(two) : two[i] \in Shown <=> one[i] \in Shown
      BY <3>2, ByKind
    <3> QED
      BY <3>1, <3>3, KeptAlike
  <2>11. PICK x1 \in Seq(Entry), y1 \in Seq(Entry), z1 \in Seq(Entry) :
           x1 = Kept(two, Shown) /\ y1 = Kept(b, Shown) /\ z1 = Kept(e, Shown)
    <3>1. Kept(two, Shown) \in Seq(Entry)
      BY KeptIs
    <3>2. Kept(b, Shown) \in Seq(Entry)
      BY <2>5, KeptIs
    <3>3. Kept(e, Shown) \in Seq(Entry)
      BY <2>5, KeptIs
    <3> QED
      BY <3>1, <3>2, <3>3
  <2>12. PICK x2 \in Seq(Entry), y2 \in Seq(Entry), z2 \in Seq(Entry) :
           x2 = Kept(one, Shown) /\ y2 = Kept(t, Shown) /\ z2 = Kept(u, Shown)
    <3>1. Kept(one, Shown) \in Seq(Entry)
      BY KeptIs
    <3>2. Kept(t, Shown) \in Seq(Entry)
      BY <2>2, KeptIs
    <3>3. Kept(u, Shown) \in Seq(Entry)
      BY <2>2, KeptIs
    <3> QED
      BY <3>1, <3>2, <3>3
  <2>13. Alike(x1, x2) /\ Alike(y1, y2) /\ Alike(z1, z2)
    BY <2>9, <2>10, <2>11, <2>12
  <2>14. SameIds(x1, y1, z1, x2, y2, z2)
    BY <2>13, AlikeThree
  <2>15. Context(q) = (x1 \o y1) \o z1
    BY <2>8, <2>11, Zenon
  <2>16. Context(p) = (x2 \o y2) \o z2
    BY <2>7, <2>12, Zenon
  <2> QED
    BY <2>14, <2>15, <2>16, Zenon DEF SameIds
<1>4. IdsOf(Context(q)) = IdsOf(Context(p))
  BY <1>2, <1>3
<1> QED
  BY <1>1, <1>4

(* So is what is said.                                                      *)
LEMMA SaidAlike ==
  ASSUME NEW p \in Seq(Entry), NEW k \in Seq(Entry), Alike(k, Kept(p, NoLabels)),
         NEW ls \in Seq(Entry), \A i \in 1..Len(ls) : ls[i].kind = "label"
  PROVE  IdsOf(Said(k \o ls)) = IdsOf(Said(p))
<1>1. k \o ls \in Seq(Entry)
  BY ConcatAt
<1>2. Said(k \o ls) = Kept(k \o ls, SaidOnes)
  BY <1>1, SaidKept
<1>3. Kept(k \o ls, SaidOnes) = Kept(k, SaidOnes)
  BY KeptLabels
<1>4. Said(p) = Kept(p, SaidOnes)
  BY SaidKept
<1>5. PICK a \in Seq(Entry), b \in Seq(Entry) : a = Kept(k, SaidOnes) /\ b = Kept(p, SaidOnes)
  <2>1. Kept(k, SaidOnes) \in Seq(Entry)
    BY KeptIs
  <2>2. Kept(p, SaidOnes) \in Seq(Entry)
    BY KeptIs
  <2> QED
    BY <2>1, <2>2
<1>6. Alike(a, b)
  BY <1>5, KeptLike
<1>7. IdsOf(a) = IdsOf(b)
  BY <1>6, AlikeIds
<1> QED
  BY <1>2, <1>3, <1>4, <1>5, <1>7, Zenon

(* Labels for the labelled entries of a sequence, and for no others.        *)
Marks(ls, k, labelled) ==
  /\ \A m \in 1..Len(ls) : /\ ls[m].kind = "label"
                           /\ \E i \in 1..Len(k) : ls[m].ref = k[i].id /\ k[i].id \in labelled
  /\ \A i \in 1..Len(k) : k[i].id \in labelled => \E m \in 1..Len(ls) : ls[m].ref = k[i].id

(* The labels made again are such.                                          *)
LEMMA MarksIs ==
  ASSUME NEW k \in Seq(Entry), NEW labelled, lastId \in Nat
  PROVE  Marks(LabelsAgain(k, labelled), k, labelled)
  BY LabelsMark DEF Marks

(* A fork has the labels that the entries it retains had.                   *)
LEMMA LabelsAlike ==
  ASSUME NEW r \in Seq(Entry), \A i \in 1..Len(r) : r[i] \in NoLabels,
         NEW k \in Seq(Entry), Alike(k, r), lastId \in Nat, NEW labelled
  PROVE  Labelled(k \o LabelsAgain(k, labelled)) = labelled \cap Ids(r)
<1>1. PICK ls \in Seq(Entry) : ls = LabelsAgain(k, labelled) /\ Marks(ls, k, labelled)
  BY LabelsAre, MarksIs
<1>2. /\ \A m \in 1..Len(ls) : /\ ls[m].kind = "label"
                               /\ \E i \in 1..Len(k) : ls[m].ref = k[i].id /\ k[i].id \in labelled
      /\ \A i \in 1..Len(k) : k[i].id \in labelled => \E m \in 1..Len(ls) : ls[m].ref = k[i].id
  BY <1>1 DEF Marks
<1>3. PICK q \in Seq(Entry) : /\ q = k \o ls /\ Len(q) = Len(k) + Len(ls)
                              /\ \A i \in 1..Len(k) : q[i] = k[i]
                              /\ \A i \in 1..Len(ls) : q[Len(k) + i] = ls[i]
  <2>1. /\ k \o ls \in Seq(Entry) /\ Len(k \o ls) = Len(k) + Len(ls)
        /\ \A i \in 1..Len(k) : (k \o ls)[i] = k[i]
        /\ \A i \in 1..Len(ls) : (k \o ls)[Len(k) + i] = ls[i]
    BY ConcatAt
  <2> QED
    BY <2>1
<1>4. Len(k) \in Nat /\ Len(ls) \in Nat /\ DOMAIN q = 1..Len(q)
  OBVIOUS
<1>5. \A i \in 1..Len(k) : k[i].kind # "label" /\ k[i].kind # "unlabel"
  <2>1. \A i \in 1..Len(r) : r[i].kind # "label" /\ r[i].kind # "unlabel"
    BY DEF NoLabels, IsLabel
  <2> QED
    BY <2>1 DEF Alike
<1>6. ASSUME NEW i \in 1..Len(q)
      PROVE  \/ i \in 1..Len(k) /\ q[i] = k[i]
             \/ \E m \in 1..Len(ls) : i = Len(k) + m /\ q[i] = ls[m]
  <2>1. CASE i \in 1..Len(k)
    BY <1>3, <2>1
  <2>2. CASE ~(i \in 1..Len(k))
    <3>1. i - Len(k) \in 1..Len(ls) /\ i = Len(k) + (i - Len(k))
      BY <1>3, <1>4, <2>2
    <3>2. PICK m \in 1..Len(ls) : i = Len(k) + m
      BY <3>1
    <3> QED
      BY <1>3, <3>2
  <2> QED
    BY <2>1, <2>2
<1>7. \A i \in 1..Len(q) : q[i].kind # "unlabel"
  BY <1>2, <1>5, <1>6
<1>8. Ids(k) = Ids(r)
  BY AlikeIds
<1>9. \A x : x \in Ids(k) <=> \E i \in 1..Len(k) : x = k[i].id
  BY IdsAre
<1>10. \A x : x \in Ids(q) <=> \E i \in 1..Len(q) : x = q[i].id
  BY IdsAre
<1>11. ASSUME NEW x \in Labelled(q) PROVE x \in labelled \cap Ids(r)
  <2>1. PICK i \in 1..Len(q) : q[i].kind = "label" /\ q[i].ref = x
    BY <1>4 DEF Labelled
  <2>2. PICK m \in 1..Len(ls) : q[i] = ls[m]
    BY <1>5, <1>6, <2>1
  <2>3. PICK j \in 1..Len(k) : ls[m].ref = k[j].id /\ k[j].id \in labelled
    BY <1>2
  <2> QED
    BY <1>8, <1>9, <2>1, <2>2, <2>3
<1>12. ASSUME NEW x \in labelled \cap Ids(r) PROVE x \in Labelled(q)
  <2>1. PICK i \in 1..Len(k) : x = k[i].id
    BY <1>8, <1>9
  <2>2. PICK m \in 1..Len(ls) : ls[m].ref = k[i].id
    BY <1>2, <2>1
  <2>3. Len(k) + m \in 1..Len(q) /\ q[Len(k) + m] = ls[m] /\ ls[m].kind = "label"
    BY <1>2, <1>3, <1>4
  <2>4. i \in 1..Len(q) /\ q[i] = k[i]
    BY <1>3, <1>4
  <2>5. x \in Ids(q)
    BY <1>10, <2>1, <2>4
  <2>6. PICK w \in DOMAIN q : q[w].kind = "label" /\ q[w].ref = x
    BY <1>4, <2>1, <2>2, <2>3
  <2>7. \A j \in (w + 1)..Len(q) : q[j].kind # "unlabel"
    <3>1. w \in 1..Len(q) /\ Len(q) \in Nat
      BY <1>4
    <3>2. \A j \in (w + 1)..Len(q) : j \in 1..Len(q)
      BY <3>1
    <3> QED
      BY <1>7, <3>2
  <2> QED
    BY <2>5, <2>6, <2>7 DEF Labelled
<1>13. Labelled(q) = labelled \cap Ids(r)
  BY <1>11, <1>12
<1> QED
  BY <1>1, <1>3, <1>13
(* What a fork keeps of the path it was made of.                            *)
Keeps(es, src, id) ==
  LET path == Branch(src, id)
  IN  /\ IdsOf(Said(es)) = IdsOf(Said(path))
      /\ Labelled(es) = Labelled(src) \cap Ids(Retained(path))
      /\ FromLabel(path) \/ IdsOf(Context(es)) = IdsOf(Context(path))

(* It is what getBranch(), the filter, the new parents and the labels made  *)
(* again keep.                                                              *)
LEMMA BranchedKeeps ==
  ASSUME NEW src \in Seq(Entry), lastId \in Nat, Known(src, lastId), NEW id
  PROVE  Keeps(Branched(src, id), src, id)
<1>1. PICK path \in Seq(Entry) : path = Branch(src, id)
  <2>1. Branch(src, id) \in Seq(Entry)
    BY BranchIs
  <2> QED
    BY <2>1
<1>2. PICK r \in Seq(Entry) : r = Retained(path) /\ r = Kept(path, NoLabels)
  BY RetainedKept
<1>3. PICK k \in Seq(Entry) : k = Chained(r) /\ Alike(k, r)
  <2>1. Chained(r) \in Seq(Entry) /\ Alike(Chained(r), r)
    BY ChainedIs
  <2> QED
    BY <2>1
<1>4. PICK labelled : labelled = Labelled(src)
  OBVIOUS
<1>5. PICK ls \in Seq(Entry) : ls = LabelsAgain(k, labelled) /\ Marks(ls, k, labelled)
  BY LabelsAre, MarksIs
<1>6. \A i \in 1..Len(ls) : ls[i].kind = "label"
  BY <1>5 DEF Marks
<1>7. PICK es : es = Branched(src, id) /\ es = k \o ls
  BY <1>1, <1>2, <1>3, <1>4, <1>5 DEF Branched
<1>8. Alike(k, Kept(path, NoLabels))
  BY <1>2, <1>3
<1>9. IdsOf(Said(es)) = IdsOf(Said(path))
  <2>1. IdsOf(Said(k \o ls)) = IdsOf(Said(path))
    BY <1>6, <1>8, SaidAlike
  <2> QED
    BY <1>7, <2>1
<1>10. Labelled(es) = labelled \cap Ids(r)
  <2>1. \A i \in 1..Len(r) : r[i] \in NoLabels
    <3>1. \A m \in 1..Len(Kept(path, NoLabels)) : \E i \in 1..Len(path) :
            Kept(path, NoLabels)[m] = path[i] /\ path[i] \in NoLabels
      BY KeptIs
    <3> QED
      BY <1>2, <3>1
  <2>2. Labelled(k \o LabelsAgain(k, labelled)) = labelled \cap Ids(r)
    BY <1>3, <2>1, LabelsAlike
  <2> QED
    BY <1>5, <1>7, <2>2
<1>11. FromLabel(path) \/ IdsOf(Context(es)) = IdsOf(Context(path))
  <2>1. ~FromLabel(path) => IdsOf(Context(k \o ls)) = IdsOf(Context(path))
    BY <1>6, <1>8, ContextsAlike
  <2> QED
    BY <1>7, <2>1
<1>12. Keeps(es, src, id)
  BY <1>1, <1>2, <1>4, <1>9, <1>10, <1>11, Zenon DEF Keeps
<1> QED
  BY <1>7, <1>12

(* A fork is the session whose path was branched, and nothing else.         *)
LEMMA ForkedKeeps ==
  ASSUME IInv, SInv, NEW p \in Process, NEW id, NEW g \in File, Forks(p, id, g)
  PROVE  LET source == Loaded(disk[mem[p].file])
             path == Branch(source, id)
             fork == Branch(mem'[p].entries, mem'[p].leaf)
         IN  /\ IdsOf(Said(fork)) = IdsOf(Said(path))
             /\ Labelled(mem'[p].entries) = Labelled(source) \cap Ids(Retained(path))
             /\ FromLabel(path) \/ IdsOf(Context(fork)) = IdsOf(Context(path))
<1>1. mem'[p].file = g /\ mem[p].file # g /\ Fork(p, id, g)
  BY DEF Forks
<1>2. PICK f, src, es, s, u : Forked(p, id, g, f, src, es, s, u)
  BY <1>1, ForkMakes
<1>3. /\ src \in Seq(Entry) /\ src = Loaded(disk[mem[p].file]) /\ Known(src, lastId)
      /\ es \in Seq(Entry) /\ es = Branched(src, id) /\ Chain(es) /\ Known(es, lastId')
      /\ s = Opened(g, es) /\ u = [Opened(g, es) EXCEPT !.flushed = FALSE]
      /\ \/ Writes(p, g, <<>>, SessionLines(es), FALSE, s, mem[p])
         \/ mem' = [mem EXCEPT ![p] = u] /\ Unwritten
  BY <1>2 DEF Forked
<1>4. mem \in [Process -> Session \cup {Down}] /\ lastId \in Nat /\ lastId' \in Nat
  <2>1. lastId' \in lastId..MaxId /\ lastId \in Nat /\ MaxId \in Nat
    BY <1>1, ForkMakes, OfProcess
  <2> QED
    BY <2>1, OfProcess
<1>5. /\ s.entries = es /\ s.leaf = Tip(es)
      /\ u.entries = es /\ u.leaf = Tip(es)
  <2>1. PICK leaf : leaf = Tip(es)
    OBVIOUS
  <2>2. Opened(g, es) = [file |-> g, entries |-> es, flushed |-> TRUE, leaf |-> leaf]
    BY <2>1 DEF Opened, Tip
  <2> QED
    BY <1>3, <2>1, <2>2
<1>6. mem'[p] = s \/ mem'[p] = u
  <2>1. CASE Writes(p, g, <<>>, SessionLines(es), FALSE, s, mem[p])
    <3>1. \/ mem' = [mem EXCEPT ![p] = s]
          \/ \E z \in {mem[p], Down} : mem' = [mem EXCEPT ![p] = z]
      BY <2>1 DEF Writes
    <3>2. mem'[p] = s \/ mem'[p] = mem[p] \/ mem'[p] = Down
      BY <1>4, <3>1
    <3>3. mem'[p] # mem[p]
      BY <1>1
    <3>4. mem'[p] # Down
      BY <1>1, DownIs, FileAssumption
    <3> QED
      BY <3>2, <3>3, <3>4
  <2>2. CASE mem' = [mem EXCEPT ![p] = u]
    BY <1>4, <2>2
  <2> QED
    BY <1>3, <2>1, <2>2
<1>7. mem'[p].entries = es /\ mem'[p].leaf = Tip(es)
  BY <1>5, <1>6
<1>8. Branch(es, Tip(es)) = es
  BY <1>3, <1>4, ChainBranch
<1>9. Branch(mem'[p].entries, mem'[p].leaf) = es
  BY <1>7, <1>8
<1>10. Keeps(es, src, id)
  BY <1>3, <1>4, BranchedKeeps
<1>11. LET path == Branch(src, id)
       IN  /\ IdsOf(Said(es)) = IdsOf(Said(path))
           /\ Labelled(es) = Labelled(src) \cap Ids(Retained(path))
           /\ FromLabel(path) \/ IdsOf(Context(es)) = IdsOf(Context(path))
  BY <1>10, Zenon DEF Keeps
<1> QED
  BY <1>3, <1>7, <1>9, <1>11, Zenon

(* ForkKeeps: a fork is the path it was made of, the messages of it, with   *)
(* the labels they have; its context too, unless a compaction keeps from a  *)
(* label on (createBranchedSession()).                                      *)
THEOREM ForkIsPath == Spec => ForkKeeps
<1>1. ASSUME IInv, SInv
      PROVE  \A p \in Process, g \in File : \A id \in Ids(mem[p].entries) : Forks(p, id, g) =>
       LET source == Loaded(disk[mem[p].file])
           path == Branch(source, id)
           fork == Branch(mem'[p].entries, mem'[p].leaf)
       IN  /\ IdsOf(Said(fork)) = IdsOf(Said(path))
           /\ Labelled(mem'[p].entries) = Labelled(source) \cap Ids(Retained(path))
           /\ FromLabel(path) \/ IdsOf(Context(fork)) = IdsOf(Context(path))
  <2> TAKE p \in Process, g \in File
  <2> TAKE id \in Ids(mem[p].entries)
  <2> HAVE Forks(p, id, g)
  <2> QED
    BY <1>1, ForkedKeeps
<1> QED
  BY <1>1, InOrder, PTL DEF ForkKeeps
=============================================================================
