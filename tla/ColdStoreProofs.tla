-------------------------- MODULE ColdStoreProofs --------------------------
(***************************************************************************)
(* ColdStore for every value of the constants: its types; and, where a loop *)
(* is handed over only once its queue has drained, that the files at their  *)
(* final names are whole checkpoints, that the store is a cache of captures *)
(* by text (CheckpointCache), and that the directory stays in its budget.   *)
(***************************************************************************)
EXTENDS ColdStore, FiniteSetTheorems, WellFoundedInduction, TLAPS

(* Of the failures of what is to be proved by induction, one is the least.  *)
LEMMA LeastFailure ==
  ASSUME NEW B \in SUBSET Nat, B # {}
  PROVE  \E m \in B : \A n \in B : m <= n
<1> DEFINE R == OpToRel(<, Nat)
<1>1. IsWellFoundedOn(R, Nat)
  BY NatLessThanWellFounded
<1>2. PICK x \in B : x \in Nat
  OBVIOUS
<1>3. PICK y \in B : \A z \in B : ~(<<z, y>> \in R)
  BY <1>1, <1>2, WFMin
<1>4. \A z, w \in Nat : z < w => <<z, w>> \in R
  BY DEF OpToRel
<1> HIDE DEF R
<1>5. \A z \in B : z \in Nat /\ ~(z < y)
  BY <1>3, <1>4
<1> QED
  BY <1>5

----------------------------------------------------------------------------
(* Sums *)

(* The element the fold takes first, and what it then adds to the rest.     *)
Chosen(s) == CHOOSE x \in s : TRUE
Adds(f, g, s) == IF s = {} THEN 0 ELSE f[Chosen(s)] + g[s \ {Chosen(s)}]

(* g[s] is the sum of f over the subsets s of S that have at most n elements*)
AddsUp(f, g, S, n) == \A s \in SUBSET S : Cardinality(s) <= n => g[s] = Adds(f, g, s)

(* A part of a finite set is smaller, and smaller still without one of its *)
(* elements.                                                               *)
LEMMA Fewer ==
  ASSUME NEW S, IsFiniteSet(S), NEW s \in SUBSET S
  PROVE  /\ Cardinality(s) \in Nat /\ Cardinality(s) <= Cardinality(S) /\ IsFiniteSet(s)
         /\ s # {} => /\ Chosen(s) \in s /\ s \ {Chosen(s)} \in SUBSET S
                      /\ Cardinality(s \ {Chosen(s)}) = Cardinality(s) - 1 /\ Cardinality(s) > 0
<1>1. IsFiniteSet(s) /\ Cardinality(s) <= Cardinality(S)
  BY FS_Subset
<1>2. Cardinality(s) \in Nat /\ (Cardinality(s) = 0 <=> s = {})
  BY <1>1, FS_CardinalityType, FS_EmptySet
<1>3. s # {} => Chosen(s) \in s
  BY DEF Chosen
<1>4. s # {} => Cardinality(s \ {Chosen(s)}) = Cardinality(s) - 1
  BY <1>1, <1>3, FS_RemoveElement
<1> QED
  BY <1>1, <1>2, <1>3, <1>4

(* There is a function that adds up the parts of a finite set, for parts   *)
(* of any size.                                                            *)
LEMMA SumsExist ==
  ASSUME NEW S, IsFiniteSet(S), NEW f, NEW N \in Nat
  PROVE  \E g : AddsUp(f, g, S, N)
<1> DEFINE B == {n \in Nat : ~\E g : AddsUp(f, g, S, n)}
<1> SUFFICES ASSUME B # {} PROVE FALSE
  OBVIOUS
<1>1. PICK n \in B : \A m \in B : n <= m
  BY LeastFailure
<1>2. CASE n = 0
  <2> DEFINE g == [s \in SUBSET S |-> 0]
  <2>1. AddsUp(f, g, S, 0)
    <3> SUFFICES ASSUME NEW s \in SUBSET S, Cardinality(s) <= 0 PROVE g[s] = Adds(f, g, s)
      BY DEF AddsUp
    <3>1. Cardinality(s) \in Nat /\ (s # {} => Cardinality(s) > 0)
      BY Fewer
    <3>2. s = {}
      BY <3>1
    <3> QED
      BY <3>2 DEF Adds
  <2> QED
    BY <1>1, <1>2, <2>1
<1>3. CASE n # 0
  <2>1. n - 1 \in Nat /\ n - 1 \notin B
    BY <1>1, <1>3
  <2>2. PICK g : AddsUp(f, g, S, n - 1)
    BY <2>1
  <2> DEFINE h == [s \in SUBSET S |-> Adds(f, g, s)]
  <2>3. ASSUME NEW s \in SUBSET S, Cardinality(s) <= n PROVE h[s] = Adds(f, h, s)
    <3>1. CASE s = {}
      BY <3>1 DEF Adds
    <3>2. CASE s # {}
      <4> DEFINE r == s \ {Chosen(s)}
      <4>1. r \in SUBSET S /\ Cardinality(r) <= n - 1
        BY <2>1, <2>3, <3>2, Fewer
      <4>2. g[r] = Adds(f, g, r)
        BY <2>2, <4>1 DEF AddsUp
      <4>3. h[r] = Adds(f, g, r)
        BY <4>1
      <4>4. h[s] = f[Chosen(s)] + g[r] /\ Adds(f, h, s) = f[Chosen(s)] + h[r]
        BY <3>2 DEF Adds
      <4> QED
        BY <4>2, <4>3, <4>4
    <3> QED
      BY <3>1, <3>2
  <2>4. AddsUp(f, h, S, n)
    BY <2>3 DEF AddsUp
  <2> QED
    BY <1>1, <2>4
<1> QED
  BY <1>2, <1>3

(* The sum is what the recursion says.                                      *)
LEMMA SumUnfolds ==
  ASSUME NEW S, IsFiniteSet(S), NEW f
  PROVE  \E g : AddsUp(f, g, S, Cardinality(S)) /\ SumFunctionOnSet(f, S) = g[S]
<1> DEFINE Is(g) == g = [s \in SUBSET S |-> IF s = {} THEN 0 ELSE f[CHOOSE x \in s : TRUE] + g[s \ {CHOOSE x \in s : TRUE}]]
           iter == CHOOSE g : Is(g)
<1>1. SumFunctionOnSet(f, S) = iter[S]
  BY DEF SumFunctionOnSet, FoldFunctionOnSet, MapThenFoldSet
<1>2. \E g : Is(g)
  <2>1. PICK g : AddsUp(f, g, S, Cardinality(S))
    BY SumsExist, Fewer
  <2> DEFINE h == [s \in SUBSET S |-> g[s]]
  <2>2. \A s \in SUBSET S : g[s] = Adds(f, g, s)
    BY <2>1, Fewer DEF AddsUp
  <2>3. \A s \in SUBSET S : h[s] = IF s = {} THEN 0 ELSE f[CHOOSE x \in s : TRUE] + h[s \ {CHOOSE x \in s : TRUE}]
    BY <2>2 DEF Adds, Chosen
  <2>4. Is(h)
    BY <2>3
  <2> QED
    BY <2>4
<1>3. Is(iter)
  <2> HIDE DEF Is
  <2> QED
    BY <1>2
<1>4. \A s \in SUBSET S : iter[s] = Adds(f, iter, s)
  <2> HIDE DEF iter
  <2> QED
    BY <1>3 DEF Adds, Chosen
<1> HIDE DEF iter
<1>5. AddsUp(f, iter, S, Cardinality(S))
  BY <1>4 DEF AddsUp
<1> QED
  BY <1>1, <1>5

(* Two sums over the same elements of functions that agree on them, the     *)
(* second within a larger set.                                              *)
LEMMA AgreeSums ==
  ASSUME NEW S, IsFiniteSet(S), NEW T \in SUBSET S, NEW f, NEW e, NEW g, NEW h,
         \A x \in T : f[x] = e[x],
         AddsUp(f, g, T, Cardinality(T)), AddsUp(e, h, S, Cardinality(S))
  PROVE  \A s \in SUBSET T : g[s] = h[s]
<1> DEFINE Sizes == {Cardinality(s) : s \in {r \in SUBSET T : g[r] # h[r]}}
<1> SUFFICES ASSUME Sizes # {} PROVE FALSE
  OBVIOUS
<1>0. IsFiniteSet(T)
  BY FS_Subset
<1>1. Sizes \subseteq Nat
  <2>1. \A s \in SUBSET T : Cardinality(s) \in Nat
    BY <1>0, Fewer
  <2> QED
    BY <2>1
<1>2. PICK n \in Sizes : \A m \in Sizes : n <= m
  BY <1>1, LeastFailure
<1>3. PICK s \in SUBSET T : g[s] # h[s] /\ Cardinality(s) = n
  BY <1>2
<1>4. g[s] = Adds(f, g, s) /\ h[s] = Adds(e, h, s)
  <2>1. Cardinality(s) <= Cardinality(T) /\ Cardinality(s) <= Cardinality(S)
    BY <1>0, Fewer
  <2> QED
    BY <2>1 DEF AddsUp
<1>5. s # {}
  BY <1>3, <1>4 DEF Adds
<1> DEFINE r == s \ {Chosen(s)}
<1>6. r \in SUBSET T /\ Cardinality(r) = n - 1 /\ n \in Nat /\ Chosen(s) \in T
  BY <1>0, <1>3, <1>5, Fewer
<1>7. g[r] = h[r]
  <2>1. Cardinality(r) \notin Sizes
    BY <1>1, <1>2, <1>6
  <2> QED
    BY <1>6, <2>1
<1>8. g[s] = f[Chosen(s)] + g[r] /\ h[s] = e[Chosen(s)] + h[r]
  BY <1>4, <1>5 DEF Adds
<1> QED
  BY <1>3, <1>6, <1>7, <1>8

(* Sums of numbers are numbers, whatever element is taken first.            *)
LEMMA ChosenFirst ==
  ASSUME NEW S, IsFiniteSet(S), NEW f, \A x \in S : f[x] \in Nat,
         NEW g, AddsUp(f, g, S, Cardinality(S))
  PROVE  \A s \in SUBSET S : g[s] \in Nat /\ \A x \in s : g[s] = f[x] + g[s \ {x}]
<1> DEFINE Bad(s) == ~(g[s] \in Nat /\ \A x \in s : g[s] = f[x] + g[s \ {x}])
           Sizes == {Cardinality(s) : s \in {r \in SUBSET S : Bad(r)}}
<1> SUFFICES ASSUME Sizes # {} PROVE FALSE
  OBVIOUS
<1>1. Sizes \subseteq Nat
  <2>1. \A s \in SUBSET S : Cardinality(s) \in Nat
    BY Fewer
  <2> QED
    BY <2>1
<1>2. PICK n \in Sizes : \A m \in Sizes : n <= m
  BY <1>1, LeastFailure
<1>3. PICK s \in SUBSET S : Bad(s) /\ Cardinality(s) = n
  BY <1>2
<1>4. \A r \in SUBSET S : r # s /\ r \subseteq s => ~Bad(r)
  <2> SUFFICES ASSUME NEW r \in SUBSET S, r # s, r \subseteq s PROVE ~Bad(r)
    OBVIOUS
  <2>1. IsFiniteSet(s) /\ r \in SUBSET s /\ Cardinality(r) \in Nat /\ Cardinality(s) \in Nat
    BY Fewer
  <2>2. Cardinality(r) <= Cardinality(s) /\ Cardinality(r) # Cardinality(s)
    BY <2>1, FS_Subset
  <2>3. Cardinality(r) \notin Sizes
    BY <1>1, <1>2, <1>3, <2>1, <2>2
  <2> QED
    BY <2>3
<1>5. g[s] = Adds(f, g, s)
  BY Fewer DEF AddsUp
<1>6. CASE s = {}
  BY <1>3, <1>5, <1>6 DEF Adds
<1>7. CASE s # {}
  <2> DEFINE y == Chosen(s)
             r == s \ {y}
  <2>1. y \in s /\ r \in SUBSET S /\ r \subseteq s /\ r # s /\ f[y] \in Nat
    BY <1>7, Fewer
  <2>2. ~Bad(r)
    BY <1>4, <2>1
  <2>3. g[s] = f[y] + g[r] /\ g[r] \in Nat
    BY <1>5, <1>7, <2>2 DEF Adds
  <2> HIDE DEF y
  <2>4. ASSUME NEW x \in s PROVE g[s] = f[x] + g[s \ {x}]
    <3>1. CASE x = y
      BY <2>3, <3>1
    <3>2. CASE x # y
      <4> DEFINE q == s \ {x}
                 b == r \ {x}
      <4>1. q \in SUBSET S /\ q \subseteq s /\ q # s /\ y \in q /\ q \ {y} = b
        BY <2>1, <3>2
      <4>2. x \in r /\ b \in SUBSET S /\ b \subseteq s /\ b # s
        BY <2>1, <3>2
      <4>3. ~Bad(q) /\ ~Bad(b)
        BY <1>4, <4>1, <4>2
      <4>4. g[r] = f[x] + g[b]
        BY <2>2, <4>2
      <4>5. g[q] = f[y] + g[b] /\ g[b] \in Nat
        BY <4>1, <4>3
      <4>6. f[x] \in Nat
        OBVIOUS
      <4> HIDE DEF q, b, r
      <4>7. g[s] = f[x] + g[q]
        BY <2>1, <2>3, <4>4, <4>5, <4>6
      <4> QED
        BY <4>7 DEF q
    <3> QED
      BY <3>1, <3>2
  <2>5. g[s] \in Nat
    BY <2>1, <2>3
  <2> QED
    BY <1>3, <2>4, <2>5
<1> QED
  BY <1>6, <1>7

(* Sums over finite sets: of nothing, with one more, of the same, of fewer. *)
LEMMA SumOfNothing ==
  ASSUME NEW f
  PROVE  SumFunctionOnSet(f, {}) = 0
<1>1. IsFiniteSet({}) /\ Cardinality({}) = 0
  BY FS_EmptySet
<1>2. PICK g : AddsUp(f, g, {}, 0) /\ SumFunctionOnSet(f, {}) = g[{}]
  BY <1>1, SumUnfolds
<1>3. g[{}] = Adds(f, g, {})
  BY <1>1, <1>2 DEF AddsUp
<1> QED
  BY <1>2, <1>3 DEF Adds

(* Functions that agree on a set have the same sum over it.                *)
LEMMA SumOfSame ==
  ASSUME NEW S, IsFiniteSet(S), NEW f, NEW e, \A x \in S : f[x] = e[x]
  PROVE  SumFunctionOnSet(f, S) = SumFunctionOnSet(e, S)
<1>1. PICK g : AddsUp(f, g, S, Cardinality(S)) /\ SumFunctionOnSet(f, S) = g[S]
  BY SumUnfolds
<1>2. PICK h : AddsUp(e, h, S, Cardinality(S)) /\ SumFunctionOnSet(e, S) = h[S]
  BY SumUnfolds
<1>3. S \in SUBSET S
  OBVIOUS
<1>4. \A s \in SUBSET S : g[s] = h[s]
  BY <1>1, <1>2, <1>3, AgreeSums
<1> QED
  BY <1>1, <1>2, <1>3, <1>4

(* The sum over a set is that of any of its elements and of the others.    *)
LEMMA SumWithMore ==
  ASSUME NEW S, IsFiniteSet(S), NEW f, \A y \in S : f[y] \in Nat, NEW x \in S
  PROVE  /\ SumFunctionOnSet(f, S) = f[x] + SumFunctionOnSet(f, S \ {x})
         /\ SumFunctionOnSet(f, S) \in Nat /\ SumFunctionOnSet(f, S \ {x}) \in Nat
<1> DEFINE T == S \ {x}
<1>1. T \in SUBSET S /\ S \in SUBSET S
  OBVIOUS
<1>2. IsFiniteSet(T)
  BY <1>1, FS_Subset
<1>3. PICK g : AddsUp(f, g, S, Cardinality(S)) /\ SumFunctionOnSet(f, S) = g[S]
  BY SumUnfolds
<1>4. PICK h : AddsUp(f, h, T, Cardinality(T)) /\ SumFunctionOnSet(f, T) = h[T]
  BY <1>2, SumUnfolds
<1>5. h[T] = g[T]
  BY <1>1, <1>3, <1>4, AgreeSums
<1>6. \A s \in SUBSET S : g[s] \in Nat /\ \A y \in s : g[s] = f[y] + g[s \ {y}]
  BY <1>3, ChosenFirst
<1>7. g[S] = f[x] + g[T] /\ g[S] \in Nat /\ g[T] \in Nat
  BY <1>1, <1>6
<1> QED
  BY <1>3, <1>4, <1>5, <1>7

(* A sum of naturals is one.                                               *)
LEMMA SumType ==
  ASSUME NEW S, IsFiniteSet(S), NEW f, \A y \in S : f[y] \in Nat
  PROVE  SumFunctionOnSet(f, S) \in Nat
<1>1. CASE S = {}
  BY <1>1, SumOfNothing
<1>2. CASE S # {}
  BY <1>2, SumWithMore
<1> QED
  BY <1>1, <1>2

(* A sum of naturals over fewer elements is no larger.                     *)
LEMMA SumOfFewer ==
  ASSUME NEW S, IsFiniteSet(S), NEW f, \A y \in S : f[y] \in Nat, NEW T \in SUBSET S
  PROVE  SumFunctionOnSet(f, T) <= SumFunctionOnSet(f, S)
<1> DEFINE Worse == {U \in SUBSET S : ~(SumFunctionOnSet(f, U) <= SumFunctionOnSet(f, S))}
           Sizes == {Cardinality(S \ U) : U \in Worse}
<1> SUFFICES ASSUME Sizes # {} PROVE FALSE
  OBVIOUS
<1>1. \A U \in SUBSET S : IsFiniteSet(U) /\ Cardinality(U) \in Nat
  BY Fewer
<1>2. Sizes \subseteq Nat
  <2>1. \A U \in SUBSET S : S \ U \in SUBSET S
    OBVIOUS
  <2> QED
    BY <1>1, <2>1
<1>3. PICK n \in Sizes : \A m \in Sizes : n <= m
  BY <1>2, LeastFailure
<1>4. PICK U \in Worse : Cardinality(S \ U) = n
  BY <1>3
<1>5. CASE U = S
  <2>1. SumFunctionOnSet(f, S) \in Nat
    BY SumType
  <2> QED
    BY <1>4, <1>5, <2>1
<1>6. CASE U # S
  <2>1. PICK x \in S : x \notin U
    BY <1>4, <1>6
  <2> DEFINE W == U \cup {x}
  <2>2. W \in SUBSET S /\ x \in W /\ W \ {x} = U /\ IsFiniteSet(W)
    BY <1>1, <1>4, <2>1
  <2>3. Cardinality(S \ W) = n - 1 /\ n \in Nat
    <3>1. S \ W = (S \ U) \ {x} /\ x \in S \ U /\ IsFiniteSet(S \ U)
      BY <1>1, <2>1
    <3>2. Cardinality((S \ U) \ {x}) = Cardinality(S \ U) - 1
      BY <3>1, FS_RemoveElement
    <3> QED
      BY <1>2, <1>4, <3>1, <3>2
  <2>4. W \notin Worse
    <3>1. ASSUME n - 1 \in Sizes PROVE FALSE
      <4>1. n <= n - 1
        BY <1>3, <3>1
      <4> QED
        BY <2>3, <4>1
    <3> QED
      BY <2>3, <3>1
  <2>5. /\ SumFunctionOnSet(f, W) = f[x] + SumFunctionOnSet(f, W \ {x})
        /\ SumFunctionOnSet(f, W \ {x}) \in Nat
    <3>1. \A y \in W : f[y] \in Nat
      BY <2>2
    <3> QED
      BY <2>2, <3>1, SumWithMore
  <2>6. SumFunctionOnSet(f, S) \in Nat /\ f[x] \in Nat
    BY SumType
  <2>7. SumFunctionOnSet(f, W) <= SumFunctionOnSet(f, S)
    BY <2>2, <2>4
  <2>8. SumFunctionOnSet(f, W) = f[x] + SumFunctionOnSet(f, U) /\ SumFunctionOnSet(f, U) \in Nat
    BY <2>2, <2>5
  <2>9. SumFunctionOnSet(f, U) <= SumFunctionOnSet(f, S)
    BY <2>6, <2>7, <2>8
  <2> QED
    BY <1>4, <2>9
<1> QED
  BY <1>5, <1>6

(* A sum of ones counts them.                                              *)
LEMMA SumOfOnes ==
  ASSUME NEW S, IsFiniteSet(S), NEW f, \A y \in S : f[y] = 1
  PROVE  SumFunctionOnSet(f, S) = Cardinality(S)
<1> DEFINE Worse == {U \in SUBSET S : SumFunctionOnSet(f, U) # Cardinality(U)}
           Sizes == {Cardinality(U) : U \in Worse}
<1> SUFFICES ASSUME Sizes # {} PROVE FALSE
  OBVIOUS
<1>1. \A U \in SUBSET S : IsFiniteSet(U) /\ Cardinality(U) \in Nat
  BY Fewer
<1>2. Sizes \subseteq Nat
  BY <1>1
<1>3. PICK n \in Sizes : \A m \in Sizes : n <= m
  BY <1>2, LeastFailure
<1>4. PICK U \in Worse : Cardinality(U) = n
  BY <1>3
<1>5. U # {}
  BY <1>4, SumOfNothing, FS_EmptySet
<1>6. PICK x \in U : TRUE
  BY <1>5
<1> DEFINE W == U \ {x}
<1>7. W \in SUBSET S /\ Cardinality(W) = n - 1 /\ n \in Nat
  BY <1>1, <1>2, <1>4, <1>6, FS_RemoveElement
<1>8. SumFunctionOnSet(f, W) = n - 1
  <2>1. Cardinality(W) \notin Sizes
    BY <1>2, <1>3, <1>7
  <2>2. W \notin Worse
    BY <2>1
  <2> QED
    BY <1>7, <2>2
<1>9. SumFunctionOnSet(f, U) = f[x] + SumFunctionOnSet(f, W)
  <2>1. IsFiniteSet(U) /\ \A y \in U : f[y] \in Nat
    BY <1>1, <1>4
  <2> QED
    BY <1>6, <2>1, SumWithMore
<1>10. f[x] = 1
  BY <1>4, <1>6
<1>11. SumFunctionOnSet(f, U) = n
  BY <1>7, <1>8, <1>9, <1>10
<1> QED
  BY <1>4, <1>11

-----------------------------------------------------------------------------
Step(l) ==
  \/ Construct(l) \/ Drop(l) \/ Retire(l)
  \/ BeginFlush(l) \/ EndFlush(l)
  \/ Open(l) \/ OpenFails(l) \/ Write(l) \/ WriteFails(l) \/ Publish(l)
  \/ \E s \in Snapshot : Enqueue(l, s)
  \/ \E p \in Prompt : LoadNothing(l, p) \/ LoadHit(l, p) \/ LoadDrops(l, p)

(* What open() leaves is a file.                                           *)
LEMMA EmptyFile == Empty \in File
BY BoundAssumption DEF Empty, File

(* A descriptor is open only for the head of the queue, and only then has   *)
(* a position been reached: what Write needs to store a capture.            *)
HeadOpen ==
  \A l \in Loop : /\ fd[l] # NoInode => queue[l] # <<>>
                  /\ fd[l] = NoInode => next[l] = 1

TypeInv == TypeOK /\ HeadOpen

(* The head of a queue settles: its descriptor is closed, or was never     *)
(* opened.                                                                 *)
LEMMA SettleStep ==
  ASSUME TypeInv, NEW l \in Loop, queue[l] # <<>>, Settle(l)
  PROVE  /\ queue' \in [Loop -> Seq(Snapshot)]
         /\ fd' \in [Loop -> Inode \cup {NoInode}]
         /\ next' \in [Loop -> 1..4]
         /\ HeadOpen'
<1>1. Tail(queue[l]) \in Seq(Snapshot)
  BY DEF TypeInv, TypeOK
<1> QED
  BY <1>1 DEF Settle, TypeInv, TypeOK, HeadOpen

(* Next, split into the steps of one loop and the others.                   *)
LEMMA NextSplit ==
  ASSUME Next
  PROVE  \/ Crash
         \/ \E l \in Loop : Step(l)
         \/ \E t \in Text : GrowOld(t)
BY Zenon DEF Next, Step

(* Every step keeps the types, and what Write relies on.                   *)
LEMMA TypeStep == TypeInv /\ [Next]_vars => TypeInv'
<1> SUFFICES ASSUME TypeInv, [Next]_vars PROVE TypeInv'
    OBVIOUS
<1> USE BoundAssumption, InodeAssumption, SnapshotAssumption
<1>1. CASE Crash
  BY <1>1 DEF Crash, TypeInv, TypeOK, HeadOpen
<1>2. ASSUME NEW l \in Loop, Step(l) PROVE TypeInv'
  <2>1. CASE Construct(l)
    BY <2>1 DEF Construct, TypeInv, TypeOK, HeadOpen
  <2>2. CASE Drop(l)
    BY <2>2 DEF Drop, TypeInv, TypeOK, HeadOpen
  <2>3. CASE Retire(l)
    BY <2>3 DEF Retire, TypeInv, TypeOK, HeadOpen
  <2>4. CASE BeginFlush(l)
    BY <2>4 DEF BeginFlush, TypeInv, TypeOK, HeadOpen
  <2>5. CASE EndFlush(l)
    BY <2>5 DEF EndFlush, TypeInv, TypeOK, HeadOpen
  <2>6. CASE Open(l)
    <3> DEFINE s == Head(queue[l])
    <3>1. /\ queue[l] # <<>> /\ s \in Snapshot /\ s.text \in Text
      BY <2>6 DEF Open, TypeInv, TypeOK
    <3>2. PICK i \in Inode : /\ tmp' = [tmp EXCEPT ![s.text] = i]
                             /\ data' = [data EXCEPT ![i] = Empty]
                             /\ fd' = [fd EXCEPT ![l] = i]
      BY <2>6 DEF Open
    <3>3. final' \in [Text -> Inode \cup {NoInode}]
      BY <2>6 DEF Open, TypeInv, TypeOK
    <3>4. data' \in [Inode -> File]
      BY <3>2, EmptyFile DEF TypeInv, TypeOK
    <3>5. UNCHANGED <<phase, queue, next, loaded>>
      BY <2>6 DEF Open
    <3> QED
      BY <3>1, <3>2, <3>3, <3>4, <3>5 DEF TypeInv, TypeOK, HeadOpen
  <2>7. CASE Write(l)
    <3>1. Head(queue[l]) \in Snapshot
      BY <2>7 DEF Write, TypeInv, TypeOK, HeadOpen
    <3> DEFINE f == data[fd[l]]
    <3>2. data' \in [Inode -> File]
      <4>1. f \in File /\ fd[l] \in Inode /\ next[l] \in Block
        BY <2>7 DEF Write, TypeInv, TypeOK
      <4>2. [f EXCEPT !.blk = [f.blk EXCEPT ![next[l]] = Head(queue[l])]] \in File
        <5> DEFINE s == Head(queue[l])
                   b == next[l]
        <5>1. f \in File /\ b \in Block /\ s \in Snapshot
          BY <3>1, <4>1
        <5> HIDE DEF f, s, b
        <5>2. [f EXCEPT !.blk = [f.blk EXCEPT ![b] = s]] \in File
          BY <5>1 DEF File
        <5> QED
          BY <5>2 DEF f, s, b
      <4> DEFINE g == [f EXCEPT !.blk = [f.blk EXCEPT ![next[l]] = Head(queue[l])]]
      <4>3. data' = [data EXCEPT ![fd[l]] = g]
        BY <2>7 DEF Write
      <4>4. g \in File
        BY <4>2
      <4> HIDE DEF g
      <4> QED
        BY <4>1, <4>3, <4>4 DEF TypeInv, TypeOK
    <3>3. next' \in [Loop -> 1..4]
      BY <2>7 DEF Write, TypeInv, TypeOK, Block
    <3> QED
      BY <2>7, <3>2, <3>3 DEF Write, TypeInv, TypeOK, HeadOpen
  <2>8. CASE WriteFails(l)
    <3>1. Head(queue[l]).text \in Text /\ queue[l] # <<>>
      BY <2>8 DEF WriteFails, TypeInv, TypeOK, HeadOpen
    <3>2. tmp' \in [Text -> Inode \cup {NoInode}]
      BY <2>8, <3>1 DEF WriteFails, TypeInv, TypeOK
    <3> QED
      BY <2>8, <3>1, <3>2, SettleStep DEF WriteFails, TypeInv, TypeOK
  <2>9. CASE Publish(l)
    <3> DEFINE t == Head(queue[l]).text
    <3>1. t \in Text /\ queue[l] # <<>>
      BY <2>9 DEF Publish, TypeInv, TypeOK, HeadOpen
    <3>2. /\ tmp' \in [Text -> Inode \cup {NoInode}]
          /\ final' \in [Text -> Inode \cup {NoInode}]
      BY <2>9, <3>1 DEF Publish, TypeInv, TypeOK
    <3> QED
      BY <2>9, <3>1, <3>2, SettleStep DEF Publish, TypeInv, TypeOK
  <2>10. ASSUME NEW s \in Snapshot, Enqueue(l, s) PROVE TypeInv'
    <3>1. queue' \in [Loop -> Seq(Snapshot)] /\ queue'[l] # <<>>
      BY <2>10 DEF Enqueue, TypeInv, TypeOK
    <3> QED
      BY <2>10, <3>1 DEF Enqueue, TypeInv, TypeOK, HeadOpen
  <2>11. ASSUME NEW p \in Prompt, LoadNothing(l, p) PROVE TypeInv'
    BY <2>11 DEF LoadNothing, TypeInv, TypeOK, HeadOpen
  <2>12. ASSUME NEW p \in Prompt, LoadHit(l, p) PROVE TypeInv'
    <3>1. PICK t \in Text :
            /\ final[t] \in Inode
            /\ LET file == data[final[t]] IN
               data' = [data EXCEPT ![final[t]] =
                  [file EXCEPT !.hits = IF @ < MaxHits THEN @ + 1 ELSE @, !.age = 0]]
      BY <2>12 DEF LoadHit, Longest, Candidates, Readable, Listed, TypeInv, TypeOK
    <3> DEFINE f == data[final[t]]
               h == IF f.hits < MaxHits THEN f.hits + 1 ELSE f.hits
    <3>2. f \in File /\ h \in 0..MaxHits /\ 0 \in 0..MaxAge
      BY <3>1 DEF TypeInv, TypeOK, File
    <3>3. [[f EXCEPT !.hits = h] EXCEPT !.age = 0] \in File
      BY <3>2 DEF File
    <3>4. data' \in [Inode -> File]
      BY <3>1, <3>3 DEF TypeInv, TypeOK
    <3> QED
      BY <2>12, <3>4 DEF LoadHit, TypeInv, TypeOK, HeadOpen
  <2>13. ASSUME NEW p \in Prompt, LoadDrops(l, p) PROVE TypeInv'
    BY <2>13 DEF LoadDrops, Longest, TypeInv, TypeOK, HeadOpen
  <2>14. CASE OpenFails(l)
    <3>1. final' \in [Text -> Inode \cup {NoInode}]
      BY <2>14 DEF OpenFails, TypeInv, TypeOK
    <3>2. queue[l] # <<>> /\ Settle(l) /\ UNCHANGED <<tmp, data, phase, loaded>>
      BY <2>14 DEF OpenFails
    <3> QED
      BY <3>1, <3>2, SettleStep DEF TypeInv, TypeOK
  <2> QED
    BY <1>2, <2>1, <2>2, <2>3, <2>4, <2>5, <2>6, <2>7, <2>8, <2>9, <2>10,
       <2>11, <2>12, <2>13, <2>14 DEF Step
<1>3. ASSUME NEW t \in Text, GrowOld(t) PROVE TypeInv'
  <2>1. final[t] \in Inode
    BY <1>3 DEF GrowOld, TypeInv, TypeOK
  <2> DEFINE f == data[final[t]]
  <2>2. f \in File /\ f.age + 1 \in 0..MaxAge
    BY <1>3, <2>1 DEF GrowOld, TypeInv, TypeOK, File
  <2>3. data' \in [Inode -> File]
    <3>1. [f EXCEPT !.age = f.age + 1] \in File
      BY <2>2 DEF File
    <3> QED
      BY <1>3, <2>1, <3>1 DEF GrowOld, TypeInv, TypeOK
  <2> QED
    BY <1>3, <2>3 DEF GrowOld, TypeInv, TypeOK, HeadOpen
<1>4. CASE UNCHANGED vars
  BY <1>4 DEF vars, TypeInv, TypeOK, HeadOpen
<1> QED
  BY <1>1, <1>2, <1>3, <1>4, NextSplit

(* They hold when the process starts, over any files of earlier versions.  *)
LEMMA TypeInit == Init => TypeInv
<1> SUFFICES ASSUME Init PROVE TypeInv
  OBVIOUS
<1>1. PICK place \in [Truncated -> Inode] :
        /\ \A t, u \in Truncated : place[t] = place[u] => t = u
        /\ final = [t \in Text |-> IF t \in Truncated THEN place[t] ELSE NoInode]
        /\ data = [i \in Inode |->
                     IF \E t \in Truncated : place[t] = i
                     THEN LegacyFile(CHOOSE t \in Truncated : place[t] = i)
                     ELSE Empty]
  BY DEF Init
<1>2. \A t \in Truncated : LegacyFile(t) \in File
  <2> TAKE t \in Truncated
  <2> DEFINE s == CHOOSE s \in Snapshot : s.text = t
  <2>1. s \in Snapshot
    BY TruncatedAssumption
  <2> DEFINE blk == [b \in Block |-> IF b = Payload THEN NoSnap ELSE s]
  <2>2. blk \in [Block -> Snapshot \cup {NoSnap}]
    BY <2>1
  <2>3. [Empty EXCEPT !.blk = blk] \in File
    <3> HIDE DEF blk
    <3> QED BY <2>2, EmptyFile DEF File
  <2> QED
    BY <2>3 DEF LegacyFile
<1>3. \A i \in Inode : (\E t \in Truncated : place[t] = i) =>
        (CHOOSE t \in Truncated : place[t] = i) \in Truncated
  OBVIOUS
<1>4. data \in [Inode -> File]
  BY <1>1, <1>2, <1>3, EmptyFile
<1>5. final \in [Text -> Inode \cup {NoInode}]
  BY <1>1
<1>6. TypeOK
  <2>1. tmp \in [Text -> Inode \cup {NoInode}] /\ fd \in [Loop -> Inode \cup {NoInode}]
    BY DEF Init
  <2>2. queue \in [Loop -> Seq(Snapshot)] /\ next \in [Loop -> 1..4]
    BY DEF Init
  <2>3. phase \in [Loop -> {"none", "live", "flushing", "dropped"}] /\ DOMAIN loaded = Loop
    BY DEF Init
  <2> QED
    BY <1>4, <1>5, <2>1, <2>2, <2>3 DEF TypeOK
<1>7. HeadOpen
  BY DEF Init, HeadOpen
<1> QED
  BY <1>6, <1>7 DEF TypeInv

(* ColdStore keeps its types whatever its callers and the file system do.   *)
THEOREM TypeCorrect == Spec => []TypeOK
<1>1. TypeInv => TypeOK
  BY DEF TypeInv
<1> QED
  BY <1>1, TypeInit, TypeStep, PTL DEF Spec

----------------------------------------------------------------------------
(* Only whole checkpoints, when handovers are drained *)

(* When the process starts, nothing is whole but what is known to be       *)
(* truncated.                                                              *)
LEMMA SafeInit == Init => SafeInv
<1> SUFFICES ASSUME Init PROVE SafeInv
  OBVIOUS
<1>1. OneWriter
  BY DEF Init, OneWriter, Busy
<1>2. WrittenSoFar /\ WriteOwnsItsTmp /\ Unaliased
  BY DEF Init, WrittenSoFar, WriteOwnsItsTmp, Unaliased
<1>3. OnlyWholeCheckpoints
  BY DEF Init, OnlyWholeCheckpoints
<1> QED
  BY <1>1, <1>2, <1>3 DEF SafeInv

(* The step leaves the blocks of every file alone.                          *)
SameBlocks == \A i \in Inode : data'[i].blk = data[i].blk

(* Files keep their blocks, final names are only unbound: what is whole     *)
(* stays whole.                                                             *)
LEMMA StillWhole ==
  ASSUME TypeInv, OnlyWholeCheckpoints, SameBlocks,
         \A t \in Text : final'[t] \in {final[t], NoInode}
  PROVE  OnlyWholeCheckpoints'
<1> SUFFICES ASSUME NEW t \in Text \ Truncated, final'[t] # NoInode
             PROVE  \E s \in Snapshot : \A b \in Block : data'[final'[t]].blk[b] = s
  BY DEF OnlyWholeCheckpoints, Complete, Holds
<1>1. final'[t] = final[t] /\ final[t] \in Inode
  BY DEF TypeInv, TypeOK
<1>2. PICK s \in Snapshot : Holds(final[t], s)
  BY <1>1 DEF OnlyWholeCheckpoints, Complete
<1>3. \A b \in Block : data'[final[t]].blk[b] = s
  BY <1>1, <1>2 DEF SameBlocks, Holds
<1> QED
  BY <1>1, <1>3

(* A step that touches no tmp name, no queue and no descriptor.             *)
LEMMA ReaderStep ==
  ASSUME TypeInv, SafeInv, SameBlocks,
         UNCHANGED <<tmp, queue, fd, next>>,
         \A t \in Text : final'[t] \in {final[t], NoInode},
         OneWriter'
  PROVE  SafeInv'
<1>1. OnlyWholeCheckpoints'
  BY StillWhole DEF SafeInv
<1>2. WrittenSoFar'
  BY DEF SafeInv, WrittenSoFar, SameBlocks, TypeInv, TypeOK
<1>3. WriteOwnsItsTmp'
  BY DEF SafeInv, WriteOwnsItsTmp
<1>4. Unaliased'
  BY InodeAssumption DEF SafeInv, Unaliased, TypeInv, TypeOK
<1> QED
  BY <1>1, <1>2, <1>3, <1>4 DEF SafeInv

(* The head of the one busy queue settles: no descriptor is left open.      *)
LEMMA SettleCloses ==
  ASSUME TypeInv, SafeInv, NEW l \in Loop, queue[l] # <<>>, Settle(l), UNCHANGED phase
  PROVE  /\ \A m \in Loop : fd'[m] = NoInode
         /\ OneWriter'
<1>1. \A m \in Loop : m # l => fd[m] = NoInode
  BY DEF SafeInv, OneWriter, Busy, TypeInv, HeadOpen
<1>2. \A m \in Loop : m # l => queue'[m] = queue[m]
  BY DEF Settle, TypeInv, TypeOK
<1>3. \A m \in Loop : Busy(m)' => Busy(m)
  BY <1>2 DEF Settle, Busy, TypeInv, TypeOK, HeadOpen
<1>4. OneWriter'
  BY <1>3 DEF SafeInv, OneWriter
<1>5. \A m \in Loop : fd'[m] = NoInode
  BY <1>1 DEF Settle, TypeInv, TypeOK
<1> QED
  BY <1>4, <1>5

(* A file is opened that has no final name: a new one, or one that a crash *)
(* left.                                                                   *)
LEMMA OpenStep ==
  ASSUME TypeInv, TypeInv', SafeInv, NEW l \in Loop, Open(l)
  PROVE  SafeInv'
<1> DEFINE s == Head(queue[l])
<1>1. /\ queue[l] # <<>> /\ s \in Snapshot /\ s.text \in Text
      /\ fd[l] = NoInode /\ next[l] = 1
  BY SnapshotAssumption DEF Open, TypeInv, TypeOK, HeadOpen
<1>2. PICK i \in Inode : /\ tmp[s.text] # NoInode => i = tmp[s.text]
                         /\ tmp[s.text] = NoInode => FreeInode(i)
                         /\ tmp' = [tmp EXCEPT ![s.text] = i]
                         /\ data' = [data EXCEPT ![i] = Empty]
                         /\ fd' = [fd EXCEPT ![l] = i]
  BY DEF Open
<1>3. \A t \in Text : final'[t] \in {final[t], NoInode}
  BY DEF Open
<1>4. UNCHANGED <<phase, queue, next>>
  BY DEF Open
<1>5. i # NoInode /\ \A t \in Text : final[t] # i /\ (t # s.text => tmp[t] # i)
  BY <1>1, <1>2, InodeAssumption DEF SafeInv, Unaliased, FreeInode, Linked
<1>6. \A m \in Loop : m # l => fd[m] = NoInode
  BY <1>1 DEF SafeInv, OneWriter, Busy, TypeInv, HeadOpen
<1>7. OneWriter'
  BY <1>4 DEF SafeInv, OneWriter, Busy
<1>8. WrittenSoFar'
  <2>1. \A m \in Loop : fd'[m] # NoInode => next'[m] = 1
    BY <1>1, <1>2, <1>4, <1>6 DEF TypeInv, TypeOK
  <2> QED
    BY <2>1 DEF WrittenSoFar, Block
<1>9. WriteOwnsItsTmp'
  BY <1>1, <1>2, <1>4, <1>6 DEF WriteOwnsItsTmp, TypeInv, TypeOK
<1>10. Unaliased'
  BY <1>1, <1>2, <1>3, <1>5 DEF SafeInv, Unaliased, TypeInv, TypeOK
<1>11. OnlyWholeCheckpoints'
  <2>1. \A t \in Text : final'[t] # NoInode =>
          final'[t] = final[t] /\ final[t] \in Inode /\ data'[final[t]] = data[final[t]]
    BY <1>2, <1>3, <1>5 DEF TypeInv, TypeOK
  <2> QED
    BY <2>1 DEF SafeInv, OnlyWholeCheckpoints, Complete, Holds
<1> QED
  BY <1>7, <1>8, <1>9, <1>10, <1>11 DEF SafeInv

(* A write adds its block, to a file that has no final name.               *)
LEMMA WriteStep ==
  ASSUME TypeInv, TypeInv', SafeInv, NEW l \in Loop, Write(l)
  PROVE  SafeInv'
<1> DEFINE s == Head(queue[l])
           i == fd[l]
           b == next[l]
<1>1. /\ i \in Inode /\ b \in Block /\ s \in Snapshot /\ s.text \in Text
      /\ i # NoInode /\ tmp[s.text] = i
  BY SnapshotAssumption, InodeAssumption
     DEF Write, TypeInv, TypeOK, HeadOpen, SafeInv, WriteOwnsItsTmp
<1>2. /\ data'[i].blk[b] = s
      /\ \A c \in Block : c # b => data'[i].blk[c] = data[i].blk[c]
      /\ \A j \in Inode : j # i => data'[j] = data[j]
  <2> DEFINE blk == [data[i].blk EXCEPT ![b] = s]
             f == [data[i] EXCEPT !.blk = blk]
  <2>1. data' = [data EXCEPT ![i] = f]
    BY DEF Write
  <2>2. data[i] \in File /\ data \in [Inode -> File]
    BY <1>1 DEF TypeInv, TypeOK
  <2>3. f.blk = blk
    BY <2>2 DEF File
  <2>4. data'[i] = f /\ \A j \in Inode : j # i => data'[j] = data[j]
    <3> HIDE DEF f
    <3> QED BY <1>1, <2>1, <2>2
  <2>5. blk[b] = s /\ \A c \in Block : c # b => blk[c] = data[i].blk[c]
    BY <1>1, <2>2 DEF File
  <2> QED
    BY <2>3, <2>4, <2>5
<1>3. /\ UNCHANGED <<final, tmp, phase, queue, fd>>
      /\ next' = [next EXCEPT ![l] = b + 1]
  BY DEF Write
<1>4. \A m \in Loop : m # l => fd[m] = NoInode
  BY <1>1 DEF SafeInv, OneWriter, Busy, TypeInv, HeadOpen
<1>5. OneWriter'
  BY <1>3 DEF SafeInv, OneWriter, Busy
<1>6. WrittenSoFar'
  <2>1. next'[l] = b + 1
    BY <1>3 DEF TypeInv, TypeOK
  <2>2. \A c \in Block : c < b + 1 => data'[i].blk[c] = s
    BY <1>1, <1>2 DEF SafeInv, WrittenSoFar, Block
  <2> QED
    BY <1>3, <1>4, <2>1, <2>2 DEF WrittenSoFar
<1>7. WriteOwnsItsTmp'
  BY <1>3 DEF SafeInv, WriteOwnsItsTmp
<1>8. Unaliased'
  BY <1>3 DEF SafeInv, Unaliased
<1>9. OnlyWholeCheckpoints'
  <2>1. \A t \in Text : final[t] # NoInode => final[t] \in Inode /\ final[t] # i
    BY <1>1 DEF SafeInv, Unaliased, TypeInv, TypeOK
  <2>2. \A t \in Text : final[t] # NoInode => data'[final[t]] = data[final[t]]
    BY <1>2, <2>1
  <2> QED
    BY <1>3, <2>2 DEF SafeInv, OnlyWholeCheckpoints, Complete, Holds
<1> QED
  BY <1>5, <1>6, <1>7, <1>8, <1>9 DEF SafeInv

(* The file that is renamed is the one this write has filled.              *)
LEMMA PublishStep ==
  ASSUME TypeInv, TypeInv', SafeInv, NEW l \in Loop, Publish(l)
  PROVE  SafeInv'
<1> DEFINE s == Head(queue[l])
           t == s.text
<1>1. /\ fd[l] # NoInode /\ fd[l] \in Inode /\ s \in Snapshot /\ t \in Text
      /\ queue[l] # <<>>
      /\ tmp[t] = fd[l]
  BY SnapshotAssumption
     DEF Publish, TypeInv, TypeOK, HeadOpen, SafeInv, WriteOwnsItsTmp
<1>2. /\ final' = [final EXCEPT ![t] = fd[l]]
      /\ tmp' = [tmp EXCEPT ![t] = NoInode]
      /\ UNCHANGED <<data, phase>> /\ Settle(l)
  BY <1>1 DEF Publish
<1>3. \A b \in Block : data[fd[l]].blk[b] = s
  <2>1. \A b \in Block : b < next[l]
    BY DEF Publish, Block, TypeInv, TypeOK
  <2> QED
    BY <1>1, <2>1 DEF SafeInv, WrittenSoFar
<1>4. OnlyWholeCheckpoints'
  <2> SUFFICES ASSUME NEW u \in Text \ Truncated, final'[u] # NoInode
               PROVE  \E r \in Snapshot : \A b \in Block : data'[final'[u]].blk[b] = r
    BY DEF OnlyWholeCheckpoints, Complete, Holds
  <2>1. CASE u = t
    BY <1>1, <1>2, <1>3, <2>1 DEF TypeInv, TypeOK
  <2>2. CASE u # t
    BY <1>2, <2>2 DEF SafeInv, OnlyWholeCheckpoints, Complete, Holds, TypeInv, TypeOK
  <2> QED
    BY <2>1, <2>2
<1>5. Unaliased'
  BY <1>1, <1>2 DEF SafeInv, Unaliased, TypeInv, TypeOK
<1> QED
  BY <1>1, <1>2, <1>4, <1>5, SettleCloses DEF SafeInv, WrittenSoFar, WriteOwnsItsTmp

(* The write that fails takes its own tmp name away.                       *)
LEMMA WriteFailsStep ==
  ASSUME TypeInv, TypeInv', SafeInv, NEW l \in Loop, WriteFails(l)
  PROVE  SafeInv'
<1>1. OnlyWholeCheckpoints'
  BY DEF WriteFails, SafeInv, OnlyWholeCheckpoints, Complete, Holds
<1>2. \A t \in Text : tmp'[t] \in {tmp[t], NoInode}
  BY DEF WriteFails, TypeInv, TypeOK
<1>3. Unaliased'
  BY <1>2 DEF WriteFails, SafeInv, Unaliased
<1>4. queue[l] # <<>> /\ Settle(l) /\ UNCHANGED phase
  BY DEF WriteFails, TypeInv, HeadOpen
<1> QED
  BY <1>1, <1>3, <1>4, SettleCloses DEF SafeInv, WrittenSoFar, WriteOwnsItsTmp

(* Nothing was opened: at most some final names are unbound.                *)
LEMMA OpenFailsStep ==
  ASSUME TypeInv, TypeInv', SafeInv, NEW l \in Loop, OpenFails(l)
  PROVE  SafeInv'
<1>1. \A t \in Text : final'[t] \in {final[t], NoInode}
  BY DEF OpenFails
<1>2. queue[l] # <<>> /\ Settle(l) /\ UNCHANGED <<tmp, data, phase>>
  BY DEF OpenFails
<1>3. OnlyWholeCheckpoints'
  BY <1>1, <1>2 DEF SafeInv, OnlyWholeCheckpoints, Complete, Holds
<1>4. Unaliased'
  BY <1>1, <1>2, InodeAssumption DEF SafeInv, Unaliased, TypeInv, TypeOK
<1> QED
  BY <1>2, <1>3, <1>4, SettleCloses DEF SafeInv, WrittenSoFar, WriteOwnsItsTmp

(* touch() rewrites the hit counter and the last use, not the blocks.       *)
LEMMA HitKeepsBlocks ==
  ASSUME TypeInv, NEW l \in Loop, NEW p \in Prompt, LoadHit(l, p)
  PROVE  SameBlocks
<1>1. PICK t \in Text :
        /\ final[t] \in Inode
        /\ LET file == data[final[t]] IN
           data' = [data EXCEPT ![final[t]] =
              [file EXCEPT !.hits = IF @ < MaxHits THEN @ + 1 ELSE @, !.age = 0]]
  BY DEF LoadHit, Longest, Candidates, Readable, Listed, TypeInv, TypeOK
<1> DEFINE f == data[final[t]]
           h == IF f.hits < MaxHits THEN f.hits + 1 ELSE f.hits
           g == [[f EXCEPT !.hits = h] EXCEPT !.age = 0]
<1>2. data' = [data EXCEPT ![final[t]] = g]
  BY <1>1
<1>3. g.blk = f.blk
  <2> HIDE DEF h
  <2> QED BY <1>1 DEF TypeInv, TypeOK, File
<1> HIDE DEF g
<1> QED
  BY <1>1, <1>2, <1>3 DEF SameBlocks, TypeInv, TypeOK

(* Nor does time change them.                                               *)
LEMMA AgesKeepBlocks ==
  ASSUME TypeInv, NEW t \in Text, GrowOld(t)
  PROVE  SameBlocks
<1> DEFINE f == [data[final[t]] EXCEPT !.age = data[final[t]].age + 1]
<1>1. final[t] \in Inode /\ data[final[t]] \in File /\ data \in [Inode -> File]
  BY DEF GrowOld, TypeInv, TypeOK
<1>2. data' = [data EXCEPT ![final[t]] = f]
  BY DEF GrowOld
<1>3. f.blk = data[final[t]].blk
  BY <1>1 DEF File
<1> HIDE DEF f
<1> QED
  BY <1>1, <1>2, <1>3 DEF SameBlocks

(* tmp names are swept: with drained queues no descriptor is open.          *)
LEMMA ConstructStep ==
  ASSUME TypeInv, TypeInv', SafeInv, NEW l \in Loop, Construct(l), Drained
  PROVE  SafeInv'
<1>1. \A m \in Loop : queue[m] = <<>> /\ fd[m] = NoInode
  BY DEF Construct, TypeInv, HeadOpen
<1>2. \A m \in Loop : fd'[m] = NoInode /\ queue'[m] = <<>>
  BY <1>1 DEF Construct
<1>3. OneWriter'
  BY <1>2 DEF Construct, OneWriter, Busy, TypeInv, TypeOK
<1>4. OnlyWholeCheckpoints' /\ Unaliased'
  BY DEF Construct, SafeInv, OnlyWholeCheckpoints, Complete, Holds, Unaliased
<1> QED
  BY <1>2, <1>3, <1>4 DEF SafeInv, WrittenSoFar, WriteOwnsItsTmp

(* A crash leaves the files as they are, and no descriptor.                *)
LEMMA CrashStep ==
  ASSUME TypeInv, SafeInv, Crash
  PROVE  SafeInv'
<1>1. \A m \in Loop : fd'[m] = NoInode /\ queue'[m] = <<>> /\ phase'[m] = "none"
  BY DEF Crash
<1>2. OneWriter'
  BY <1>1 DEF OneWriter, Busy
<1>3. OnlyWholeCheckpoints' /\ Unaliased'
  BY DEF Crash, SafeInv, OnlyWholeCheckpoints, Complete, Holds, Unaliased
<1> QED
  BY <1>1, <1>2, <1>3 DEF SafeInv, WrittenSoFar, WriteOwnsItsTmp

(* A capture is queued: by the only live loop, and behind the head.         *)
LEMMA EnqueueStep ==
  ASSUME TypeInv, SafeInv, NEW l \in Loop, NEW s \in Snapshot, Enqueue(l, s)
  PROVE  SafeInv'
<1>1. UNCHANGED <<final, tmp, data, phase, fd, next>>
  BY DEF Enqueue
<1>2. \A m \in Loop : Busy(m)' => Busy(m)
  BY DEF Enqueue, Busy, TypeInv, TypeOK
<1>3. \A m \in Loop : queue[m] # <<>> => Head(queue'[m]) = Head(queue[m])
  BY DEF Enqueue, TypeInv, TypeOK
<1>4. \A m \in Loop : fd[m] # NoInode => Head(queue'[m]) = Head(queue[m])
  BY <1>3 DEF TypeInv, HeadOpen
<1>5. OneWriter'
  BY <1>2 DEF SafeInv, OneWriter
<1>6. WrittenSoFar' /\ WriteOwnsItsTmp'
  BY <1>1, <1>4 DEF SafeInv, WrittenSoFar, WriteOwnsItsTmp
<1>7. Unaliased' /\ OnlyWholeCheckpoints'
  BY <1>1 DEF SafeInv, Unaliased, OnlyWholeCheckpoints, Complete, Holds
<1> QED
  BY <1>5, <1>6, <1>7 DEF SafeInv

(* Every step keeps it, where queues are drained between loops.            *)
LEMMA SafeStep ==
  ASSUME TypeInv, TypeInv', SafeInv, [Next]_vars, Drained
  PROVE  SafeInv'
<1>1. CASE Crash
  BY <1>1, CrashStep
<1>2. ASSUME NEW l \in Loop, Step(l) PROVE SafeInv'
  <2>1. CASE Construct(l)
    BY <1>2, <2>1, ConstructStep
  <2>2. CASE Drop(l) \/ Retire(l) \/ BeginFlush(l) \/ EndFlush(l)
    <3>1. UNCHANGED <<final, tmp, data, queue, fd, next>>
      BY <2>2 DEF Drop, Retire, BeginFlush, EndFlush
    <3>2. \A m \in Loop : Busy(m)' => Busy(m)
      BY <2>2 DEF Drop, Retire, BeginFlush, EndFlush, Busy, TypeInv, TypeOK
    <3>3. OneWriter' /\ SameBlocks
      BY <3>1, <3>2 DEF SafeInv, OneWriter, SameBlocks
    <3> QED
      BY <3>1, <3>3, ReaderStep
  <2>3. CASE Open(l)
    BY <2>3, OpenStep
  <2>4. CASE Write(l)
    BY <2>4, WriteStep
  <2>5. CASE WriteFails(l)
    BY <2>5, WriteFailsStep
  <2>6. CASE Publish(l)
    BY <2>6, PublishStep
  <2>7. ASSUME NEW s \in Snapshot, Enqueue(l, s) PROVE SafeInv'
    BY <2>7, EnqueueStep
  <2>8. ASSUME NEW p \in Prompt, LoadNothing(l, p) \/ LoadHit(l, p) \/ LoadDrops(l, p)
        PROVE  SafeInv'
    <3>1. UNCHANGED <<tmp, phase, queue, fd, next>>
      BY <2>8 DEF LoadNothing, LoadHit, LoadDrops
    <3>2. \A t \in Text : final'[t] \in {final[t], NoInode}
      BY <2>8 DEF LoadNothing, LoadHit, LoadDrops, TypeInv, TypeOK
    <3>3. SameBlocks
      BY <2>8, HitKeepsBlocks DEF LoadNothing, LoadDrops, SameBlocks
    <3>4. OneWriter'
      BY <3>1 DEF SafeInv, OneWriter, Busy
    <3> QED
      BY <3>1, <3>2, <3>3, <3>4, ReaderStep
  <2>9. CASE OpenFails(l)
    BY <2>9, OpenFailsStep
  <2> QED
    BY <1>2, <2>1, <2>2, <2>3, <2>4, <2>5, <2>6, <2>7, <2>8, <2>9 DEF Step
<1>3. ASSUME NEW t \in Text, GrowOld(t) PROVE SafeInv'
  <2>1. UNCHANGED <<final, tmp, phase, queue, fd, next>>
    BY <1>3 DEF GrowOld
  <2>2. SameBlocks
    BY <1>3, AgesKeepBlocks
  <2>3. OneWriter'
    BY <2>1 DEF SafeInv, OneWriter, Busy
  <2> QED
    BY <2>1, <2>2, <2>3, ReaderStep
<1>4. CASE UNCHANGED vars
  <2>1. SameBlocks /\ OneWriter'
    BY <1>4 DEF vars, SameBlocks, SafeInv, OneWriter, Busy
  <2> QED
    BY <1>4, <2>1, ReaderStep DEF vars
<1> QED
  BY <1>1, <1>2, <1>3, <1>4, NextSplit

(* "Readers only ever see a complete checkpoint or none" (writeSnapshot):   *)
(* true of any number of successive loops whose queues are drained before   *)
(* the next loop is constructed, whatever crashes and failed writes occur.  *)
THEOREM WholeCheckpoints ==
  ASSUME Drained
  PROVE  Spec => []OnlyWholeCheckpoints
<1>1. TypeInv /\ SafeInv /\ [Next]_vars => (TypeInv /\ SafeInv)'
  <2> SUFFICES ASSUME TypeInv, SafeInv, [Next]_vars
               PROVE  (TypeInv /\ SafeInv)'
    OBVIOUS
  <2>1. TypeInv'
    BY TypeStep
  <2> QED
    BY <2>1, SafeStep
<1>2. SafeInv => OnlyWholeCheckpoints
  BY DEF SafeInv
<1> QED
  BY <1>1, <1>2, TypeInit, SafeInit, PTL DEF Spec

----------------------------------------------------------------------------
(* Towards CheckpointCache: what a lookup can find *)

(* A file of an earlier version has no payload, until a whole checkpoint    *)
(* takes its name.                                                          *)
Leftovers ==
  \A t \in Truncated : final[t] # NoInode =>
     \/ Complete(final[t])
     \/ data[final[t]].blk[Payload] = NoSnap /\ data[final[t]].blk[Header] # NoSnap

CacheInv == TypeInv /\ SafeInv /\ Leftovers

(* The step at most takes names from checkpoints.                           *)
Keeps ==
  \A t \in Text : final'[t] # NoInode =>
    final'[t] = final[t] /\ data'[final[t]].blk = data[final[t]].blk

(* What is found complete or without payload stays so, and the cache loses  *)
(* what has lost its name, and nothing else.                                *)
LEMMA KeptEntries ==
  ASSUME CacheInv, Keeps
  PROVE  /\ Leftovers'
         /\ \A t \in Text : Cached(t)' = IF final'[t] = NoInode THEN NoSnap ELSE Cached(t)
<1>1. \A t \in Text : final'[t] # NoInode =>
        /\ final'[t] = final[t]
        /\ data'[final[t]].blk = data[final[t]].blk
        /\ Complete(final[t])' <=> Complete(final[t])
  BY DEF Keeps, Complete, Holds
<1>2. Leftovers'
  BY <1>1, TruncatedAssumption DEF CacheInv, Leftovers
<1>3. ASSUME NEW t \in Text
      PROVE  Cached(t)' = IF final'[t] = NoInode THEN NoSnap ELSE Cached(t)
  BY <1>1 DEF Cached
<1> QED
  BY <1>2, <1>3

(* Every capture is something.                                              *)
LEMMA WholeIsSomething ==
  ASSUME NEW i \in Inode, Complete(i)
  PROVE  data[i].blk[Payload] \in Snapshot /\ data[i].blk[Payload] # NoSnap
BY SnapshotAssumption DEF Complete, Holds, Block, Payload

(* The bound names with a payload are those the cache holds.                *)
LEMMA HeldOnes ==
  ASSUME CacheInv, NEW t \in Text
  PROVE  Cached(t) # NoSnap <=> final[t] # NoInode /\ data[final[t]].blk[Payload] # NoSnap
<1>1. final[t] # NoInode => final[t] \in Inode
  BY DEF CacheInv, TypeInv, TypeOK
<1>2. final[t] # NoInode => Complete(final[t]) \/ data[final[t]].blk[Payload] = NoSnap
  BY DEF CacheInv, Leftovers, SafeInv, OnlyWholeCheckpoints
<1> QED
  BY <1>1, <1>2, WholeIsSomething DEF Cached

----------------------------------------------------------------------------
(* The steps of the loops, as steps of the cache *)

(* A step that answers no lookup puts nothing: the cache forgets.           *)
LEMMA Forgets ==
  ASSUME CacheInv, Keeps, loaded' = loaded
  PROVE  Leftovers' /\ Cache!Next
<1> DEFINE gone == {t \in Text : final'[t] = NoInode}
<1>1. Leftovers' /\ \A t \in Text : Cached(t)' = IF final'[t] = NoInode THEN NoSnap ELSE Cached(t)
  BY KeptEntries
<1>2. Cache!Forget(gone)
  BY <1>1 DEF Cache!Forget
<1>3. gone \in SUBSET Text
  OBVIOUS
<1> QED
  BY <1>1, <1>2, <1>3 DEF Cache!Next

(* A new loop, or a lookup that restores nothing; it drops one entry at most.*)
LEMMA Misses ==
  ASSUME CacheInv, Keeps, NEW l \in Loop, loaded' = [loaded EXCEPT ![l] = NoMatch],
         \/ final' = final
         \/ \E t \in Text : final' = [final EXCEPT ![t] = NoInode]
  PROVE  Leftovers' /\ Cache!Next
<1>1. Leftovers' /\ \A t \in Text : Cached(t)' = IF final'[t] = NoInode THEN NoSnap ELSE Cached(t)
  BY KeptEntries
<1>2. [m \in Loop |-> <<loaded'[m].asked, loaded'[m].payload>>] =
      [[m \in Loop |-> <<loaded[m].asked, loaded[m].payload>>] EXCEPT ![l] = <<<<>>, NoSnap>>]
  BY DEF CacheInv, TypeInv, TypeOK, NoMatch
<1>3. \/ \A t \in Text : Cached(t)' = Cached(t)
      \/ \E t \in Text : /\ Cached(t) # NoSnap /\ Cached(t)' = NoSnap
                         /\ \A u \in Text : u # t => Cached(u)' = Cached(u)
  <2>1. CASE final' = final
    BY <1>1, <2>1 DEF Cached
  <2>2. ASSUME NEW t \in Text, final' = [final EXCEPT ![t] = NoInode]
        PROVE  <1>3
    <3>1. final'[t] = NoInode /\ \A u \in Text : u # t => final'[u] = final[u]
      BY <2>2 DEF CacheInv, TypeInv, TypeOK
    <3>2. Cached(t)' = NoSnap /\ \A u \in Text : u # t => Cached(u)' = Cached(u)
      BY <1>1, <3>1 DEF Cached
    <3> QED
      BY <3>2
  <2> QED
    BY <2>1, <2>2
<1>4. Cache!Miss(l)
  <2>1. CASE \A t \in Text : Cached(t)' = Cached(t)
    BY <1>2, <2>1 DEF Cache!Miss, Cache!Nothing
  <2>2. ASSUME NEW t \in Text, Cached(t) # NoSnap, Cached(t)' = NoSnap,
               \A u \in Text : u # t => Cached(u)' = Cached(u)
        PROVE  Cache!Miss(l)
    <3>1. [u \in Text |-> Cached(u)'] = [[u \in Text |-> Cached(u)] EXCEPT ![t] = NoSnap]
      BY <2>2
    <3> QED
      BY <1>2, <2>2, <3>1 DEF Cache!Miss, Cache!Nothing, Cache!Held
  <2> QED
    BY <1>3, <2>1, <2>2
<1> QED
  BY <1>1, <1>4 DEF Cache!Next

(* A lookup that restores: the longest text that has a checkpoint, whole,   *)
(* and what is touched of it is not what is restored.                       *)
LEMMA Hits ==
  ASSUME CacheInv, NEW l \in Loop, NEW p \in Prompt, LoadHit(l, p)
  PROVE  Leftovers' /\ Cache!Next
<1>1. PICK t \in Longest(Candidates(p)) :
        /\ data[final[t]].blk[Payload] # NoSnap
        /\ loaded' = [loaded EXCEPT ![l] =
             [asked |-> p, text |-> t, header |-> data[final[t]].blk[Header],
              payload |-> data[final[t]].blk[Payload]]]
  BY DEF LoadHit
<1>2. /\ t \in Text /\ final[t] # NoInode /\ IsPrefix(t, p)
      /\ \A u \in Candidates(p) : Len(u) <= Len(t)
  BY <1>1 DEF Longest, Candidates, Readable, Listed
<1>3. Cached(t) # NoSnap /\ Cached(t) = data[final[t]].blk[Payload]
  BY <1>1, <1>2, HeldOnes DEF Cached
<1>4. ASSUME NEW u \in Text, Cached(u) # NoSnap, IsPrefix(u, p)
      PROVE  Len(u) <= Len(t)
  <2>1. final[u] # NoInode /\ Complete(final[u])
    BY <1>4 DEF Cached
  <2>2. u \in Candidates(p)
    BY <1>4, <2>1, SnapshotAssumption
       DEF Candidates, Readable, Listed, Complete, Holds, Block, Header, PromptText
  <2> QED
    BY <1>2, <2>2
<1>5. UNCHANGED final /\ SameBlocks
  BY HitKeepsBlocks DEF LoadHit, CacheInv
<1>6. Keeps
  BY <1>5 DEF Keeps, SameBlocks, CacheInv, TypeInv, TypeOK
<1>7. Leftovers' /\ \A u \in Text : Cached(u)' = Cached(u)
  BY <1>5, <1>6, KeptEntries DEF Cached
<1>8. [m \in Loop |-> <<loaded'[m].asked, loaded'[m].payload>>] =
      [[m \in Loop |-> <<loaded[m].asked, loaded[m].payload>>]
         EXCEPT ![l] = <<p, [u \in Text |-> Cached(u)][t]>>]
  BY <1>1, <1>2, <1>3 DEF CacheInv, TypeInv, TypeOK
<1>9. Cache!Hit(l, p)
  <2>1. \A u, v : Cache!IsPrefix(u, v) <=> IsPrefix(u, v)
    BY DEF Cache!IsPrefix, IsPrefix
  <2>2. \A u \in Cache!Held : u \in Text /\ Cached(u) # NoSnap
    BY DEF Cache!Held
  <2>3. t \in Cache!Held /\ \A u \in Cache!Held : Cache!IsPrefix(u, p) => Len(u) <= Len(t)
    BY <1>2, <1>3, <1>4, <2>1, <2>2 DEF Cache!Held
  <2> QED
    BY <1>2, <1>7, <1>8, <2>1, <2>3 DEF Cache!Hit
<1> QED
  BY <1>7, <1>9 DEF Cache!Next

(* The rename puts the capture, whole, in the place of what was there.      *)
LEMMA Publishes ==
  ASSUME CacheInv, NEW l \in Loop, Publish(l)
  PROVE  Leftovers' /\ Cache!Next
<1>0. PICK s \in Snapshot : s = Head(queue[l])
  BY DEF Publish, CacheInv, TypeInv, TypeOK, HeadOpen
<1> DEFINE t == s.text
<1>1. t \in Text /\ fd[l] # NoInode /\ fd[l] \in Inode /\ tmp[t] = fd[l]
  BY <1>0, SnapshotAssumption
     DEF Publish, CacheInv, TypeInv, TypeOK, SafeInv, WriteOwnsItsTmp
<1>2. final' = [final EXCEPT ![t] = fd[l]] /\ UNCHANGED <<data, loaded>>
  BY <1>0, <1>1 DEF Publish
<1>3. \A b \in Block : data[fd[l]].blk[b] = s
  <2>1. \A b \in Block : b < next[l]
    BY DEF Publish, Block, CacheInv, TypeInv, TypeOK
  <2> QED
    BY <1>0, <1>1, <2>1 DEF CacheInv, SafeInv, WrittenSoFar
<1>4. final'[t] = fd[l] /\ \A u \in Text : u # t => final'[u] = final[u]
  BY <1>1, <1>2 DEF CacheInv, TypeInv, TypeOK
<1>5. Leftovers'
  <2> SUFFICES ASSUME NEW u \in Truncated, final'[u] # NoInode
               PROVE  \/ Complete(final[u])'
                      \/ /\ data'[final'[u]].blk[Payload] = NoSnap
                         /\ data'[final'[u]].blk[Header] # NoSnap
    BY DEF Leftovers
  <2>1. CASE u = t
    BY <1>2, <1>3, <1>4, <2>1 DEF Complete, Holds
  <2>2. CASE u # t
    BY <1>2, <1>4, <2>2, TruncatedAssumption DEF CacheInv, Leftovers, Complete, Holds
  <2> QED
    BY <2>1, <2>2
<1>6. Cached(t)' = s
  <2>1. data'[final'[t]].blk[Payload] = s
    BY <1>2, <1>3, <1>4 DEF Block, Payload
  <2>2. \E r \in Snapshot : \A b \in Block : data'[final'[t]].blk[b] = r
    BY <1>2, <1>3, <1>4
  <2> QED
    BY <1>1, <1>4, <2>1, <2>2 DEF Cached, Complete, Holds
<1>7. ASSUME NEW u \in Text, u # t
      PROVE  Cached(u)' = Cached(u)
  BY <1>2, <1>4, <1>7 DEF Cached, Complete, Holds
<1>8. [u \in Text |-> Cached(u)'] = [[u \in Text |-> Cached(u)] EXCEPT ![t] = s]
  BY <1>1, <1>6, <1>7
<1>9. Cache!Put(s)
  BY <1>2, <1>8 DEF Cache!Put
<1> QED
  BY <1>5, <1>9 DEF Cache!Next

(* A write fills a file that has no final name yet.                         *)
LEMMA WritesKeep ==
  ASSUME CacheInv, NEW l \in Loop, Write(l)
  PROVE  Keeps
<1>1. /\ final' = final /\ fd[l] # NoInode /\ fd[l] \in Inode
      /\ \A j \in Inode : j # fd[l] => data'[j] = data[j]
  <2>1. fd[l] # NoInode /\ fd[l] \in Inode
    BY DEF Write, CacheInv, TypeInv, TypeOK
  <2> DEFINE f == [data[fd[l]] EXCEPT !.blk = [data[fd[l]].blk EXCEPT ![next[l]] = Head(queue[l])]]
  <2>2. data' = [data EXCEPT ![fd[l]] = f] /\ final' = final
    BY DEF Write
  <2> HIDE DEF f
  <2> QED
    BY <2>1, <2>2 DEF CacheInv, TypeInv, TypeOK
<1>2. tmp[Head(queue[l]).text] = fd[l] /\ Head(queue[l]).text \in Text
  BY <1>1, SnapshotAssumption DEF CacheInv, SafeInv, WriteOwnsItsTmp, TypeInv, TypeOK, HeadOpen
<1>3. \A t \in Text : final[t] # fd[l]
  BY <1>1, <1>2 DEF CacheInv, SafeInv, Unaliased
<1> QED
  BY <1>1, <1>3 DEF Keeps, CacheInv, TypeInv, TypeOK

(* Nor has the file that is opened, which may be one that a crash left.     *)
LEMMA OpensKeep ==
  ASSUME CacheInv, NEW l \in Loop, Open(l)
  PROVE  Keeps
<1>0. PICK s \in Snapshot : s = Head(queue[l])
  BY DEF Open, CacheInv, TypeInv, TypeOK
<1>1. PICK i \in Inode : /\ tmp[s.text] # NoInode => i = tmp[s.text]
                         /\ tmp[s.text] = NoInode => FreeInode(i)
                         /\ data' = [data EXCEPT ![i] = Empty]
  BY <1>0 DEF Open
<1>2. \A t \in Text : final'[t] \in {final[t], NoInode}
  BY DEF Open
<1>3. s.text \in Text /\ i # NoInode /\ \A t \in Text : final[t] # i
  BY <1>1, SnapshotAssumption, InodeAssumption
     DEF CacheInv, SafeInv, Unaliased, FreeInode, Linked
<1> QED
  BY <1>1, <1>2, <1>3 DEF Keeps, CacheInv, TypeInv, TypeOK

(* Nothing is in the cache but truncated files, which it does not hold.    *)
LEMMA CacheInit ==
  ASSUME Init
  PROVE  Leftovers /\ Cache!Init
<1>1. PICK place \in [Truncated -> Inode] :
        /\ \A t, u \in Truncated : place[t] = place[u] => t = u
        /\ final = [t \in Text |-> IF t \in Truncated THEN place[t] ELSE NoInode]
        /\ data = [i \in Inode |->
                     IF \E t \in Truncated : place[t] = i
                     THEN LegacyFile(CHOOSE t \in Truncated : place[t] = i)
                     ELSE Empty]
  BY DEF Init
<1>2. ASSUME NEW t \in Text, final[t] # NoInode
      PROVE  /\ final[t] \in Inode /\ t \in Truncated
             /\ data[final[t]].blk[Payload] = NoSnap /\ data[final[t]].blk[Header] # NoSnap
  <2>1. t \in Truncated /\ final[t] = place[t] /\ place[t] \in Inode
    BY <1>1, <1>2
  <2> DEFINE v == CHOOSE v \in Truncated : place[v] = place[t]
             r == CHOOSE r \in Snapshot : r.text = v
             blk == [b \in Block |-> IF b = Payload THEN NoSnap ELSE r]
  <2>2. data[place[t]] = LegacyFile(v)
    BY <1>1, <2>1
  <2>3. LegacyFile(v) = [Empty EXCEPT !.blk = blk]
    BY DEF LegacyFile
  <2>4. blk[Payload] = NoSnap /\ blk[Header] # NoSnap
    <3>1. v \in Truncated
      BY <2>1
    <3>2. \E s \in Snapshot : s.text = v
      BY <3>1, TruncatedAssumption
    <3>3. r \in Snapshot
      BY <3>2
    <3>4. r # NoSnap
      BY <3>3, SnapshotAssumption
    <3> HIDE DEF r
    <3> QED
      BY <3>4 DEF Block, Payload, Header
  <2> HIDE DEF blk, v
  <2>5. [Empty EXCEPT !.blk = blk].blk = blk
    BY DEF Empty
  <2> QED
    BY <2>1, <2>2, <2>3, <2>4, <2>5
<1>3. \A t \in Text : final[t] # NoInode => ~Complete(final[t])
  BY <1>2, WholeIsSomething
<1>4. \A t \in Text : Cached(t) = NoSnap
  BY <1>3 DEF Cached
<1>5. [l \in Loop |-> <<loaded[l].asked, loaded[l].payload>>] = [l \in Loop |-> <<<<>>, NoSnap>>]
  BY DEF Init, NoMatch
<1> QED
  BY <1>2, <1>4, <1>5, TruncatedAssumption DEF Leftovers, Cache!Init, Cache!Nothing

(* Every step of the cold store is one of the cache; most forget, and many *)
(* nothing.                                                                *)
LEMMA CacheStep ==
  ASSUME CacheInv, [Next]_vars
  PROVE  Leftovers' /\ Cache!Next
<1>1. ASSUME loaded' = loaded, SameBlocks, \A t \in Text : final'[t] \in {final[t], NoInode}
      PROVE  Leftovers' /\ Cache!Next
  <2>1. Keeps
    BY <1>1 DEF Keeps, SameBlocks, CacheInv, TypeInv, TypeOK
  <2> QED
    BY <1>1, <2>1, Forgets
<1>2. ASSUME UNCHANGED <<final, data, loaded>>
      PROVE  Leftovers' /\ Cache!Next
  BY <1>1, <1>2 DEF SameBlocks
<1>3. CASE Crash \/ UNCHANGED vars
  BY <1>2, <1>3 DEF Crash, vars
<1>4. ASSUME NEW l \in Loop, Step(l) PROVE Leftovers' /\ Cache!Next
  <2>1. CASE Construct(l)
    <3>1. Keeps
      BY <2>1 DEF Construct, Keeps
    <3> QED
      BY <2>1, <3>1, Misses DEF Construct
  <2>2. CASE Drop(l) \/ Retire(l) \/ BeginFlush(l) \/ EndFlush(l) \/ WriteFails(l)
    BY <1>2, <2>2 DEF Drop, Retire, BeginFlush, EndFlush, WriteFails
  <2>3. CASE Open(l)
    BY <2>3, OpensKeep, Forgets DEF Open
  <2>4. CASE Write(l)
    BY <2>4, WritesKeep, Forgets DEF Write
  <2>5. CASE OpenFails(l)
    <3>1. loaded' = loaded /\ data' = data /\ \A t \in Text : final'[t] \in {final[t], NoInode}
      BY <2>5 DEF OpenFails
    <3> QED
      BY <1>1, <3>1 DEF SameBlocks
  <2>6. CASE Publish(l)
    BY <2>6, Publishes
  <2>7. ASSUME NEW s \in Snapshot, Enqueue(l, s) PROVE Leftovers' /\ Cache!Next
    BY <1>2, <2>7 DEF Enqueue
  <2>8. ASSUME NEW p \in Prompt, LoadHit(l, p) PROVE Leftovers' /\ Cache!Next
    BY <2>8, Hits
  <2>9. ASSUME NEW p \in Prompt, LoadNothing(l, p) \/ LoadDrops(l, p)
        PROVE  Leftovers' /\ Cache!Next
    <3>1. /\ loaded' = [loaded EXCEPT ![l] = NoMatch] /\ data' = data
          /\ final' = final \/ \E t \in Text : final' = [final EXCEPT ![t] = NoInode]
      BY <2>9 DEF LoadNothing, LoadDrops, Longest, Candidates, Readable, Listed
    <3>2. Keeps
      BY <3>1 DEF Keeps, CacheInv, TypeInv, TypeOK
    <3> QED
      BY <3>1, <3>2, Misses
  <2> QED
    BY <1>4, <2>1, <2>2, <2>3, <2>4, <2>5, <2>6, <2>7, <2>8, <2>9 DEF Step
<1>5. ASSUME NEW t \in Text, GrowOld(t) PROVE Leftovers' /\ Cache!Next
  <2>1. loaded' = loaded /\ final' = final
    BY <1>5 DEF GrowOld
  <2>2. SameBlocks
    BY <1>5, AgesKeepBlocks DEF CacheInv
  <2> QED
    BY <1>1, <2>1, <2>2
<1> QED
  BY <1>3, <1>4, <1>5, NextSplit

(* What loops are promised of the directory they share: each lookup returns *)
(* the capture of the longest stored text, whole, or nothing, whatever      *)
(* writes are in flight, swept, evicted or cut short by a crash.            *)
THEOREM ImplementsCache ==
  ASSUME Drained
  PROVE  Spec => CacheSpec
<1>1. CacheInv /\ [Next]_vars => CacheInv'
  <2> SUFFICES ASSUME CacheInv, [Next]_vars PROVE CacheInv'
    OBVIOUS
  <2>1. TypeInv'
    BY TypeStep DEF CacheInv
  <2> QED
    BY <2>1, SafeStep, CacheStep DEF CacheInv
<1>2. Init => CacheInv /\ Cache!Init
  BY TypeInit, SafeInit, CacheInit DEF CacheInv
<1>3. CacheInv /\ [Next]_vars => [Cache!Next]_(Cache!vars)
  BY CacheStep
<1> QED
  BY <1>1, <1>2, <1>3, PTL DEF Spec, CacheSpec, Cache!Spec

----------------------------------------------------------------------------
(* The budget *)

(* What it starts from: few enough files of earlier versions.               *)
FitsAtFirst == IsFiniteSet(Truncated) /\ (Budget > 0 => Cardinality(Truncated) <= Budget)

(* The checkpoints take what the budget allows, and one that is being       *)
(* written has been made room for.                                          *)
Afforded ==
  Budget > 0 =>
    /\ TotalSize(Taken) <= Budget \/ Cardinality(Taken) = 1
    /\ \A l \in InFlight : \/ TotalSize(Taken) + Size(Head(queue[l])) <= Budget
                            \/ Taken = {}

(* While a loop is live, a tmp name is that of a write in flight.           *)
Swept ==
  (\E l \in Loop : phase[l] = "live") =>
    \A t \in Text : tmp[t] # NoInode =>
      \E l \in InFlight : fd[l] = tmp[t] /\ Head(queue[l]).text = t

BudgetInv == CacheInv /\ IsFiniteSet(Taken) /\ Afforded /\ Swept

(* Sizes of files are numbers, and the directory lists all names in use.    *)
LEMMA Sizes ==
  ASSUME CacheInv
  PROVE  /\ \A t \in Taken : FileSize(t) \in Nat
         /\ Listed = Taken
<1>1. ASSUME NEW t \in Taken
      PROVE  FileSize(t) \in Nat /\ data[final[t]].blk[Header] # NoSnap
  <2>1. /\ t \in Text /\ final[t] # NoInode /\ final[t] \in Inode /\ data[final[t]] \in File
    BY DEF Taken, CacheInv, TypeInv, TypeOK
  <2>2. data[final[t]].blk[Payload] \in Snapshot \cup {NoSnap}
    BY <2>1 DEF File, Block, Payload
  <2>3. FileSize(t) \in Nat
    BY <2>2, SizeAssumption DEF FileSize
  <2>4. \/ Complete(final[t])
        \/ data[final[t]].blk[Header] # NoSnap
    BY <2>1 DEF CacheInv, Leftovers, SafeInv, OnlyWholeCheckpoints
  <2>5. Complete(final[t]) => data[final[t]].blk[Header] # NoSnap
    BY SnapshotAssumption DEF Complete, Holds, Block, Header
  <2> QED
    BY <2>3, <2>4, <2>5
<1>2. Listed = Taken
  BY <1>1 DEF Listed, Taken
<1> QED
  BY <1>1, <1>2

(* TotalSize() as a sum of sizes given by a function.                       *)
LEMMA TotalIsSum ==
  ASSUME NEW T, IsFiniteSet(T), NEW f, \A t \in T : f[t] = FileSize(t)
  PROVE  TotalSize(T) = SumFunctionOnSet(f, T)
<1> DEFINE g == [t \in T |-> FileSize(t)]
<1>1. DOMAIN g = T /\ \A t \in T : g[t] = f[t]
  OBVIOUS
<1>2. TotalSize(T) = SumFunctionOnSet(g, DOMAIN g)
  BY DEF TotalSize, SumFunction
<1> HIDE DEF g
<1> QED
  BY <1>1, <1>2, SumOfSame

(* The same for the sizes after a step.                                    *)
LEMMA TotalIsSumThen ==
  ASSUME NEW T, IsFiniteSet(T), NEW f, \A t \in T : f[t] = FileSize(t)'
  PROVE  SumFunction([t \in T |-> FileSize(t)']) = SumFunctionOnSet(f, T)
<1> DEFINE g == [t \in T |-> FileSize(t)']
<1>1. DOMAIN g = T /\ \A t \in T : g[t] = f[t]
  OBVIOUS
<1>2. SumFunction(g) = SumFunctionOnSet(g, DOMAIN g)
  BY DEF SumFunction
<1> HIDE DEF g
<1>3. SumFunctionOnSet(g, T) = SumFunctionOnSet(f, T)
  BY <1>1, SumOfSame
<1> QED
  BY <1>1, <1>2, <1>3 DEF g

(* Fewer names take less.                                                   *)
LEMMA KeptSizes ==
  ASSUME BudgetInv, Keeps
  PROVE  /\ Taken' \subseteq Taken /\ IsFiniteSet(Taken')
         /\ TotalSize(Taken)' = TotalSize(Taken') /\ TotalSize(Taken') <= TotalSize(Taken)
         /\ TotalSize(Taken') \in Nat /\ TotalSize(Taken) \in Nat
<1> DEFINE f == [t \in Taken |-> FileSize(t)]
<1>1. Taken' \subseteq Taken /\ IsFiniteSet(Taken) /\ \A t \in Taken : f[t] \in Nat /\ f[t] = FileSize(t)
  BY Sizes DEF BudgetInv, Keeps, Taken
<1>2. IsFiniteSet(Taken')
  BY <1>1, FS_Subset
<1>3. \A t \in Taken' : f[t] = FileSize(t)'
  BY <1>1 DEF Keeps, Taken, FileSize
<1> HIDE DEF f
<1>4. TotalSize(Taken)' = SumFunctionOnSet(f, Taken')
  BY <1>2, <1>3, TotalIsSumThen DEF TotalSize
<1>5. TotalSize(Taken') = SumFunctionOnSet(f, Taken')
  BY <1>1, <1>2, TotalIsSum
<1>6. TotalSize(Taken) = SumFunctionOnSet(f, Taken)
  BY <1>1, TotalIsSum
<1>7. SumFunctionOnSet(f, Taken') <= SumFunctionOnSet(f, Taken)
  BY <1>1, SumOfFewer
<1>8. SumFunctionOnSet(f, Taken') \in Nat /\ SumFunctionOnSet(f, Taken) \in Nat
  BY <1>1, <1>2, SumType
<1> QED
  BY <1>1, <1>2, <1>4, <1>5, <1>6, <1>7, <1>8

(* Nothing takes nothing.                                                   *)
LEMMA NothingTaken == TotalSize({}) = 0
<1>1. IsFiniteSet({})
  BY FS_EmptySet
<1>2. \A f : TotalSize({}) = SumFunctionOnSet(f, {})
  BY <1>1, TotalIsSum
<1> QED
  BY <1>2, SumOfNothing

(* The sizes of what is written.                                            *)
LEMMA HeadSize ==
  ASSUME TypeInv, NEW l \in InFlight
  PROVE  /\ queue[l] # <<>> /\ Head(queue[l]) \in Snapshot /\ Size(Head(queue[l])) \in Nat
BY SizeAssumption DEF TypeInv, TypeOK, HeadOpen, InFlight

(* A step that puts no name and opens nothing.                              *)
LEMMA StillAfforded ==
  ASSUME BudgetInv, Keeps, \A l \in InFlight' : l \in InFlight /\ Head(queue'[l]) = Head(queue[l])
  PROVE  IsFiniteSet(Taken)' /\ Afforded'
<1>1. /\ Taken' \subseteq Taken /\ IsFiniteSet(Taken') /\ IsFiniteSet(Taken)
      /\ TotalSize(Taken)' = TotalSize(Taken') /\ TotalSize(Taken') <= TotalSize(Taken)
      /\ TotalSize(Taken') \in Nat /\ TotalSize(Taken) \in Nat
  BY KeptSizes DEF BudgetInv
<1> SUFFICES ASSUME Budget > 0
             PROVE  /\ TotalSize(Taken') <= Budget \/ Cardinality(Taken') = 1
                    /\ \A l \in InFlight' : \/ TotalSize(Taken') + Size(Head(queue[l])) <= Budget
                                             \/ Taken' = {}
  BY <1>1 DEF Afforded
<1>2. Budget \in Nat
  BY BoundAssumption
<1>3. TotalSize(Taken') <= Budget \/ Cardinality(Taken') = 1
  <2>1. CASE TotalSize(Taken) <= Budget
    BY <1>1, <1>2, <2>1
  <2>2. CASE Cardinality(Taken) = 1
    <3>1. Cardinality(Taken') <= 1 /\ Cardinality(Taken') \in Nat
      BY <1>1, <2>2, FS_Subset, FS_CardinalityType
    <3>2. Cardinality(Taken') = 0 => Taken' = {}
      BY <1>1, FS_EmptySet
    <3> QED
      BY <1>2, <3>1, <3>2, NothingTaken
  <2> QED
    BY <2>1, <2>2 DEF BudgetInv, Afforded
<1>4. ASSUME NEW l \in InFlight'
      PROVE  TotalSize(Taken') + Size(Head(queue[l])) <= Budget \/ Taken' = {}
  <2>1. l \in InFlight /\ Size(Head(queue[l])) \in Nat
    BY HeadSize DEF BudgetInv, CacheInv
  <2>2. TotalSize(Taken) + Size(Head(queue[l])) <= Budget \/ Taken = {}
    BY <2>1 DEF BudgetInv, Afforded
  <2> QED
    BY <1>1, <1>2, <2>1, <2>2
<1> QED
  BY <1>3, <1>4

(* The only queue with work has its head in flight.                         *)
LEMMA OneInFlight ==
  ASSUME CacheInv, NEW l \in Loop, queue[l] # <<>>
  PROVE  InFlight \subseteq {l}
BY DEF CacheInv, SafeInv, OneWriter, Busy, TypeInv, HeadOpen, InFlight

(* evictIfNeeded() makes room for the file that is opened next.             *)
LEMMA OpenAffords ==
  ASSUME BudgetInv, NEW l \in Loop, Open(l)
  PROVE  IsFiniteSet(Taken)' /\ Afforded'
<1>1. Keeps
  BY OpensKeep DEF BudgetInv
<1>2. /\ Taken' \subseteq Taken /\ IsFiniteSet(Taken')
      /\ TotalSize(Taken)' = TotalSize(Taken') /\ TotalSize(Taken') \in Nat
  BY <1>1, KeptSizes
<1>3. queue[l] # <<>> /\ fd[l] = NoInode /\ queue' = queue /\ Budget \in Nat
  BY BoundAssumption DEF Open
<1>4. PICK s \in Snapshot : s = Head(queue[l]) /\ Size(s) \in Nat
  BY <1>3, SizeAssumption DEF BudgetInv, CacheInv, TypeInv, TypeOK
<1>5. PICK V \in SUBSET Text :
        /\ Victims(V, Size(s))
        /\ final' = [t \in Text |-> IF t \in V THEN NoInode ELSE final[t]]
  BY <1>4 DEF Open
<1>6. Taken' = Taken \ V
  BY <1>5 DEF Taken
<1>7. Budget > 0 => TotalSize(Taken') + Size(s) <= Budget \/ Taken' = {}
  <2>1. Listed = Taken
    BY Sizes DEF BudgetInv
  <2>2. V \subseteq Taken /\ (Budget > 0 => TotalSize(Taken \ V) + Size(s) <= Budget \/ V = Taken)
    BY <1>5, <2>1 DEF Victims
  <2> QED
    BY <1>6, <2>2
<1>8. \A m \in InFlight' : m = l
  <2>1. InFlight \subseteq {l} /\ fd \in [Loop -> Inode \cup {NoInode}]
    BY <1>3, OneInFlight DEF BudgetInv, CacheInv, TypeInv, TypeOK
  <2>2. PICK i \in Inode : fd' = [fd EXCEPT ![l] = i]
    BY DEF Open
  <2> QED
    BY <2>1, <2>2 DEF InFlight
<1>9. ASSUME Budget > 0
      PROVE  /\ TotalSize(Taken') <= Budget \/ Cardinality(Taken') = 1
             /\ \A m \in InFlight' : \/ TotalSize(Taken') + Size(Head(queue'[m])) <= Budget
                                      \/ Taken' = {}
  <2>1. TotalSize(Taken') <= Budget
    <3>1. CASE Taken' = {}
      BY <1>3, <3>1, NothingTaken
    <3>2. CASE TotalSize(Taken') + Size(s) <= Budget
      BY <1>2, <1>3, <1>4, <3>2
    <3> QED
      BY <1>7, <1>9, <3>1, <3>2
  <2> QED
    BY <1>3, <1>4, <1>7, <1>8, <1>9, <2>1
<1> QED
  BY <1>2, <1>9 DEF Afforded
(* The total of fewer names is less.                                        *)
LEMMA FewerTake ==
  ASSUME BudgetInv, NEW T \in SUBSET Taken
  PROVE  IsFiniteSet(T) /\ TotalSize(T) <= TotalSize(Taken) /\ TotalSize(T) \in Nat /\ TotalSize(Taken) \in Nat
<1> DEFINE f == [t \in Taken |-> FileSize(t)]
<1>1. /\ IsFiniteSet(Taken) /\ IsFiniteSet(T)
      /\ \A t \in Taken : f[t] \in Nat /\ f[t] = FileSize(t)
      /\ \A t \in T : f[t] \in Nat /\ f[t] = FileSize(t)
  BY Sizes, FS_Subset DEF BudgetInv
<1> HIDE DEF f
<1>2. TotalSize(T) = SumFunctionOnSet(f, T) /\ TotalSize(Taken) = SumFunctionOnSet(f, Taken)
  BY <1>1, TotalIsSum
<1>3. SumFunctionOnSet(f, T) <= SumFunctionOnSet(f, Taken)
  BY <1>1, SumOfFewer
<1>4. SumFunctionOnSet(f, T) \in Nat /\ SumFunctionOnSet(f, Taken) \in Nat
  BY <1>1, SumType
<1> QED
  BY <1>1, <1>2, <1>3, <1>4

(* The rename takes what room was made for, and less if the name was taken. *)
LEMMA PublishAffords ==
  ASSUME BudgetInv, NEW l \in Loop, Publish(l)
  PROVE  IsFiniteSet(Taken)' /\ Afforded'
<1>0. PICK s \in Snapshot : s = Head(queue[l]) /\ Size(s) \in Nat
  BY SizeAssumption DEF Publish, BudgetInv, CacheInv, TypeInv, TypeOK, HeadOpen
<1> DEFINE t == s.text
<1>1. /\ t \in Text /\ fd[l] # NoInode /\ fd[l] \in Inode /\ tmp[t] = fd[l] /\ queue[l] # <<>>
      /\ IsFiniteSet(Taken) /\ Budget \in Nat /\ l \in InFlight
  BY <1>0, SnapshotAssumption, BoundAssumption
     DEF Publish, BudgetInv, CacheInv, TypeInv, TypeOK, HeadOpen, SafeInv, WriteOwnsItsTmp, InFlight
<1>2. final' = [final EXCEPT ![t] = fd[l]] /\ UNCHANGED <<data, phase>> /\ Settle(l)
  BY <1>0, <1>1 DEF Publish
<1>3. data[fd[l]].blk[Payload] = s
  <2>1. Payload \in Block /\ Payload < next[l]
    BY DEF Publish, Block, Payload, BudgetInv, CacheInv, TypeInv, TypeOK
  <2> QED
    BY <1>0, <1>1, <2>1 DEF BudgetInv, CacheInv, SafeInv, WrittenSoFar
<1>4. final'[t] = fd[l] /\ \A u \in Text : u # t => final'[u] = final[u]
  BY <1>1, <1>2 DEF BudgetInv, CacheInv, TypeInv, TypeOK
<1>5. Taken' = Taken \cup {t} /\ IsFiniteSet(Taken') /\ Taken' \ {t} = Taken \ {t} /\ t \in Taken'
  <2>1. Taken' = Taken \cup {t}
    BY <1>1, <1>4 DEF Taken
  <2> QED
    BY <1>1, <2>1, FS_AddElement
<1>6. InFlight' = {}
  BY <1>1, <1>2, SettleCloses DEF InFlight, BudgetInv, CacheInv
<1> DEFINE rest == Taken \ {t}
           f == [u \in Taken' |-> IF u = t THEN Size(s) ELSE FileSize(u)]
<1>7. /\ IsFiniteSet(rest) /\ TotalSize(rest) <= TotalSize(Taken)
      /\ TotalSize(rest) \in Nat /\ TotalSize(Taken) \in Nat
  BY FewerTake
<1>8. /\ f[t] = Size(s) /\ f[t] = FileSize(t)'
      /\ \A u \in rest : f[u] = FileSize(u) /\ f[u] = FileSize(u)' /\ f[u] \in Nat
  <2>1. FileSize(t)' = Size(s)
    BY <1>0, <1>2, <1>3, <1>4, SnapshotAssumption DEF FileSize
  <2>2. \A u \in rest : FileSize(u)' = FileSize(u) /\ FileSize(u) \in Nat
    BY <1>2, <1>4, Sizes DEF FileSize, Taken, BudgetInv
  <2> QED
    BY <1>5, <2>1, <2>2
<1> HIDE DEF f, rest, t
<1>9. \A u \in Taken' : f[u] = FileSize(u)' /\ f[u] \in Nat
  BY <1>0, <1>5, <1>8 DEF rest
<1>10. TotalSize(Taken)' = SumFunctionOnSet(f, Taken')
  BY <1>5, <1>9, TotalIsSumThen DEF TotalSize
<1>11. SumFunctionOnSet(f, Taken') = Size(s) + SumFunctionOnSet(f, rest)
  <2>1. SumFunctionOnSet(f, Taken') = f[t] + SumFunctionOnSet(f, Taken' \ {t})
    BY <1>5, <1>9, SumWithMore
  <2> QED
    BY <1>5, <1>8, <2>1 DEF rest
<1>12. SumFunctionOnSet(f, rest) = TotalSize(rest)
  BY <1>7, <1>8, TotalIsSum
<1>13. ASSUME Budget > 0
       PROVE  TotalSize(Taken)' <= Budget \/ Cardinality(Taken') = 1
  <2>1. TotalSize(Taken) + Size(s) <= Budget \/ Taken = {}
    BY <1>0, <1>1, <1>13 DEF BudgetInv, Afforded
  <2>2. CASE Taken = {}
    <3>1. Taken' = {t}
      BY <1>5, <2>2
    <3> QED
      BY <3>1, FS_Singleton
  <2>3. CASE TotalSize(Taken) + Size(s) <= Budget
    BY <1>0, <1>1, <1>7, <1>10, <1>11, <1>12, <2>3
  <2> QED
    BY <2>1, <2>2, <2>3
<1> QED
  BY <1>5, <1>6, <1>13 DEF Afforded

(* Every other step opens nothing, and takes at most names away.            *)
LEMMA OthersKeep ==
  ASSUME CacheInv, [Next]_vars, ~\E l \in Loop : Open(l) \/ Publish(l)
  PROVE  Keeps /\ \A l \in InFlight' : l \in InFlight /\ Head(queue'[l]) = Head(queue[l])
<1> DEFINE Goal == /\ Keeps
                   /\ \A l \in InFlight' : l \in InFlight /\ Head(queue'[l]) = Head(queue[l])
<1>1. ASSUME SameBlocks, \A t \in Text : final'[t] \in {final[t], NoInode}
      PROVE  Keeps
  BY <1>1 DEF Keeps, SameBlocks, CacheInv, TypeInv, TypeOK
<1>2. ASSUME data' = data, \A t \in Text : final'[t] \in {final[t], NoInode}
      PROVE  Keeps
  BY <1>1, <1>2 DEF SameBlocks
<1>3. ASSUME fd' = fd, queue' = queue
      PROVE  \A l \in InFlight' : l \in InFlight /\ Head(queue'[l]) = Head(queue[l])
  BY <1>3 DEF InFlight
<1>4. CASE Crash
  BY <1>2, <1>4 DEF Crash, InFlight
<1>5. CASE UNCHANGED vars
  BY <1>2, <1>3, <1>5 DEF vars
<1>6. ASSUME NEW l \in Loop, Step(l) PROVE Goal
  <2>1. CASE Construct(l) \/ Drop(l) \/ Retire(l) \/ BeginFlush(l) \/ EndFlush(l)
    BY <1>2, <1>3, <2>1 DEF Construct, Drop, Retire, BeginFlush, EndFlush
  <2>2. CASE Write(l)
    BY <1>3, <2>2, WritesKeep DEF Write
  <2>3. CASE OpenFails(l) \/ WriteFails(l)
    <3>1. data' = data /\ (\A t \in Text : final'[t] \in {final[t], NoInode}) /\ Settle(l) /\ phase' = phase
      BY <2>3 DEF OpenFails, WriteFails
    <3>2. queue[l] # <<>>
      BY <2>3 DEF OpenFails, WriteFails, CacheInv, TypeInv, HeadOpen
    <3>3. InFlight' = {}
      BY <3>1, <3>2, SettleCloses DEF InFlight, CacheInv
    <3> QED
      BY <1>2, <3>1, <3>3
  <2>4. ASSUME NEW s \in Snapshot, Enqueue(l, s) PROVE Goal
    <3>1. UNCHANGED <<final, data, fd>> /\ queue' = [queue EXCEPT ![l] = Append(queue[l], s)]
      BY <2>4 DEF Enqueue
    <3>2. \A m \in InFlight : queue[m] # <<>> /\ queue[m] \in Seq(Snapshot)
      BY DEF InFlight, CacheInv, TypeInv, TypeOK, HeadOpen
    <3>3. \A m \in InFlight : Head(queue'[m]) = Head(queue[m])
      BY <3>1, <3>2 DEF CacheInv, TypeInv, TypeOK, InFlight
    <3> QED
      BY <1>2, <3>1, <3>3 DEF InFlight
  <2>5. ASSUME NEW p \in Prompt, LoadNothing(l, p) \/ LoadHit(l, p) \/ LoadDrops(l, p)
        PROVE  Goal
    <3>1. \A t \in Text : final'[t] \in {final[t], NoInode}
      BY <2>5 DEF LoadNothing, LoadHit, LoadDrops, CacheInv, TypeInv, TypeOK
    <3>2. SameBlocks
      BY <2>5, HitKeepsBlocks DEF LoadNothing, LoadDrops, SameBlocks, CacheInv
    <3>3. UNCHANGED <<fd, queue>>
      BY <2>5 DEF LoadNothing, LoadHit, LoadDrops
    <3> QED
      BY <1>1, <1>3, <3>1, <3>2, <3>3
  <2> QED
    BY <1>6, <2>1, <2>2, <2>3, <2>4, <2>5 DEF Step
<1>7. ASSUME NEW t \in Text, GrowOld(t) PROVE Goal
  <2>1. SameBlocks /\ UNCHANGED <<final, fd, queue>>
    BY <1>7, AgesKeepBlocks DEF CacheInv, GrowOld
  <2> QED
    BY <1>1, <1>3, <2>1
<1> QED
  BY <1>4, <1>5, <1>6, <1>7, NextSplit

(* Tmp names and open files are as they were, and no loop has become live.  *)
LEMMA SweptSame ==
  ASSUME Swept, UNCHANGED <<tmp, fd>>,
         \A l \in InFlight : Head(queue'[l]) = Head(queue[l]),
         (\E l \in Loop : phase'[l] = "live") => \E l \in Loop : phase[l] = "live"
  PROVE  Swept'
BY DEF Swept, InFlight

(* The head of the queue settles, and its tmp name is gone.                 *)
LEMMA SweptSettled ==
  ASSUME BudgetInv, NEW l \in Loop, queue[l] # <<>>, UNCHANGED phase,
         \A t \in Text : tmp'[t] # NoInode => tmp'[t] = tmp[t],
         fd[l] # NoInode => tmp'[Head(queue[l]).text] = NoInode
  PROVE  Swept'
<1> SUFFICES ASSUME \E m \in Loop : phase[m] = "live", NEW t \in Text, tmp'[t] # NoInode
             PROVE  FALSE
  BY DEF Swept
<1>1. tmp[t] # NoInode
  OBVIOUS
<1>2. PICK m \in InFlight : fd[m] = tmp[t] /\ Head(queue[m]).text = t
  BY <1>1 DEF BudgetInv, Swept
<1>3. m = l
  BY <1>2, OneInFlight DEF BudgetInv
<1> QED
  BY <1>2, <1>3 DEF InFlight

(* A file is opened while no other write is in flight.                      *)
LEMMA SweptOpened ==
  ASSUME BudgetInv, NEW l \in Loop, Open(l)
  PROVE  Swept'
<1> SUFFICES ASSUME \E m \in Loop : phase[m] = "live", NEW t \in Text, tmp'[t] # NoInode
             PROVE  \E m \in InFlight' : fd'[m] = tmp'[t] /\ Head(queue'[m]).text = t
  BY DEF Swept, Open
<1>1. queue[l] # <<>> /\ fd[l] = NoInode /\ queue' = queue
  BY DEF Open
<1>2. PICK u \in Text : u = Head(queue[l]).text
  BY <1>1, SnapshotAssumption DEF BudgetInv, CacheInv, TypeInv, TypeOK
<1>3. PICK i \in Inode : tmp' = [tmp EXCEPT ![u] = i] /\ fd' = [fd EXCEPT ![l] = i]
  BY <1>2 DEF Open
<1>4. InFlight = {}
  BY <1>1, OneInFlight DEF BudgetInv, InFlight
<1>5. tmp[t] = NoInode
  BY <1>4 DEF BudgetInv, Swept
<1>6. t = u
  BY <1>3, <1>5 DEF BudgetInv, CacheInv, TypeInv, TypeOK
<1>7. tmp'[t] = i /\ fd'[l] = i
  BY <1>2, <1>3, <1>6 DEF BudgetInv, CacheInv, TypeInv, TypeOK
<1> QED
  BY <1>1, <1>2, <1>6, <1>7, InodeAssumption DEF InFlight

(* No step leaves a tmp name behind while a loop is live.                   *)
LEMMA SweptStep ==
  ASSUME BudgetInv, [Next]_vars
  PROVE  Swept'
<1>1. CASE Crash
  BY <1>1 DEF Crash, Swept
<1>2. CASE UNCHANGED vars
  BY <1>2, SweptSame DEF vars, BudgetInv
<1>3. ASSUME NEW t \in Text, GrowOld(t) PROVE Swept'
  BY <1>3, SweptSame DEF GrowOld, BudgetInv
<1>4. ASSUME NEW l \in Loop, Step(l) PROVE Swept'
  <2>1. CASE Construct(l)
    BY <2>1 DEF Construct, Swept
  <2>2. CASE Drop(l) \/ Retire(l) \/ BeginFlush(l) \/ EndFlush(l)
    <3>1. UNCHANGED <<tmp, fd, queue>>
      BY <2>2 DEF Drop, Retire, BeginFlush, EndFlush
    <3>2. \A m \in Loop : phase'[m] = "live" => phase[m] = "live"
      BY <2>2 DEF Drop, Retire, BeginFlush, EndFlush, BudgetInv, CacheInv, TypeInv, TypeOK
    <3> QED
      BY <3>1, <3>2, SweptSame DEF BudgetInv
  <2>3. CASE Open(l)
    BY <2>3, SweptOpened
  <2>4. CASE Write(l)
    BY <2>4, SweptSame DEF Write, BudgetInv
  <2>5. CASE OpenFails(l)
    BY <2>5, SweptSettled DEF OpenFails
  <2>6. CASE WriteFails(l) \/ Publish(l)
    <3>1. queue[l] # <<>> /\ phase' = phase
      BY <2>6 DEF WriteFails, Publish, BudgetInv, CacheInv, TypeInv, HeadOpen
    <3>2. PICK t \in Text : t = Head(queue[l]).text
      BY <3>1, SnapshotAssumption DEF BudgetInv, CacheInv, TypeInv, TypeOK
    <3>3. tmp' = [tmp EXCEPT ![t] = NoInode]
      BY <2>6, <3>2 DEF WriteFails, Publish, BudgetInv, CacheInv, TypeInv, TypeOK
    <3>4. tmp'[t] = NoInode /\ \A u \in Text : tmp'[u] # NoInode => tmp'[u] = tmp[u]
      BY <3>3 DEF BudgetInv, CacheInv, TypeInv, TypeOK
    <3> QED
      BY <3>1, <3>2, <3>4, SweptSettled
  <2>7. ASSUME NEW s \in Snapshot, Enqueue(l, s) PROVE Swept'
    <3>1. UNCHANGED <<tmp, fd, phase>> /\ queue' = [queue EXCEPT ![l] = Append(queue[l], s)]
      BY <2>7 DEF Enqueue
    <3>2. \A m \in InFlight : queue[m] # <<>> /\ queue[m] \in Seq(Snapshot)
      BY DEF InFlight, BudgetInv, CacheInv, TypeInv, TypeOK, HeadOpen
    <3>3. \A m \in InFlight : Head(queue'[m]) = Head(queue[m])
      BY <3>1, <3>2 DEF BudgetInv, CacheInv, TypeInv, TypeOK, InFlight
    <3> QED
      BY <3>1, <3>3, SweptSame DEF BudgetInv
  <2>8. ASSUME NEW p \in Prompt, LoadNothing(l, p) \/ LoadHit(l, p) \/ LoadDrops(l, p)
        PROVE  Swept'
    BY <2>8, SweptSame DEF LoadNothing, LoadHit, LoadDrops, BudgetInv
  <2> QED
    BY <1>4, <2>1, <2>2, <2>3, <2>4, <2>5, <2>6, <2>7, <2>8 DEF Step
<1> QED
  BY <1>1, <1>2, <1>3, <1>4, NextSplit

(* Every step affords what it opens and what it publishes.                  *)
LEMMA BudgetStep ==
  ASSUME Drained, BudgetInv, [Next]_vars
  PROVE  BudgetInv'
<1>1. CacheInv'
  BY TypeStep, SafeStep, CacheStep DEF BudgetInv, CacheInv
<1>2. IsFiniteSet(Taken)' /\ Afforded'
  <2>1. ASSUME NEW l \in Loop, Open(l) PROVE IsFiniteSet(Taken)' /\ Afforded'
    BY <2>1, OpenAffords
  <2>2. ASSUME NEW l \in Loop, Publish(l) PROVE IsFiniteSet(Taken)' /\ Afforded'
    BY <2>2, PublishAffords
  <2>3. CASE ~\E l \in Loop : Open(l) \/ Publish(l)
    BY <2>3, OthersKeep, StillAfforded DEF BudgetInv
  <2> QED
    BY <2>1, <2>2, <2>3
<1>3. Swept'
  BY SweptStep
<1> QED
  BY <1>1, <1>2, <1>3 DEF BudgetInv

(* The truncated files of earlier versions are few enough for the budget:   *)
(* each counts as one.                                                      *)
LEMMA BudgetInit ==
  ASSUME Init, FitsAtFirst
  PROVE  BudgetInv
<1>1. CacheInv
  BY TypeInit, SafeInit, CacheInit DEF CacheInv
<1>2. PICK place \in [Truncated -> Inode] :
        /\ \A t, u \in Truncated : place[t] = place[u] => t = u
        /\ final = [t \in Text |-> IF t \in Truncated THEN place[t] ELSE NoInode]
        /\ data = [i \in Inode |->
                     IF \E t \in Truncated : place[t] = i
                     THEN LegacyFile(CHOOSE t \in Truncated : place[t] = i)
                     ELSE Empty]
  BY DEF Init
<1>3. Taken = Truncated /\ IsFiniteSet(Taken)
  <2>1. \A t \in Truncated : t \in Text /\ final[t] = place[t] /\ place[t] # NoInode
    BY <1>2, TruncatedAssumption, InodeAssumption
  <2>2. \A t \in Text \ Truncated : final[t] = NoInode
    BY <1>2
  <2>3. Taken = Truncated
    BY <2>1, <2>2 DEF Taken
  <2> QED
    BY <2>3 DEF FitsAtFirst
<1>4. ASSUME NEW t \in Taken PROVE FileSize(t) = 1
  <2>1. t \in Truncated /\ final[t] = place[t] /\ place[t] \in Inode
    BY <1>2, <1>3, TruncatedAssumption
  <2>2. PICK u \in Truncated : data[final[t]] = LegacyFile(u)
    <3>1. (CHOOSE u \in Truncated : place[u] = place[t]) \in Truncated
      BY <2>1
    <3> QED
      BY <1>2, <2>1, <3>1
  <2>3. LegacyFile(u).blk[Payload] = NoSnap
    BY DEF LegacyFile, Empty, Block, Payload
  <2> QED
    BY <2>2, <2>3 DEF FileSize
<1>5. TotalSize(Taken) = Cardinality(Taken)
  <2> DEFINE f == [t \in Taken |-> 1]
  <2>1. \A t \in Taken : f[t] = 1 /\ f[t] = FileSize(t)
    BY <1>4
  <2> HIDE DEF f
  <2>2. TotalSize(Taken) = SumFunctionOnSet(f, Taken)
    BY <1>3, <2>1, TotalIsSum
  <2> QED
    BY <1>3, <2>1, <2>2, SumOfOnes
<1>6. InFlight = {} /\ \A l \in Loop : phase[l] # "live"
  BY DEF Init, InFlight
<1>7. Afforded
  BY <1>3, <1>5, <1>6 DEF Afforded, FitsAtFirst
<1>8. Swept
  BY <1>6 DEF Swept
<1> QED
  BY <1>1, <1>3, <1>7, <1>8 DEF BudgetInv

(* The directory never holds more than its budget, the file being written   *)
(* included (one checkpoint larger than it excepted), nor a tmp file that    *)
(* nobody writes while a loop is live: evictIfNeeded() runs before the write *)
(* whose rename adds the file.                                              *)
THEOREM StaysWithinBudget == ASSUME Drained, FitsAtFirst PROVE Spec => []WithinBudget
<1>1. BudgetInv => WithinBudget
  BY DEF BudgetInv, Afforded, Swept, WithinBudget
<1>2. Init => BudgetInv
  BY BudgetInit
<1>3. BudgetInv /\ [Next]_vars => BudgetInv'
  BY BudgetStep
<1> QED
  BY <1>1, <1>2, <1>3, PTL DEF Spec
=============================================================================
