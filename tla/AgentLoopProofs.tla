-------------------------- MODULE AgentLoopProofs --------------------------
(***************************************************************************)
(* AgentLoop for every value of the constants, whatever may fail and        *)
(* however often start() is called: its types, what a prefill captures,     *)
(* that without a harm every checkpoint is its text's, and that the context *)
(* spells the transcript.                                                   *)
(***************************************************************************)
EXTENDS AgentLoop, SequenceTheorems, FiniteSetTheorems, WellFoundedInduction, TLAPS

(* Of the failures of what is to be proved by induction, one is the least.  *)
LEMMA LeastFailure ==
  ASSUME NEW B \in SUBSET Nat, B # {}
  PROVE  \E m \in B : \A n \in B : m <= n
<1> DEFINE R == OpToRel(<, Nat)
<1>1. IsWellFoundedOn(R, Nat)
  BY NatLessThanWellFounded
<1>2. PICK x \in B : x \in Nat
  OBVIOUS
<1>3. PICK y \in B : \A z \in B : ~(<<z, y>> \in R)
  BY <1>1, <1>2, WFMin
<1>4. \A z, w \in Nat : z < w => <<z, w>> \in R
  BY DEF OpToRel
<1> HIDE DEF R
<1>5. \A z \in B : z \in Nat /\ ~(z < y)
  BY <1>3, <1>4
<1> QED
  BY <1>5

----------------------------------------------------------------------------
(* Concatenations *)

(* g[i] is the concatenation of the first i sequences of s.                 *)
Joins(g, s, n) == \A i \in 1..n : g[i] = IF i = 1 THEN s[i] ELSE g[i - 1] \o s[i]

(* There is a function that joins the sequences of s one by one.            *)
LEMMA JoinsExist ==
  ASSUME NEW s, NEW N \in Nat
  PROVE  \E g : Joins(g, s, N)
<1> DEFINE B == {n \in Nat : ~\E g : Joins(g, s, n)}
<1> SUFFICES ASSUME B # {} PROVE FALSE
  OBVIOUS
<1>1. PICK n \in B : \A m \in B : n <= m
  BY LeastFailure
<1>2. CASE n = 0
  <2>1. \A g : Joins(g, s, 0)
    BY DEF Joins
  <2> QED
    BY <1>1, <1>2, <2>1
<1>3. CASE n # 0
  <2>1. n - 1 \in Nat /\ n - 1 \notin B
    BY <1>1, <1>3
  <2>2. PICK g : Joins(g, s, n - 1)
    BY <2>1
  <2> DEFINE h == [i \in 1..n |-> IF i = 1 THEN s[i] ELSE g[i - 1] \o s[i]]
  <2>3. \A i \in 1..(n - 1) : h[i] = g[i]
    BY <1>3, <2>1, <2>2 DEF Joins
  <2>4. ASSUME NEW i \in 1..n, i # 1 PROVE h[i] = g[i - 1] \o s[i] /\ h[i - 1] = g[i - 1]
    <3>1. i - 1 \in 1..(n - 1)
      BY <2>1, <2>4
    <3> QED
      BY <2>3, <2>4, <3>1
  <2>5. \A i \in 1..n : i = 1 => h[i] = s[i]
    OBVIOUS
  <2>6. Joins(h, s, n)
    <3> HIDE DEF h
    <3> QED
      BY <2>4, <2>5 DEF Joins
  <2> QED
    BY <1>1, <2>6
<1> QED
  BY <1>2, <1>3

(* What is joined is what the recursion says.                               *)
LEMMA FlattenUnfolds ==
  ASSUME NEW T, NEW s \in Seq(T), s # <<>>
  PROVE  \E g : Joins(g, s, Len(s)) /\ FlattenSeq(s) = g[Len(s)]
<1> DEFINE Is(g) == g = [i \in 1..Len(s) |-> IF i = 1 THEN s[i] ELSE g[i - 1] \o s[i]]
           joined == CHOOSE g : Is(g)
<1>1. FlattenSeq(s) = joined[Len(s)]
  BY DEF FlattenSeq
<1>2. \E g : Is(g)
  <2>1. PICK g : Joins(g, s, Len(s))
    BY JoinsExist
  <2> DEFINE h == [i \in 1..Len(s) |-> g[i]]
  <2>2. \A i \in 1..Len(s) : g[i] = IF i = 1 THEN s[i] ELSE h[i - 1] \o s[i]
    BY <2>1 DEF Joins
  <2>3. Is(h)
    BY <2>2
  <2> QED
    BY <2>3
<1>3. Is(joined)
  <2> HIDE DEF Is
  <2> QED
    BY <1>2
<1>4. Joins(joined, s, Len(s))
  <2> HIDE DEF joined
  <2> QED
    BY <1>3 DEF Joins
<1> QED
  BY <1>1, <1>4

(* Sequences join to a sequence of the same elements.                       *)
LEMMA JoinsType ==
  ASSUME NEW C, NEW s \in Seq(Seq(C)), NEW g, NEW n \in 0..Len(s), Joins(g, s, n)
  PROVE  \A i \in 1..n : g[i] \in Seq(C)
<1> DEFINE B == {i \in 1..n : g[i] \notin Seq(C)}
<1> SUFFICES ASSUME B # {} PROVE FALSE
  OBVIOUS
<1>0. B \subseteq Nat
  OBVIOUS
<1>1. PICK i \in B : \A j \in B : i <= j
  BY <1>0, LeastFailure
<1>2. s[i] \in Seq(C) /\ i \in 1..n
  OBVIOUS
<1>3. CASE i = 1
  BY <1>2, <1>3 DEF Joins
<1>4. CASE i # 1
  <2>1. i - 1 \in 1..n /\ i - 1 \notin B
    BY <1>1, <1>2, <1>4
  <2>2. g[i - 1] \in Seq(C)
    BY <2>1
  <2>3. g[i] = g[i - 1] \o s[i]
    BY <1>2, <1>4 DEF Joins
  <2>4. g[i - 1] \o s[i] \in Seq(C)
    BY <1>2, <2>2, ConcatProperties
  <2> QED
    BY <2>3, <2>4
<1> QED
  BY <1>3, <1>4

(* Nothing is the concatenation of nothing.                                 *)
LEMMA FlattenNothing == FlattenSeq(<<>>) = <<>>
BY DEF FlattenSeq

(* A concatenation is a sequence, and one more sequence goes behind it.     *)
LEMMA FlattenMore ==
  ASSUME NEW C, NEW s \in Seq(Seq(C)), NEW e \in Seq(C)
  PROVE  /\ FlattenSeq(s) \in Seq(C)
         /\ FlattenSeq(Append(s, e)) = FlattenSeq(s) \o e
<1>1. ASSUME NEW t \in Seq(Seq(C)) PROVE FlattenSeq(t) \in Seq(C)
  <2>1. CASE t = <<>>
    <3>1. <<>> \in Seq(C)
      OBVIOUS
    <3> QED
      BY <2>1, <3>1, FlattenNothing
  <2>2. CASE t # <<>>
    <3>1. PICK g : Joins(g, t, Len(t)) /\ FlattenSeq(t) = g[Len(t)]
      BY <2>2, FlattenUnfolds
    <3>2. Len(t) \in 1..Len(t) /\ Len(t) \in 0..Len(t)
      BY <2>2
    <3>3. \A i \in 1..Len(t) : g[i] \in Seq(C)
      BY <3>1, <3>2, JoinsType
    <3> QED
      BY <3>1, <3>2, <3>3
  <2> QED
    BY <2>1, <2>2
<1>a. PICK m \in Seq(Seq(C)) : m = Append(s, e)
  <2>1. Append(s, e) \in Seq(Seq(C))
    BY AppendProperties
  <2> QED
    BY <2>1
<1>b. PICK k \in Nat : k = Len(s)
  OBVIOUS
<1>2. m # <<>> /\ Len(m) = k + 1
  BY <1>a, <1>b
<1>3. m[k + 1] = e /\ \A i \in 1..k : m[i] = s[i]
  BY <1>a, <1>b
<1>4. PICK h : Joins(h, m, k + 1) /\ FlattenSeq(m) = h[k + 1]
  BY <1>2, FlattenUnfolds
<1>5. CASE s = <<>>
  <2>1. k = 0
    BY <1>5, <1>b
  <2>2. FlattenSeq(m) = e
    BY <1>2, <1>3, <1>4, <2>1 DEF Joins
  <2>3. <<>> \o e = e
    BY ConcatEmptySeq
  <2>4. FlattenSeq(s) \in Seq(C) /\ FlattenSeq(s) = <<>>
    BY <1>1, <1>5, FlattenNothing
  <2> QED
    BY <2>2, <2>3, <2>4, <1>a
<1>6. CASE s # <<>>
  <2>1. PICK g : Joins(g, s, k) /\ FlattenSeq(s) = g[k]
    BY <1>6, <1>b, FlattenUnfolds
  <2>2. k # 0
    BY <1>6, <1>b
  <2>3. \A i \in 1..k : s[i] = m[i]
    BY <1>3
  <2>4. k \in Nat /\ Joins(g, s, k) /\ Joins(h, m, k + 1)
    BY <1>2, <1>4, <2>1
  <2>5. \A i \in 1..k : g[i] = h[i]
    <3> DEFINE B == {i \in 1..k : g[i] # h[i]}
    <3> SUFFICES ASSUME B # {} PROVE FALSE
      OBVIOUS
    <3>1. B \subseteq Nat
      OBVIOUS
    <3>2. PICK i \in B : \A j \in B : i <= j
      BY <3>1, LeastFailure
    <3>3. i \in 1..k /\ i \in 1..(k + 1) /\ s[i] = m[i]
      BY <2>3
    <3>4. CASE i = 1
      BY <2>4, <3>3, <3>4 DEF Joins
    <3>5. CASE i # 1
      <4>1. PICK j \in Nat : j = i - 1
        BY <3>3, <3>5
      <4>2. j \in 1..k /\ ~(i <= j)
        BY <3>3, <3>5, <4>1
      <4>3. j \notin B
        <5> HIDE DEF B
        <5> QED
          BY <3>2, <4>2
      <4>4. g[i - 1] = h[i - 1]
        BY <4>1, <4>2, <4>3
      <4> QED
        BY <2>4, <3>3, <3>5, <4>4 DEF Joins
    <3> QED
      BY <3>4, <3>5
  <2>6. h[k + 1] = h[k] \o m[k + 1]
    <3>1. k + 1 # 1 /\ k + 1 \in 1..(k + 1) /\ (k + 1) - 1 = k
      BY <2>2
    <3> QED
      BY <2>4, <3>1 DEF Joins
  <2>7. g[k] = h[k]
    BY <2>2, <2>5
  <2> QED
    BY <1>1, <1>3, <1>4, <2>1, <2>6, <2>7, <1>a
<1> QED
  BY <1>5, <1>6

(* The concatenation of two runs of sequences.                              *)
LEMMA FlattenBoth ==
  ASSUME NEW C, NEW s \in Seq(Seq(C)), NEW t \in Seq(Seq(C))
  PROVE  FlattenSeq(s \o t) = FlattenSeq(s) \o FlattenSeq(t)
<1> DEFINE Bad(u) == FlattenSeq(s \o u) # FlattenSeq(s) \o FlattenSeq(u)
           B == {Len(u) : u \in {v \in Seq(Seq(C)) : Bad(v)}}
<1> SUFFICES ASSUME B # {} PROVE FALSE
  OBVIOUS
<1>1. B \subseteq Nat
  OBVIOUS
<1>2. PICK n \in B : \A m \in B : n <= m
  BY <1>1, LeastFailure
<1>3. PICK u \in Seq(Seq(C)) : Bad(u) /\ Len(u) = n
  BY <1>2
<1> HIDE DEF B
<1>4. FlattenSeq(s) \in Seq(C)
  BY <<>> \in Seq(C), FlattenMore
<1>5. CASE u = <<>>
  <2>1. s \o <<>> = s /\ FlattenSeq(s) \o <<>> = FlattenSeq(s)
    BY <1>4
  <2> QED
    BY <1>3, <1>5, <2>1, FlattenNothing
<1>6. CASE u # <<>>
  <2>1. PICK v \in Seq(Seq(C)), e \in Seq(C) : u = Append(v, e)
    BY <1>6, SequenceEmptyOrAppend
  <2>0. n = Len(v) + 1 /\ Len(v) \in Nat
    BY <1>3, <2>1, AppendProperties
  <2>2. ~Bad(v)
    <3>1. Len(v) \notin B
      BY <1>2, <2>0
    <3> QED
      BY <3>1 DEF B
  <2>3. s \o v \in Seq(Seq(C)) /\ s \o u = Append(s \o v, e)
    <3>1. s \o v \in Seq(Seq(C)) /\ <<e>> \in Seq(Seq(C))
      BY ConcatProperties
    <3>2. u = v \o <<e>> /\ Append(s \o v, e) = (s \o v) \o <<e>>
      BY <2>1, <3>1, AppendIsConcat
    <3>3. (s \o v) \o <<e>> = s \o (v \o <<e>>)
      <4>1. PICK last \in Seq(Seq(C)) : last = <<e>>
        BY <3>1
      <4>2. (s \o v) \o last = s \o (v \o last)
        OBVIOUS
      <4> QED
        BY <4>1, <4>2
    <3> QED
      BY <3>1, <3>2, <3>3
  <2>4. FlattenSeq(s \o u) = FlattenSeq(s \o v) \o e
    BY <2>3, FlattenMore
  <2>5. FlattenSeq(u) = FlattenSeq(v) \o e /\ FlattenSeq(v) \in Seq(C)
    BY <2>1, FlattenMore
  <2>6. (FlattenSeq(s) \o FlattenSeq(v)) \o e = FlattenSeq(s) \o (FlattenSeq(v) \o e)
    <3>1. PICK a \in Seq(C), b \in Seq(C) : a = FlattenSeq(s) /\ b = FlattenSeq(v)
      BY <1>4, <2>5
    <3>2. (a \o b) \o e = a \o (b \o e)
      OBVIOUS
    <3> QED
      BY <3>1, <3>2
  <2> QED
    BY <1>3, <2>2, <2>4, <2>5, <2>6
<1> QED
  BY <1>5, <1>6

-----------------------------------------------------------------------------
(* What is asked of the tokenizer: the tokens of a text spell the text.     *)
Lossless ==
  \A t \in Seq(Char) : Tokenize(t) \in Seq(Seq(Char)) /\ TextOf(Tokenize(t)) = t

Tokens == Seq(Seq(Char))
Cell == Seq(Char) \cup {Hole}
Context == [kv : Seq(Cell), n : Nat, lg : Seq(Cell)]

----------------------------------------------------------------------------
(* Sequences *)

(* A prefix, and the rest.                                                  *)
LEMMA PrefixRest ==
  ASSUME NEW T, NEW s \in Seq(T), NEW t \in Seq(T), IsPrefix(s, t)
  PROVE  /\ Len(s) <= Len(t) /\ SubSeq(t, 1, Len(s)) = s
         /\ SubSeq(t, Len(s) + 1, Len(t)) \in Seq(T)
         /\ t = s \o SubSeq(t, Len(s) + 1, Len(t))
<1>1. Len(s) \in Nat /\ Len(t) \in Nat /\ Len(s) <= Len(t)
  BY DEF IsPrefix
<1>2. SubSeq(s, 1, Len(s)) = s
  BY SubSeqFull
<1>3. SubSeq(t, 1, Len(s)) = s
  BY <1>2 DEF IsPrefix
<1>4. SubSeq(t, Len(s) + 1, Len(t)) \in Seq(T)
  BY <1>1
<1>5. 1 \in 1..(Len(t) + 1) /\ Len(s) \in (1 - 1)..Len(t) /\ Len(t) \in Len(s)..Len(t)
  BY <1>1
<1>6. SubSeq(t, 1, Len(s)) \o SubSeq(t, Len(s) + 1, Len(t)) = SubSeq(t, 1, Len(t))
  BY <1>5, ConcatAdjacentSubSeq
<1>7. SubSeq(t, 1, Len(t)) = t
  BY SubSeqFull
<1> QED
  BY <1>1, <1>3, <1>4, <1>6, <1>7

(* A prefix of the same length is the whole.                                *)
LEMMA PrefixWhole ==
  ASSUME NEW T, NEW s \in Seq(T), NEW t \in Seq(T), IsPrefix(s, t), Len(s) = Len(t)
  PROVE  s = t
<1>1. SubSeq(t, 1, Len(t)) = t
  BY SubSeqFull
<1> QED
  BY <1>1, PrefixRest

(* The tokens of a text, with the leading one, spell it.                    *)
LEMMA WholeText ==
  ASSUME Lossless, NEW t \in Seq(Char)
  PROVE  Whole(t) \in Tokens /\ Len(Whole(t)) \in Nat \ {0} /\ TextOf(Whole(t)) = t
<1>1. PICK toks \in Tokens : toks = Tokenize(t) /\ FlattenSeq(toks) = t
  BY DEF Lossless, Tokens, TextOf
<1>0. PICK nothing \in Seq(Char) : nothing = <<>>
  BY EmptySeq
<1>2. PICK bos \in Tokens : bos = <<nothing>>
  <2>1. <<nothing>> \in Tokens
    BY DEF Tokens
  <2> QED
    BY <2>1
<1>3. bos \o toks \in Tokens /\ Len(bos \o toks) = 1 + Len(toks) /\ Len(toks) \in Nat
  BY <1>1, <1>2 DEF Tokens
<1>4. FlattenSeq(bos) = <<>>
  <2>1. PICK none \in Tokens : none = <<>>
    BY EmptySeq DEF Tokens
  <2>3. bos = Append(none, nothing)
    BY <1>2, <2>1 DEF Tokens
  <2>4. FlattenSeq(Append(none, nothing)) = FlattenSeq(none) \o nothing
    BY FlattenMore DEF Tokens
  <2>5. FlattenSeq(none) = nothing
    BY <1>0, <2>1, FlattenNothing
  <2>6. nothing \o nothing = <<>>
    BY <1>0
  <2> QED
    BY <1>0, <2>3, <2>4, <2>5, <2>6
<1>5. FlattenSeq(bos \o toks) = FlattenSeq(bos) \o FlattenSeq(toks)
  BY FlattenBoth DEF Tokens
<1>6. <<>> \o t = t
  BY ConcatEmptySeq
<1>7. Whole(t) = bos \o toks
  BY <1>0, <1>1, <1>2 DEF Whole, Bos
<1>8. Len(bos \o toks) \in Nat \ {0}
  BY <1>3
<1> QED
  BY <1>1, <1>3, <1>4, <1>5, <1>6, <1>7, <1>8 DEF TextOf

(* Tokens are cells.                                                        *)
LEMMA TokensAreCells == Tokens \subseteq Seq(Cell)
<1>1. Seq(Char) \subseteq Cell
  BY DEF Cell
<1>2. ASSUME NEW s \in Tokens PROVE s \in Seq(Cell)
  BY <1>1, <1>2, SeqMonotonic DEF Tokens
<1> QED
  BY <1>2

(* The first n of a sequence.                                               *)
LEMMA UptoType ==
  ASSUME NEW T, NEW s \in Seq(T), NEW n \in Nat
  PROVE  /\ Upto(s, n) \in Seq(T)
         /\ Len(Upto(s, n)) = IF n <= Len(s) THEN n ELSE Len(s)
         /\ n >= Len(s) => Upto(s, n) = s
         /\ n <= Len(s) => Upto(s, n) = SubSeq(s, 1, n)
<1>1. SubSeq(s, 1, Len(s)) = s /\ Len(s) \in Nat
  BY SubSeqFull
<1>2. CASE n <= Len(s)
  <2>1. Upto(s, n) = SubSeq(s, 1, n)
    BY <1>2 DEF Upto
  <2>2. SubSeq(s, 1, n) \in Seq(T) /\ Len(SubSeq(s, 1, n)) = n
    BY <1>1, <1>2
  <2>3. n >= Len(s) => n = Len(s)
    <3>1. PICK k \in Nat : k = Len(s)
      BY <1>1
    <3> QED
      BY <1>2, <3>1
  <2> QED
    BY <1>1, <1>2, <2>1, <2>2, <2>3
<1>3. CASE ~(n <= Len(s))
  <2>1. Upto(s, n) = s
    BY <1>1, <1>3 DEF Upto
  <2> QED
    BY <1>1, <1>3, <2>1
<1> QED
  BY <1>2, <1>3

----------------------------------------------------------------------------
(* The context *)

(* A decode that succeeds: the cells, or the holes before n_past_, and the  *)
(* new tokens.                                                              *)
LEMMA AppendedType ==
  ASSUME NEW c \in Context, NEW toks \in Seq(Cell)
  PROVE  /\ Appended(c, toks) \in Context
         /\ Appended(c, toks).n = c.n + Len(toks)
         /\ Appended(c, toks).lg = Appended(c, toks).kv
         /\ c.kv # <<>> \/ c.n = 0 => Appended(c, toks).kv = c.kv \o toks
<1>1. c.kv \in Seq(Cell) /\ c.n \in Nat /\ Len(toks) \in Nat
  BY DEF Context
<1>2. Cells(c) \in Seq(Cell)
  <2>1. [i \in 1..c.n |-> Hole] \in Seq(Cell)
    <3>1. Hole \in Cell
      BY DEF Cell
    <3>2. [i \in 1..c.n |-> Hole] \in [1..c.n -> Cell]
      BY <3>1
    <3> QED
      BY <1>1, <3>2, SeqDef
  <2> QED
    BY <1>1, <2>1 DEF Cells
<1>3. Cells(c) \o toks \in Seq(Cell)
  BY <1>2, ConcatProperties
<1>4. ASSUME c.kv # <<>> \/ c.n = 0 PROVE Cells(c) = c.kv
  <2>1. CASE c.kv # <<>>
    BY <2>1 DEF Cells
  <2>2. CASE c.kv = <<>>
    <3>1. c.n = 0
      BY <1>4, <2>2
    <3>2. [i \in 1..0 |-> Hole] = <<>>
      OBVIOUS
    <3> QED
      BY <2>2, <3>1, <3>2 DEF Cells
  <2> QED
    BY <2>1, <2>2
<1>5. Appended(c, toks) = [kv |-> Cells(c) \o toks, n |-> c.n + Len(toks), lg |-> Cells(c) \o toks]
  BY DEF Appended
<1>6. PICK k \in Seq(Cell) : k = Cells(c) \o toks
  BY <1>3
<1>7. Appended(c, toks) = [kv |-> k, n |-> c.n + Len(toks), lg |-> k]
  BY <1>5, <1>6
<1>8. Appended(c, toks) \in Context
  BY <1>1, <1>7 DEF Context
<1>9. Appended(c, toks).kv = k /\ Appended(c, toks).n = c.n + Len(toks) /\ Appended(c, toks).lg = k
  BY <1>7
<1> QED
  BY <1>4, <1>6, <1>8, <1>9

(* A decode that fails behind the first i tokens.                           *)
LEMMA AppendFailedType ==
  ASSUME NEW c \in Context, NEW toks \in Seq(Cell), NEW i \in Nat, i <= Len(toks)
  PROVE  /\ AppendFailed(c, toks, i) \in Context
         /\ AppendFailed(c, toks, i).n = c.n
         /\ AppendFailed(c, toks, i).lg = c.lg
         /\ c.kv # <<>> \/ c.n = 0 =>
              AppendFailed(c, toks, i).kv = c.kv \o SubSeq(toks, 1, i)
<1>1. Upto(toks, i) \in Seq(Cell) /\ Upto(toks, i) = SubSeq(toks, 1, i)
  BY UptoType
<1>2. PICK more \in Seq(Cell) : more = Upto(toks, i)
  BY <1>1
<1>3. /\ Appended(c, more) \in Context
      /\ c.kv # <<>> \/ c.n = 0 => Appended(c, more).kv = c.kv \o more
      /\ Appended(c, more).kv = Cells(c) \o more
  BY AppendedType DEF Appended
<1>4. CASE i = 0
  <2>1. AppendFailed(c, toks, i) = c
    BY <1>4 DEF AppendFailed, Context
  <2>2. SubSeq(toks, 1, i) = <<>>
    BY <1>4
  <2>3. c.kv \o <<>> = c.kv
    BY ConcatEmptySeq DEF Context
  <2> QED
    BY <2>1, <2>2, <2>3
<1>5. CASE i # 0
  <2>1. AppendFailed(c, toks, i) = [c EXCEPT !.kv = Appended(c, more).kv]
    BY <1>2, <1>3, <1>5 DEF AppendFailed
  <2> QED
    BY <1>1, <1>2, <1>3, <2>1 DEF Context
<1> QED
  BY <1>4, <1>5

(* The other operators of the context.                                      *)
LEMMA ContextTypes ==
  ASSUME NEW c \in Context, NEW toks \in Seq(Cell), NEW pos \in Nat
  PROVE  /\ Fresh \in Context /\ Forward(toks) \in Context
         /\ Restore(c, toks) \in Context /\ Rewind(c, pos) \in Context
         /\ ForwardFailed(c, toks) \subseteq Context
<1>1. Fresh \in Context
  BY EmptySeq DEF Fresh, Context
<1>2. Forward(toks) \in Context /\ Restore(c, toks) \in Context
  <2>1. Len(toks) \in Nat
    OBVIOUS
  <2> QED
    BY <2>1 DEF Forward, Restore, Context
<1>3. Rewind(c, pos) \in Context
  BY UptoType DEF Rewind, Context
<1>4. ASSUME NEW i \in 0..(Len(toks) - 1)
      PROVE  [kv |-> Upto(toks, i), n |-> 0, lg |-> c.lg] \in Context
  BY UptoType DEF Context
<1> QED
  BY <1>1, <1>2, <1>3, <1>4 DEF ForwardFailed

----------------------------------------------------------------------------
(* The invariant *)

Checkpoints ==
  [text : Seq(Char), tokens : Nat \ {0}, reason : {"rung", "full", "continued"},
   cells : Seq(Cell)]
Rung == [text : Seq(Char), tokens : Nat \ {0}]

(* Checkpoints a prefill took are their text's own tokens.                  *)
Captures ==
  {c \in Checkpoints : c.reason # "continued" =>
                         c.cells = Whole(c.text) /\ c.tokens = Len(Whole(c.text))}

(* Checkpoints that are what they say.                                      *)
Told ==
  {c \in Checkpoints : /\ c.cells \in Tokens
                       /\ TextOf(c.cells) = c.text
                       /\ Len(c.cells) = c.tokens}

(* All checkpoints, written or not, are in S.                               *)
Hold(S) == store \subseteq S /\ queue \in Seq(S) /\ old \in Seq(S)

Typed ==
  /\ ctx \in Context
  /\ transcript \in Seq(Char) /\ prompt \in Seq(Char)
  /\ nPast \in Nat /\ mark \in Nat /\ mark <= nPast
  /\ pc \in {"new", "load", "prefill", "turn", "idle"}
  /\ rungs \subseteq Rung
  /\ done \in 0..Window /\ skipped \in BOOLEAN /\ harms \in 0..MaxHarms

(* One checkpoint a text, and no more than the budget holds.                *)
Fitting ==
  /\ IsFiniteSet(store) /\ Cardinality(store) <= Kept
  /\ \A c, d \in store : c.text = d.text => c = d

(* In a prefill the first tokens of the prompt are in the context, and the  *)
(* rungs to come are prefixes of it, by text and by tokens.                 *)
Reached ==
  done = 0 \/ (/\ done <= Len(Whole(prompt))
               /\ ctx.kv = SubSeq(Whole(prompt), 1, done) /\ ctx.n = done)

Ahead ==
  \A r \in rungs : /\ IsPrefix(Whole(r.text), Whole(prompt))
                   /\ r.tokens = Len(Whole(r.text)) /\ done <= r.tokens

Staged ==
  /\ pc = "load" => done = 0
  /\ pc = "prefill" => Reached /\ Ahead

CoreInv == Typed /\ Hold(Captures) /\ Fitting /\ Staged

(* Without a harm the context spells the transcript between prefills; what  *)
(* a failed continue() left behind it is not captured before another        *)
(* prefill, since the checkpoint came first.                                *)
Says(c, n, text) ==
  /\ c.kv \in Tokens /\ c.n = n /\ n > 0 /\ n <= Len(c.kv)
  /\ TextOf(SubSeq(c.kv, 1, n)) = text

Session ==
  harms = 0 /\ pc \in {"turn", "idle"} =>
    /\ Says(ctx, nPast, transcript)
    /\ pc = "turn" => ctx.lg = ctx.kv /\ Len(ctx.kv) = nPast
    /\ Len(ctx.kv) > nPast => nPast - mark < Block

SpellInv == CoreInv /\ (harms = 0 => Hold(Told)) /\ Session

----------------------------------------------------------------------------
(* The steps, one by one *)

(* The next decode of a prefill ends within the prompt, at a rung if any.   *)
LEMMA NextEndWithin ==
  ASSUME Lossless, Typed, Ahead, done <= Len(Whole(prompt))
  PROVE  /\ NextEnd \in Nat \ {0} /\ done <= NextEnd /\ NextEnd <= Len(Whole(prompt))
         /\ \A r \in rungs : NextEnd <= r.tokens
<1>1. Whole(prompt) \in Tokens /\ Len(Whole(prompt)) \in Nat \ {0}
  BY WholeText DEF Typed
<1>2. CASE rungs = {}
  BY <1>1, <1>2 DEF NextEnd
<1>3. CASE rungs # {}
  <2> DEFINE B == {r.tokens : r \in rungs}
  <2>1. B \subseteq Nat /\ B # {}
    BY <1>3 DEF Typed, Rung
  <2>2. \E m \in B : \A n \in B : m <= n
    BY <2>1, LeastFailure
  <2>3. Min(B) \in B /\ \A n \in B : Min(B) <= n
    <3> HIDE DEF B
    <3> QED
      BY <2>2 DEF Min
  <2>4. NextEnd = Min(B)
    BY <1>3 DEF NextEnd
  <2>5. PICK r \in rungs : r.tokens = NextEnd
    BY <2>3, <2>4
  <2>6. \A q \in rungs : NextEnd <= q.tokens
    BY <2>3, <2>4
  <2>7. r.tokens \in Nat \ {0} /\ done <= r.tokens /\ r.text \in Seq(Char)
    BY <2>5 DEF Typed, Rung, Ahead
  <2>8. Whole(r.text) \in Tokens /\ r.tokens = Len(Whole(r.text))
    BY <2>7, WholeText DEF Ahead
  <2>9. r.tokens <= Len(Whole(prompt))
    BY <1>1, <2>8, PrefixRest DEF Ahead, Tokens
  <2> QED
    BY <2>5, <2>6, <2>7, <2>9
<1> QED
  BY <1>2, <1>3

(* The decode leaves the prompt up to its end in the context.               *)
LEMMA Advances ==
  ASSUME Lossless, Typed, Reached, Ahead
  PROVE  /\ Advanced \in Context /\ Chunk \in Tokens
         /\ Advanced.kv = SubSeq(Whole(prompt), 1, NextEnd)
         /\ Advanced.n = NextEnd /\ Advanced.lg = Advanced.kv
<1>1. Whole(prompt) \in Tokens /\ Len(Whole(prompt)) \in Nat \ {0}
  BY WholeText DEF Typed
<1>2. done \in Nat /\ done <= Len(Whole(prompt))
  BY <1>1, SizeAssumption DEF Reached, Typed
<1>3. NextEnd \in Nat \ {0} /\ done <= NextEnd /\ NextEnd <= Len(Whole(prompt))
  BY <1>2, NextEndWithin
<1>4. PICK w \in Tokens : w = Whole(prompt)
  BY <1>1
<1>5. PICK e \in Nat : e = NextEnd
  BY <1>3
<1>6. Chunk = SubSeq(w, done + 1, e) /\ Chunk \in Tokens /\ Len(Chunk) = e - done
  BY <1>2, <1>3, <1>4, <1>5 DEF Chunk, Tokens
<1>7. PICK more \in Tokens : more = Chunk
  BY <1>6
<1>8. more \in Seq(Cell)
  BY TokensAreCells
<1>9. CASE done = 0
  <2>1. Advanced = Forward(more)
    BY <1>7, <1>9 DEF Advanced
  <2>2. Forward(more) \in Context
    BY <1>8, ContextTypes DEF Typed
  <2>3. Advanced.kv = more /\ Advanced.n = Len(more) /\ Advanced.lg = more
    BY <2>1 DEF Forward
  <2>4. more = SubSeq(w, 1, e) /\ Len(more) = e
    BY <1>6, <1>7, <1>9
  <2> QED
    BY <1>4, <1>5, <1>6, <2>1, <2>2, <2>3, <2>4
<1>10. CASE done # 0
  <2>1. ctx.kv = SubSeq(w, 1, done) /\ ctx.n = done /\ ctx \in Context
    BY <1>4, <1>10 DEF Reached, Typed
  <2>2. SubSeq(w, 1, done) \o SubSeq(w, done + 1, e) = SubSeq(w, 1, e)
    <3>1. 1 \in 1..(Len(w) + 1) /\ done \in (1 - 1)..Len(w) /\ e \in done..Len(w)
      BY <1>2, <1>3, <1>4, <1>5
    <3> QED
      BY <3>1, ConcatAdjacentSubSeq DEF Tokens
  <2>3. Advanced = Appended(ctx, more)
    BY <1>7, <1>10 DEF Advanced
  <2>4. ctx.kv # <<>>
    <3>1. Len(SubSeq(w, 1, done)) = done
      BY <1>2, <1>4 DEF Tokens
    <3>2. Len(ctx.kv) # 0
      BY <1>10, <2>1, <3>1
    <3> QED
      BY <3>2, EmptySeq
  <2>5. /\ Appended(ctx, more) \in Context /\ Appended(ctx, more).n = ctx.n + Len(more)
        /\ Appended(ctx, more).lg = Appended(ctx, more).kv
        /\ Appended(ctx, more).kv = ctx.kv \o more
    BY <1>8, <2>1, <2>4, AppendedType
  <2>6. Appended(ctx, more).kv = SubSeq(w, 1, e)
    BY <1>6, <1>7, <2>1, <2>2, <2>5
  <2>7. Appended(ctx, more).n = e
    <3>1. Len(more) = e - done
      BY <1>6, <1>7
    <3>2. Appended(ctx, more).n = done + Len(more)
      BY <2>1, <2>5
    <3> QED
      BY <1>2, <3>1, <3>2
  <2> QED
    BY <1>4, <1>5, <1>6, <2>3, <2>5, <2>6, <2>7
<1> QED
  BY <1>9, <1>10

(* A checkpoint of a text's own tokens.                                     *)
LEMMA CaptureOf ==
  ASSUME Lossless, NEW t \in Seq(Char), NEW c \in Context, c.kv = Whole(t),
         NEW n, n = Len(Whole(t)), NEW reason \in {"rung", "full"}
  PROVE  Snapshot(t, n, reason, c) \in Captures /\ Snapshot(t, n, reason, c) \in Told
<1>1. Whole(t) \in Tokens /\ Len(Whole(t)) \in Nat \ {0} /\ TextOf(Whole(t)) = t
  BY WholeText
<1>2. Whole(t) \in Seq(Cell)
  BY <1>1, TokensAreCells
<1>3. Snapshot(t, n, reason, c) \in Checkpoints
  BY <1>1, <1>2 DEF Snapshot, Checkpoints
<1> QED
  BY <1>1, <1>3 DEF Snapshot, Captures, Told

(* What a prefill captures at a rung, and at the end.                       *)
LEMMA PrefillSnapshots ==
  ASSUME Lossless, Typed, Reached, Ahead
  PROVE  /\ \A r \in rungs : r.tokens = NextEnd =>
              LET snap == Snapshot(r.text, r.tokens, "rung", Advanced)
              IN  snap \in Captures /\ snap \in Told
         /\ rungs = {} =>
              LET snap == Snapshot(prompt, NextEnd, "full", Advanced)
              IN  snap \in Captures /\ snap \in Told
<1>1. Whole(prompt) \in Tokens /\ prompt \in Seq(Char)
  BY WholeText DEF Typed
<1>2. Advanced \in Context /\ Advanced.kv = SubSeq(Whole(prompt), 1, NextEnd)
  BY Advances
<1>3. ASSUME NEW r \in rungs, r.tokens = NextEnd
      PROVE  Snapshot(r.text, r.tokens, "rung", Advanced) \in Captures \cap Told
  <2>1. r.text \in Seq(Char) /\ IsPrefix(Whole(r.text), Whole(prompt)) /\ r.tokens = Len(Whole(r.text))
    BY DEF Typed, Rung, Ahead
  <2>2. Whole(r.text) \in Tokens
    BY <2>1, WholeText
  <2>3. SubSeq(Whole(prompt), 1, Len(Whole(r.text))) = Whole(r.text)
    BY <1>1, <2>1, <2>2, PrefixRest DEF Tokens
  <2>4. Advanced.kv = Whole(r.text)
    BY <1>2, <1>3, <2>1, <2>3
  <2> QED
    BY <1>2, <2>1, <2>4, CaptureOf
<1>4. ASSUME rungs = {}
      PROVE  Snapshot(prompt, NextEnd, "full", Advanced) \in Captures \cap Told
  <2>1. NextEnd = Len(Whole(prompt))
    BY <1>4 DEF NextEnd
  <2>2. Advanced.kv = Whole(prompt)
    BY <1>1, <1>2, <2>1, SubSeqFull DEF Tokens
  <2> QED
    BY <1>1, <1>2, <2>1, <2>2, CaptureOf
<1> QED
  BY <1>3, <1>4

(* What continue() captures is a checkpoint at least.                       *)
LEMMA ContinuedSnapshot ==
  ASSUME Typed, nPast - mark >= Block
  PROVE  Snapshot(transcript, nPast, "continued", ctx) \in Captures
<1>1. nPast \in Nat \ {0}
  BY SizeAssumption DEF Typed
<1> QED
  BY <1>1 DEF Typed, Context, Snapshot, Checkpoints, Captures

(* Checkpoints stay in a set that the new ones are taken from.              *)
LEMMA HoldStays ==
  ASSUME NEW S, Hold(S),
         \/ UNCHANGED writeVars
         \/ \E snap \in S : queue' = Append(queue, snap) /\ UNCHANGED <<store, old>>
         \/ store' \subseteq store /\ UNCHANGED <<queue, old>>
         \/ WriteDone \/ OldWriteDone \/ NewLoop \/ Crash
  PROVE  Hold(S)'
<1>0. store \subseteq S /\ queue \in Seq(S) /\ old \in Seq(S)
  BY DEF Hold
<1>1. ASSUME NEW snap \in S, store' \in Stored(snap) PROVE store' \subseteq S
  BY <1>0, <1>1 DEF Stored
<1>2. CASE UNCHANGED writeVars
  BY <1>0, <1>2 DEF Hold, writeVars
<1>3. CASE \E snap \in S : queue' = Append(queue, snap) /\ UNCHANGED <<store, old>>
  BY <1>0, <1>3, AppendProperties DEF Hold
<1>4. CASE store' \subseteq store /\ UNCHANGED <<queue, old>>
  BY <1>0, <1>4 DEF Hold
<1>5. CASE WriteDone
  <2>1. Head(queue) \in S /\ Tail(queue) \in Seq(S)
    BY <1>0, <1>5, HeadTailProperties DEF WriteDone
  <2> QED
    BY <1>0, <1>1, <1>5, <2>1 DEF WriteDone, Hold
<1>6. CASE OldWriteDone
  <2>1. Head(old) \in S /\ Tail(old) \in Seq(S)
    BY <1>0, <1>6, HeadTailProperties DEF OldWriteDone
  <2> QED
    BY <1>0, <1>1, <1>6, <2>1 DEF OldWriteDone, Hold
<1>7. CASE NewLoop
  BY <1>0, <1>7, EmptySeq DEF NewLoop, Hold
<1>8. CASE Crash
  BY <1>0, <1>8, EmptySeq DEF Crash, Hold
<1> QED
  BY <1>2, <1>3, <1>4, <1>5, <1>6, <1>7, <1>8

(* A write drops as many checkpoints as the budget costs.                   *)
LEMMA StoredFits ==
  ASSUME Fitting, NEW snap, store' \in Stored(snap)
  PROVE  Fitting'
<1> DEFINE others == {c \in store : c.text # snap.text}
<1>1. PICK T \in SUBSET others :
        /\ Cardinality(T) = IF Cardinality(others) < Kept THEN Cardinality(others) ELSE Kept - 1
        /\ store' = T \cup {snap}
  BY DEF Stored
<1>2. IsFiniteSet(others) /\ Cardinality(others) \in Nat /\ IsFiniteSet(T) /\ Cardinality(T) \in Nat
  BY FS_Subset, FS_CardinalityType DEF Fitting
<1>3. snap \notin T
  OBVIOUS
<1>4. IsFiniteSet(T \cup {snap}) /\ Cardinality(T \cup {snap}) = Cardinality(T) + 1
  BY <1>2, <1>3, FS_AddElement
<1>5. Cardinality(T) + 1 <= Kept
  BY <1>1, <1>2, SizeAssumption
<1>6. \A c, d \in T \cup {snap} : c.text = d.text => c = d
  <2>1. \A c \in T : c \in store /\ c.text # snap.text
    OBVIOUS
  <2> HIDE DEF others
  <2> QED
    BY <2>1 DEF Fitting
<1> QED
  BY <1>1, <1>4, <1>5, <1>6 DEF Fitting

(* Fitting is about the files only.                                         *)
LEMMA FittingStays ==
  ASSUME Fitting, store' \subseteq store PROVE Fitting'
<1>1. IsFiniteSet(store') /\ Cardinality(store') <= Cardinality(store)
  BY FS_Subset DEF Fitting
<1>2. Cardinality(store') \in Nat /\ Cardinality(store) \in Nat /\ Kept \in Nat
  BY <1>1, FS_CardinalityType, SizeAssumption DEF Fitting
<1>3. Cardinality(store') <= Kept
  BY <1>1, <1>2 DEF Fitting
<1> QED
  BY <1>1, <1>3 DEF Fitting

(* What a restored context becomes when the rest of the prompt is decoded.  *)
LEMMA CompletedType ==
  ASSUME Lossless, Typed, NEW c \in Checkpoints, NEW r \in Context
  PROVE  Completed(c, r) \in Context
<1>1. PICK toks \in Tokens : toks = Whole(prompt) /\ Len(toks) \in Nat \ {0}
  BY WholeText DEF Typed
<1>2. toks[Len(toks)] \in Seq(Char)
  BY <1>1 DEF Tokens
<1>3. PICK t \in Seq(Char) : t = toks[Len(toks)]
  BY <1>2
<1>4. <<t>> \in Tokens
  BY DEF Tokens
<1>5. PICK again \in Tokens : again = <<Last(toks)>>
  BY <1>3, <1>4 DEF Last
<1>6. SubSeq(toks, c.tokens + 1, Len(toks)) \in Tokens
  BY <1>1 DEF Tokens, Checkpoints
<1>7. PICK rest \in Tokens : rest = SubSeq(toks, c.tokens + 1, Len(toks))
  BY <1>6
<1>8. Rewind(r, Len(toks) - 1) \in Context
  <2>1. Len(toks) - 1 \in Nat
    BY <1>1
  <2> QED
    BY <2>1, EmptySeq, ContextTypes
<1>9. Appended(Rewind(r, Len(toks) - 1), again) \in Context
  BY <1>8, TokensAreCells, AppendedType
<1>10. Appended(r, rest) \in Context
  BY TokensAreCells, AppendedType
<1> QED
  BY <1>1, <1>5, <1>7, <1>9, <1>10 DEF Completed

(* What a restore may leave.                                                *)
LEMMA RestoredType ==
  ASSUME Typed, NEW c \in Checkpoints
  PROVE  Restored(c) \subseteq Context /\ Restore(ctx, c.cells) \in Context
<1>1. [ctx EXCEPT !.kv = <<>>] \in Context
  BY EmptySeq DEF Typed, Context
<1>2. Restore(ctx, c.cells) \in Context
  BY ContextTypes DEF Typed, Checkpoints
<1> QED
  BY <1>1, <1>2 DEF Restored

(* A failed chunk of the prefill leaves a context.                          *)
LEMMA ChunkFailedType ==
  ASSUME Typed, Chunk \in Tokens
  PROVE  /\ ForwardFailed(ctx, Chunk) \subseteq Context
         /\ \A i \in 0..(Len(Chunk) - 1) : AppendFailed(ctx, Chunk, i) \in Context
<1>1. PICK toks \in Seq(Cell) : toks = Chunk
  BY TokensAreCells
<1>2. ForwardFailed(ctx, toks) \subseteq Context
  BY ContextTypes DEF Typed
<1>3. ASSUME NEW i \in 0..(Len(toks) - 1) PROVE AppendFailed(ctx, toks, i) \in Context
  <2>1. i \in Nat /\ i <= Len(toks) /\ ctx \in Context
    BY DEF Typed
  <2> QED
    BY <2>1, AppendFailedType
<1> QED
  BY <1>1, <1>2, <1>3

(* The tokens of an input, and what they leave.                             *)
LEMMA InputTypes ==
  ASSUME Lossless, Typed, NEW text \in Input
  PROVE  /\ text \in Seq(Char) /\ Tokenize(text) \in Tokens
         /\ Appended(ctx, Tokenize(text)) \in Context
         /\ \A i \in 0..(Len(Tokenize(text)) - 1) :
              AppendFailed(ctx, Tokenize(text), i) \in Context
<1>1. text \in Seq(Char)
  BY TextAssumption
<1>2. Tokenize(text) \in Tokens
  BY <1>1 DEF Lossless, Tokens
<1>3. PICK toks \in Seq(Cell) : toks = Tokenize(text)
  BY <1>2, TokensAreCells
<1>4. Appended(ctx, toks) \in Context
  BY AppendedType DEF Typed
<1>5. ASSUME NEW i \in 0..(Len(toks) - 1) PROVE AppendFailed(ctx, toks, i) \in Context
  <2>1. i \in Nat /\ i <= Len(toks) /\ ctx \in Context
    BY DEF Typed
  <2> QED
    BY <2>1, AppendFailedType
<1> QED
  BY <1>1, <1>2, <1>3, <1>4, <1>5

(* What a turn leaves.                                                      *)
LEMMA OutputTypes ==
  ASSUME Typed, NEW out \in Output
  PROVE  /\ out \in Tokens /\ TextOf(out) \in Seq(Char) /\ Len(out) \in Nat
         /\ Appended(ctx, out) \in Context
         /\ transcript \o TextOf(out) \in Seq(Char)
<1>1. out \in Tokens /\ Len(out) \in Nat
  BY TextAssumption DEF Tokens
<1>2. TextOf(out) \in Seq(Char)
  <2>1. <<>> \in Seq(Char)
    BY EmptySeq
  <2> QED
    BY <1>1, <2>1, FlattenMore DEF TextOf, Tokens
<1>3. Appended(ctx, out) \in Context
  BY <1>1, TokensAreCells, AppendedType DEF Typed
<1>4. transcript \o TextOf(out) \in Seq(Char)
  BY <1>2, ConcatProperties DEF Typed
<1> QED
  BY <1>1, <1>2, <1>3, <1>4

(* A harm is counted.                                                       *)
LEMMA HarmCounts ==
  ASSUME Typed, NEW happens \in BOOLEAN, Harm(happens)
  PROVE  harms' \in 0..MaxHarms /\ (happens => harms' # 0) /\ (harms' = 0 => harms = 0)
BY SizeAssumption DEF Harm, Typed

(* Next, without the choices that do not matter here.                       *)
LEMMA NextSplit ==
  ASSUME Next
  PROVE  \/ NewLoop \/ Crash \/ WriteDone \/ OldWriteDone
         \/ \E text \in Prompt \cup {transcript} : Open(text) \/ OpenCached(text)
         \/ Resume \/ ResumeNot \/ ResumeOverflows
         \/ PrefillRung \/ PrefillRest \/ PrefillThrows
         \/ \E out \in Output : Turn(out) \/ TurnLost(out)
         \/ \E text \in Input : Continue(text) \/ ContinueThrows(text)
BY DEF Next

(* Where the locals of a prefill start.                                     *)
LEMMA Starts ==
  /\ 0 \in 0..Window /\ Window \in Nat /\ MaxRungs \in Nat /\ Block \in Nat
  /\ \A text : text = <<>> => text \in Seq(Char)
  /\ FALSE \in BOOLEAN /\ {} \subseteq Rung
<1>1. <<>> \in Seq(Char)
  BY EmptySeq
<1>2. Window \in Nat /\ MaxRungs \in Nat /\ Block \in Nat
  BY SizeAssumption
<1>3. 0 \in 0..Window
  BY <1>2
<1> QED
  BY <1>1, <1>2, <1>3

(* start() and replay() leave the loop well typed.                          *)
LEMMA OpenedTyped ==
  ASSUME Lossless, Typed, Opened, ctx' \in Context, harms' \in 0..MaxHarms
  PROVE  Typed'
<1>1. Len(Whole(prompt)) \in Nat /\ prompt \in Seq(Char)
  BY WholeText DEF Typed
<1>2. prompt' \in Seq(Char) /\ rungs' \subseteq Rung /\ done' \in 0..Window /\ skipped' \in BOOLEAN
  BY Starts DEF Opened, Returned
<1>3. /\ transcript' \in Seq(Char) /\ nPast' \in Nat /\ mark' \in Nat /\ mark' <= nPast'
      /\ pc' \in {"new", "load", "prefill", "turn", "idle"}
  BY <1>1 DEF Opened
<1> QED
  BY <1>2, <1>3 DEF Typed

(* So does a start() that throws.                                           *)
LEMMA FailedTyped ==
  ASSUME Typed, Failed, ctx' \in Context, UNCHANGED convVars
  PROVE  Typed'
<1>1. prompt' \in Seq(Char) /\ rungs' \subseteq Rung /\ done' \in 0..Window /\ skipped' \in BOOLEAN
  BY Starts DEF Failed, Returned
<1>2. harms' \in 0..MaxHarms
  BY HarmCounts DEF Failed
<1> QED
  BY <1>1, <1>2 DEF Failed, Typed, convVars

(* Rungs are typed.                                                         *)
LEMMA RungsType ==
  ASSUME Lossless, Typed
  PROVE  /\ Rungs \subseteq Rung
         /\ \A r \in Rungs : /\ IsPrefix(Whole(r.text), Whole(prompt))
                             /\ r.tokens = Len(Whole(r.text))
<1>1. ASSUME NEW b \in Blocks, NEW i \in Cut(b)
      PROVE  Upto(prompt, i) \in Seq(Char)
  <2>1. PICK most : Blocks \subseteq 1..MaxRungs
    BY DEF Blocks
  <2>2. b \in Nat
    BY <2>1, SizeAssumption
  <2>3. i \in Nat
    <3>1. Len(prompt) \in Nat /\ Len(Whole(prompt)) \in Nat \ {0}
      BY WholeText DEF Typed
    <3>2. PICK size \in Nat \ {0} : size = Len(Whole(prompt))
      BY <3>1
    <3>3. (b * Block * Len(prompt)) \div size \in Nat
      BY <2>2, <3>1, Starts
    <3>4. PICK q \in Nat : q = (b * Block * Len(prompt)) \div Len(Whole(prompt))
      BY <3>2, <3>3
    <3>5. i \in (q + 1)..Len(prompt)
      BY <3>4 DEF Cut
    <3> QED
      BY <3>1, <3>5
  <2> QED
    BY <2>3, UptoType DEF Typed
<1>2. ASSUME NEW u \in {Upto(prompt, i) : i \in UNION {Cut(b) : b \in Blocks}}
      PROVE  u \in Seq(Char) /\ Len(Whole(u)) \in Nat \ {0}
  BY <1>1, WholeText
<1> QED
  BY <1>2 DEF Rungs, Rung

(* Every step keeps the types.                                              *)
LEMMA TypedStep ==
  ASSUME Lossless, CoreInv, Next
  PROVE  Typed'
<1> USE DEF CoreInv
<1>0. ctx \in Context /\ store \subseteq Checkpoints
  BY DEF Typed, Hold, Captures
<1>1. CASE NewLoop
  BY <1>1 DEF NewLoop, Typed, stageVars
<1>2. CASE Crash
  <2>1. Fresh \in Context
    BY EmptySeq DEF Fresh, Context
  <2>2. prompt' \in Seq(Char) /\ rungs' \subseteq Rung /\ done' \in 0..Window /\ skipped' \in BOOLEAN
    BY <1>2, Starts DEF Crash
  <2> QED
    BY <1>2, <2>1, <2>2 DEF Crash, Typed
<1>3. CASE WriteDone \/ OldWriteDone
  BY <1>3 DEF WriteDone, OldWriteDone, Typed, convVars, stageVars
<1>4. ASSUME NEW text \in Prompt \cup {transcript}, Open(text) PROVE Typed'
  <2>1. text \in Seq(Char)
    BY TextAssumption DEF Typed
  <2>2. prompt' \in Seq(Char) /\ rungs' \subseteq Rung /\ done' \in 0..Window /\ skipped' \in BOOLEAN
    BY <1>4, <2>1, Starts DEF Open
  <2> QED
    BY <1>4, <2>2 DEF Open, Typed, convVars
<1>5. ASSUME NEW text \in Prompt \cup {transcript}, OpenCached(text) PROVE Typed'
  <2>1. text \in Seq(Char)
    BY TextAssumption DEF Typed
  <2>2. Len(Whole(text)) \in Nat /\ harms' \in 0..MaxHarms
    BY <1>5, <2>1, WholeText, HarmCounts DEF OpenCached
  <2>3. Rewind(ctx, 0) \in Context
    BY <1>0, EmptySeq, ContextTypes
  <2>4. ctx' \in Context
    BY <1>5, <2>2, <2>3 DEF OpenCached, Context
  <2> QED
    BY <1>5, <2>1, <2>2, <2>4 DEF OpenCached, Typed, stageVars
<1>6. CASE Resume
  <2>1. PICK c \in Longest : \E r \in Restored(c) :
          /\ ctx' = Completed(c, r)
          /\ Harm(r # Restore(ctx, c.cells) \/ ~IsPrefix(c.cells, ctx'.kv))
    BY <1>6 DEF Resume
  <2>2. PICK r \in Restored(c) :
          /\ ctx' = Completed(c, r)
          /\ Harm(r # Restore(ctx, c.cells) \/ ~IsPrefix(c.cells, ctx'.kv))
    BY <2>1
  <2>3. c \in Checkpoints
    BY <1>0 DEF Longest
  <2>4. ctx' \in Context
    BY <2>2, <2>3, RestoredType, CompletedType
  <2>5. harms' \in 0..MaxHarms
    BY <2>2, HarmCounts
  <2> QED
    BY <1>6, <2>4, <2>5, OpenedTyped DEF Resume
<1>7. CASE ResumeNot
  <2>1. \A c \in Longest : Restore(ctx, c.cells) \in Context
    BY <1>0, RestoredType DEF Longest
  <2>2. ctx' \in Context
    BY <1>0, <1>7, <2>1 DEF ResumeNot
  <2>3. rungs' \subseteq Rung
    BY <1>7, RungsType DEF ResumeNot
  <2> QED
    BY <1>7, <2>2, <2>3 DEF ResumeNot, Typed, convVars
<1>8. CASE ResumeOverflows
  <2>1. \A c \in Longest : Restore(ctx, c.cells) \in Context
    BY <1>0, RestoredType DEF Longest
  <2>2. ctx' \in Context
    BY <1>8, <2>1 DEF ResumeOverflows
  <2> QED
    BY <1>8, <2>2, FailedTyped DEF ResumeOverflows
<1>9. CASE PrefillRung
  <2>1. Reached /\ Ahead
    BY <1>9 DEF PrefillRung, Staged
  <2>2. Advanced \in Context
    BY <2>1, Advances
  <2>3. done <= Len(Whole(prompt))
    BY <2>1, SizeAssumption, WholeText DEF Reached, Typed
  <2>4. NextEnd \in Nat
    BY <2>1, <2>3, NextEndWithin
  <2>a. done' = NextEnd /\ NextEnd <= Window /\ ctx' = Advanced
    BY <1>9 DEF PrefillRung
  <2>b. skipped' = skipped \/ skipped' = TRUE
    BY <1>9 DEF PrefillRung
  <2>c. \E r \in rungs : rungs' = rungs \ {r}
    BY <1>9 DEF PrefillRung
  <2>5. done' \in 0..Window /\ skipped' \in BOOLEAN /\ rungs' \subseteq Rung /\ ctx' \in Context
    <3>1. done' \in 0..Window
      BY <2>4, <2>a, Starts
    <3>2. skipped' \in BOOLEAN
      BY <2>b DEF Typed
    <3>3. rungs' \subseteq Rung
      BY <2>c DEF Typed
    <3> QED
      BY <2>2, <2>a, <3>1, <3>2, <3>3
  <2>6. UNCHANGED <<convVars, pc, prompt, harms>>
    BY <1>9 DEF PrefillRung
  <2> QED
    BY <2>5, <2>6 DEF Typed, convVars
<1>10. CASE PrefillRest
  <2>1. Reached /\ Ahead
    BY <1>10 DEF PrefillRest, Staged
  <2>2. Advanced \in Context
    BY <2>1, Advances
  <2>3. harms' \in 0..MaxHarms
    BY <1>10 DEF PrefillRest, Typed
  <2> QED
    BY <1>10, <2>2, <2>3, OpenedTyped DEF PrefillRest
<1>11. CASE PrefillThrows
  <2>1. Reached /\ Ahead
    BY <1>11 DEF PrefillThrows, Staged
  <2>2. Chunk \in Tokens
    BY <2>1, Advances
  <2>3. ctx' \in Context
    BY <1>0, <1>11, <2>2, ChunkFailedType DEF PrefillThrows
  <2> QED
    BY <1>11, <2>3, FailedTyped DEF PrefillThrows
<1>12. ASSUME NEW out \in Output, Turn(out) PROVE Typed'
  <2>1. Len(out) \in Nat /\ transcript \o TextOf(out) \in Seq(Char) /\ ctx' \in Context
    BY <1>0, <1>12, OutputTypes DEF Turn
  <2> QED
    BY <1>12, <2>1 DEF Turn, Typed, stageVars
<1>13. ASSUME NEW out \in Output, TurnLost(out) PROVE Typed'
  <2>1. ctx' \in Context
    BY <1>13, OutputTypes DEF TurnLost
  <2>2. harms' \in 0..MaxHarms
    BY <1>13, HarmCounts DEF TurnLost
  <2> QED
    BY <1>13, <2>1, <2>2 DEF TurnLost, Typed, stageVars, convVars
<1>14. ASSUME NEW text \in Input, Continue(text) PROVE Typed'
  <2>1. Len(Tokenize(text)) \in Nat /\ ctx' \in Context
    BY <1>14, InputTypes DEF Continue, Tokens
  <2>2. transcript \o text \in Seq(Char)
    BY InputTypes, ConcatProperties DEF Typed
  <2>3. mark' \in Nat /\ mark' <= nPast
    BY <1>14 DEF Continue, Checkpoint, Typed
  <2> QED
    BY <1>14, <2>1, <2>2, <2>3 DEF Continue, Typed, stageVars
<1>15. ASSUME NEW text \in Input, ContinueThrows(text) PROVE Typed'
  <2>1. ctx' \in Context
    BY <1>0, <1>15, InputTypes DEF ContinueThrows
  <2>2. mark' \in Nat /\ mark' <= nPast
    BY <1>15 DEF ContinueThrows, Checkpoint, Typed
  <2> QED
    BY <1>15, <2>1, <2>2 DEF ContinueThrows, Typed, stageVars
<1> QED
  BY <1>1, <1>2, <1>3, <1>4, <1>5, <1>6, <1>7, <1>8, <1>9, <1>10, <1>11,
     <1>12, <1>13, <1>14, <1>15, NextSplit

(* Where the new checkpoints belong, all do.                                *)
LEMMA HoldStep ==
  ASSUME Lossless, CoreInv, Next, NEW S, Hold(S), Captures \cap Told \subseteq S,
         pc = "idle" /\ nPast - mark >= Block =>
           Snapshot(transcript, nPast, "continued", ctx) \in S
  PROVE  Hold(S)'
<1>1. CASE NewLoop \/ Crash \/ WriteDone \/ OldWriteDone
  BY <1>1, HoldStays
<1>2. ASSUME NEW text \in Prompt \cup {transcript}, Open(text) \/ OpenCached(text)
      PROVE  Hold(S)'
  <2>1. UNCHANGED writeVars
    BY <1>2 DEF Open, OpenCached
  <2> QED
    BY <2>1, HoldStays
<1>3. CASE Resume \/ ResumeOverflows \/ PrefillThrows
  <2>1. UNCHANGED writeVars
    BY <1>3 DEF Resume, ResumeOverflows, PrefillThrows
  <2> QED
    BY <2>1, HoldStays
<1>4. CASE ResumeNot
  <2>1. store' \subseteq store /\ UNCHANGED <<queue, old>>
    BY <1>4 DEF ResumeNot
  <2> QED
    BY <2>1, HoldStays
<1>5. CASE PrefillRung
  <2>1. Typed /\ Reached /\ Ahead
    BY <1>5 DEF CoreInv, Staged, PrefillRung
  <2>2. PICK r \in rungs :
          /\ r.tokens = NextEnd /\ ctx' = Advanced
          /\ \/ queue' = Append(queue, Snapshot(r.text, r.tokens, "rung", ctx'))
             \/ queue' = queue
    BY <1>5 DEF PrefillRung
  <2>3. Snapshot(r.text, r.tokens, "rung", Advanced) \in S
    BY <2>1, <2>2, PrefillSnapshots
  <2>4. UNCHANGED <<store, old>>
    BY <1>5 DEF PrefillRung
  <2>5. CASE queue' = queue
    BY <2>4, <2>5, HoldStays DEF writeVars
  <2>6. CASE queue' = Append(queue, Snapshot(r.text, r.tokens, "rung", ctx'))
    BY <2>2, <2>3, <2>4, <2>6, HoldStays
  <2> QED
    BY <2>2, <2>5, <2>6
<1>6. CASE PrefillRest
  <2>1. Typed /\ Reached /\ Ahead /\ rungs = {}
    BY <1>6 DEF CoreInv, Staged, PrefillRest
  <2>2. Snapshot(prompt, NextEnd, "full", Advanced) \in S
    BY <2>1, PrefillSnapshots
  <2>3. queue' = Append(queue, Snapshot(prompt, NextEnd, "full", Advanced)) /\ UNCHANGED <<store, old>>
    BY <1>6 DEF PrefillRest
  <2> QED
    BY <2>2, <2>3, HoldStays
<1>7. ASSUME NEW out \in Output, Turn(out) \/ TurnLost(out) PROVE Hold(S)'
  <2>1. UNCHANGED writeVars
    BY <1>7 DEF Turn, TurnLost
  <2> QED
    BY <2>1, HoldStays
<1>8. ASSUME NEW text \in Input, Continue(text) \/ ContinueThrows(text) PROVE Hold(S)'
  <2>1. pc = "idle" /\ Checkpoint /\ UNCHANGED <<store, old>>
    BY <1>8 DEF Continue, ContinueThrows
  <2>2. CASE nPast - mark >= Block
    BY <2>1, <2>2, HoldStays DEF Checkpoint
  <2>3. CASE ~(nPast - mark >= Block)
    BY <2>1, <2>3, HoldStays DEF Checkpoint, writeVars
  <2> QED
    BY <2>2, <2>3
<1> QED
  BY <1>1, <1>2, <1>3, <1>4, <1>5, <1>6, <1>7, <1>8, NextSplit

(* Every step keeps the budget.                                             *)
LEMMA FittingStep ==
  ASSUME Fitting, Next
  PROVE  Fitting'
<1>1. CASE WriteDone \/ OldWriteDone
  BY <1>1, StoredFits DEF WriteDone, OldWriteDone
<1>2. CASE store' \subseteq store
  BY <1>2, FittingStays
<1>3. \/ WriteDone \/ OldWriteDone \/ store' \subseteq store
  BY NextSplit DEF NewLoop, Crash, Open, OpenCached, Resume, ResumeNot, ResumeOverflows,
     PrefillRung, PrefillRest, PrefillThrows, Turn, TurnLost, Continue, ContinueThrows, writeVars
<1> QED
  BY <1>1, <1>2, <1>3

(* A rung passed leaves the others ahead.                                   *)
LEMMA RungPassed ==
  ASSUME Lossless, CoreInv, PrefillRung
  PROVE  Staged'
<1>1. Typed /\ Reached /\ Ahead
  BY DEF CoreInv, Staged, PrefillRung
<1>2. done <= Len(Whole(prompt))
  BY <1>1, SizeAssumption, WholeText DEF Reached, Typed
<1>3. /\ NextEnd \in Nat \ {0} /\ NextEnd <= Len(Whole(prompt))
      /\ \A r \in rungs : NextEnd <= r.tokens
  BY <1>1, <1>2, NextEndWithin
<1>4. Advanced.kv = SubSeq(Whole(prompt), 1, NextEnd) /\ Advanced.n = NextEnd
  BY <1>1, Advances
<1>5. /\ ctx' = Advanced /\ done' = NextEnd /\ rungs' \subseteq rungs
      /\ prompt' = prompt /\ pc' = "prefill"
  BY DEF PrefillRung
<1>6. Reached'
  BY <1>3, <1>4, <1>5 DEF Reached
<1>7. Ahead'
  BY <1>1, <1>3, <1>5 DEF Ahead
<1> QED
  BY <1>5, <1>6, <1>7 DEF Staged

(* Every step keeps what a prefill has reached.                             *)
LEMMA StagedStep ==
  ASSUME Lossless, CoreInv, Next
  PROVE  Staged'
<1>1. CASE pc' \notin {"load", "prefill"}
  BY <1>1 DEF Staged
<1>2. CASE UNCHANGED <<ctx, pc, stageVars>>
  BY <1>2 DEF CoreInv, Staged, Reached, Ahead, stageVars
<1>3. ASSUME NEW text \in Prompt \cup {transcript}, Open(text) PROVE Staged'
  BY <1>3 DEF Open, Staged
<1>4. CASE ResumeNot
  <2>1. done' = 0 /\ pc' = "prefill" /\ rungs' = Rungs /\ prompt' = prompt
    BY <1>4 DEF ResumeNot, CoreInv, Staged
  <2>2. \A r \in Rungs : /\ IsPrefix(Whole(r.text), Whole(prompt))
                         /\ r.tokens = Len(Whole(r.text)) /\ 0 <= r.tokens
    BY RungsType DEF CoreInv, Rung
  <2>3. Ahead'
    BY <2>1, <2>2 DEF Ahead
  <2> QED
    BY <2>1, <2>3 DEF Staged, Reached
<1>5. CASE PrefillRung
  BY <1>5, RungPassed
<1>6. CASE NewLoop \/ Crash
  BY <1>1, <1>6 DEF NewLoop, Crash
<1>7. CASE WriteDone \/ OldWriteDone
  BY <1>2, <1>7 DEF WriteDone, OldWriteDone
<1>8. CASE Resume \/ PrefillRest
  BY <1>1, <1>8 DEF Resume, PrefillRest, Opened
<1>9. CASE ResumeOverflows \/ PrefillThrows
  BY <1>1, <1>9 DEF ResumeOverflows, PrefillThrows, Failed
<1>10. ASSUME NEW text \in Prompt \cup {transcript}, OpenCached(text) PROVE Staged'
  BY <1>1, <1>10 DEF OpenCached
<1>11. ASSUME NEW out \in Output, Turn(out) \/ TurnLost(out) PROVE Staged'
  BY <1>1, <1>11 DEF Turn, TurnLost
<1>12. ASSUME NEW text \in Input, Continue(text) \/ ContinueThrows(text) PROVE Staged'
  BY <1>1, <1>12 DEF Continue, ContinueThrows
<1> QED
  BY <1>3, <1>4, <1>5, <1>6, <1>7, <1>8, <1>9, <1>10, <1>11, <1>12, NextSplit

(* The invariant is kept by every step.                                     *)
LEMMA CoreStep == ASSUME Lossless PROVE CoreInv /\ [Next]_vars => CoreInv'
<1> SUFFICES ASSUME CoreInv, [Next]_vars PROVE CoreInv'
  OBVIOUS
<1>1. CASE Next
  <2>1. Hold(Captures)'
    <3>1. Hold(Captures)
      BY DEF CoreInv
    <3>2. nPast - mark >= Block => Snapshot(transcript, nPast, "continued", ctx) \in Captures
      BY ContinuedSnapshot DEF CoreInv
    <3> QED
      BY <1>1, <3>1, <3>2, HoldStep
  <2>2. Fitting'
    BY <1>1, FittingStep DEF CoreInv
  <2> QED
    BY <1>1, <2>1, <2>2, TypedStep, StagedStep DEF CoreInv
<1>2. CASE UNCHANGED vars
  BY <1>2 DEF vars, CoreInv, Typed, Hold, Fitting, Staged, Reached, Ahead
<1> QED
  BY <1>1, <1>2

(* It holds at first.                                                       *)
LEMMA CoreInit == Init => CoreInv
<1> SUFFICES ASSUME Init PROVE CoreInv
  OBVIOUS
<1>1. Typed
  <2>1. Fresh \in Context
    BY EmptySeq DEF Fresh, Context
  <2>2. prompt \in Seq(Char) /\ transcript \in Seq(Char) /\ done \in 0..Window
    BY Starts DEF Init
  <2>3. harms \in 0..MaxHarms
    BY SizeAssumption DEF Init
  <2>4. rungs \subseteq Rung /\ skipped \in BOOLEAN /\ ctx = Fresh
    BY DEF Init
  <2>5. /\ nPast \in Nat /\ mark \in Nat /\ mark <= nPast
        /\ pc \in {"new", "load", "prefill", "turn", "idle"}
    BY DEF Init
  <2> QED
    BY <2>1, <2>2, <2>3, <2>4, <2>5 DEF Typed
<1>2. Hold(Captures)
  BY EmptySeq DEF Init, Hold
<1>3. Fitting
  <2>1. IsFiniteSet({}) /\ Cardinality({}) = 0 /\ Kept \in Nat
    BY FS_EmptySet, SizeAssumption
  <2> QED
    BY <2>1 DEF Init, Fitting
<1>4. Staged
  BY DEF Init, Staged
<1> QED
  BY <1>1, <1>2, <1>3, <1>4 DEF CoreInv

(* What the invariant says of all checkpoints at once.                      *)
LEMMA HoldAll ==
  ASSUME NEW S, Hold(S)
  PROVE  \A c \in store \cup ToSet(queue) \cup ToSet(old) : c \in S
<1>1. ASSUME NEW s \in Seq(S) PROVE ToSet(s) \subseteq S
  BY ElementOfSeq DEF ToSet
<1> QED
  BY <1>1 DEF Hold

(* Every reachable state is well typed: one checkpoint a text, within the   *)
(* budget, for any texts, faults, block and window.                         *)
THEOREM TypeCorrect == ASSUME Lossless PROVE Spec => []TypeOK
<1>1. CoreInv => TypeOK
  <2> SUFFICES ASSUME CoreInv PROVE TypeOK
    OBVIOUS
  <2>1. \A c \in store \cup ToSet(queue) \cup ToSet(old) : c \in Captures
    BY HoldAll DEF CoreInv
  <2>2. mark \in 0..nPast
    BY DEF CoreInv, Typed
  <2> QED
    BY <2>1, <2>2 DEF CoreInv, Typed, Fitting, TypeOK, Captures, Checkpoints, Context, Rung, Cell
<1>2. CoreInv /\ [Next]_vars => CoreInv'
  BY CoreStep
<1> QED
  BY <1>1, <1>2, CoreInit, PTL DEF Spec

(* What a prefill captures is its text's own tokens, whatever failed before *)
(* or came to differ in the context: see PrefillCaptures.                   *)
THEOREM CapturesItsText == ASSUME Lossless PROVE Spec => []PrefillCaptures
<1>1. CoreInv => PrefillCaptures
  <2> SUFFICES ASSUME CoreInv PROVE PrefillCaptures
    OBVIOUS
  <2>1. \A c \in store \cup ToSet(queue) \cup ToSet(old) : c \in Captures
    BY HoldAll DEF CoreInv
  <2> QED
    BY <2>1 DEF PrefillCaptures, Captures
<1>2. CoreInv /\ [Next]_vars => CoreInv'
  BY CoreStep
<1> QED
  BY <1>1, <1>2, CoreInit, PTL DEF Spec

----------------------------------------------------------------------------
(* What the context spells *)

(* All of the cells spell the text, and the logits are theirs.              *)
Exactly(c, n, text) == Says(c, n, text) /\ Len(c.kv) = n /\ c.lg = c.kv

(* Cells that spell a text, all of them.                                    *)
LEMMA ExactlyIs ==
  ASSUME NEW c, NEW n, NEW text, c.kv \in Tokens, c.n = n, n > 0, Len(c.kv) = n,
         TextOf(c.kv) = text, c.lg = c.kv
  PROVE  Exactly(c, n, text)
<1>1. SubSeq(c.kv, 1, Len(c.kv)) = c.kv
  BY SubSeqFull DEF Tokens
<1>2. n <= Len(c.kv)
  BY DEF Tokens
<1> QED
  BY <1>1, <1>2 DEF Exactly, Says

(* More tokens, more text.                                                  *)
LEMMA SaysMore ==
  ASSUME NEW c \in Context, NEW n \in Nat, NEW text, Says(c, n, text), Len(c.kv) = n,
         NEW toks \in Tokens
  PROVE  Exactly(Appended(c, toks), n + Len(toks), text \o TextOf(toks))
<1>1. PICK kv \in Tokens : kv = c.kv /\ Len(kv) = n /\ n > 0 /\ c.n = n
  BY DEF Says
<1>2. TextOf(kv) = text
  BY <1>1, SubSeqFull DEF Says, Tokens
<1>3. kv # <<>>
  BY <1>1, EmptySeq DEF Tokens
<1>4. /\ Appended(c, toks).n = n + Len(toks) /\ Appended(c, toks).kv = kv \o toks
      /\ Appended(c, toks).lg = Appended(c, toks).kv
  BY <1>1, <1>3, TokensAreCells, AppendedType
<1>5. kv \o toks \in Tokens /\ Len(kv \o toks) = n + Len(toks) /\ Len(toks) \in Nat
  <2>1. kv \o toks \in Tokens /\ Len(kv \o toks) = Len(kv) + Len(toks)
    BY ConcatProperties DEF Tokens
  <2>2. Len(toks) \in Nat
    BY DEF Tokens
  <2> QED
    BY <1>1, <2>1, <2>2
<1>6. TextOf(kv \o toks) = text \o TextOf(toks)
  BY <1>2, FlattenBoth DEF TextOf, Tokens
<1>7. n + Len(toks) > 0
  BY <1>1, <1>5
<1> QED
  BY <1>4, <1>5, <1>6, <1>7, ExactlyIs

(* The first cells are still there under more.                              *)
LEMMA UnderMore ==
  ASSUME NEW s \in Tokens, NEW t \in Tokens, Len(s) > 0
  PROVE  SubSeq(s \o t, 1, Len(s)) = s
<1>1. 1 \in 1..Len(s) /\ Len(s) \in 1..Len(s)
  BY DEF Tokens
<1>2. SubSeq(s \o t, 1, Len(s)) = SubSeq(s, 1, Len(s))
  BY <1>1, SubSeqOfConcat1 DEF Tokens
<1> QED
  BY <1>2, SubSeqFull DEF Tokens

(* A checkpoint that is what it says resumes into the prompt, when its last *)
(* cell is still there.                                                     *)
LEMMA ResumeSpells ==
  ASSUME Lossless, Typed, NEW c \in Told, Resumable(c),
         NEW d, d = Completed(c, Restore(ctx, c.cells)), IsPrefix(c.cells, d.kv)
  PROVE  Exactly(d, Len(Whole(prompt)), prompt)
<1>1. PICK w \in Tokens : w = Whole(prompt) /\ Len(w) \in Nat \ {0} /\ TextOf(w) = prompt
  BY WholeText DEF Typed
<1>2. c \in Checkpoints /\ c.cells \in Tokens /\ TextOf(c.cells) = c.text /\ Len(c.cells) = c.tokens
  BY DEF Told
<1>3. PICK own \in Tokens : own = Whole(c.text) /\ TextOf(own) = c.text
  BY <1>2, WholeText DEF Checkpoints
<1>4. Len(own) = c.tokens /\ IsPrefix(own, w) /\ c.tokens \in Nat \ {0}
  BY <1>1, <1>2, <1>3 DEF Resumable, Checkpoints
<1>5. PICK cells \in Tokens : cells = c.cells
  BY <1>2
<1>6. PICK r \in Context : r = Restore(ctx, c.cells)
  BY <1>2, RestoredType
<1>7. r.kv = cells /\ r.n = c.tokens
  BY <1>2, <1>5, <1>6 DEF Restore, Typed, Context
<1>0. PICK size \in Nat \ {0} : size = Len(w)
  BY <1>1
<1>8. CASE c.tokens = Len(w)
  <2>1. own = w
    BY <1>4, <1>8, PrefixWhole DEF Tokens
  <2>2. c.text = prompt
    BY <1>1, <1>3, <2>1
  <2>3. w[Len(w)] \in Seq(Char)
    BY <1>1 DEF Tokens
  <2>4. PICK t \in Seq(Char) : t = w[Len(w)]
    BY <2>3
  <2>5. <<t>> \in Tokens
    BY DEF Tokens
  <2>6. PICK again \in Tokens : again = <<Last(w)>> /\ Len(again) = 1
    BY <2>4, <2>5 DEF Last
  <2>7. PICK k \in Nat : k = size - 1
    OBVIOUS
  <2>8. Rewind(r, k) \in Context /\ Rewind(r, k).n = k /\ Rewind(r, k).kv = Upto(cells, k)
    <3>1. Rewind(r, k) \in Context
      BY EmptySeq, ContextTypes
    <3> QED
      BY <1>7, <3>1 DEF Rewind, Context
  <2>9. Len(Upto(cells, k)) = k /\ Upto(cells, k) \in Tokens
    <3>1. Len(cells) = size /\ k <= size
      BY <1>0, <1>2, <1>5, <1>8, <2>7
    <3>2. cells \in Seq(Seq(Char))
      BY DEF Tokens
    <3> QED
      BY <3>1, <3>2, UptoType DEF Tokens
  <2>10. Rewind(r, k).kv # <<>> \/ Rewind(r, k).n = 0
    BY <2>8, <2>9
  <2>11. d = Appended(Rewind(r, k), again)
    BY <1>0, <1>1, <1>6, <1>8, <2>6, <2>7 DEF Completed
  <2>12. d.kv = Upto(cells, k) \o again /\ d.n = k + 1 /\ d.lg = d.kv
    <3>1. PICK b \in Context : b = Rewind(r, k)
      BY <2>8
    <3>2. again \in Seq(Cell)
      BY TokensAreCells
    <3>3. b.kv # <<>> \/ b.n = 0
      BY <2>10, <3>1
    <3>4. /\ Appended(b, again).n = b.n + Len(again)
          /\ Appended(b, again).lg = Appended(b, again).kv
          /\ Appended(b, again).kv = b.kv \o again
      BY <3>2, <3>3, AppendedType
    <3> QED
      BY <2>6, <2>8, <2>11, <3>1, <3>4
  <2>13. d.kv \in Tokens /\ Len(d.kv) = k + 1
    <3>1. PICK first \in Tokens : first = Upto(cells, k) /\ Len(first) = k
      BY <2>9
    <3>2. first \o again \in Tokens /\ Len(first \o again) = Len(first) + Len(again)
      BY ConcatProperties DEF Tokens
    <3> QED
      BY <2>6, <2>12, <3>1, <3>2
  <2>14. k + 1 = Len(w)
    BY <1>0, <2>7
  <2>15. cells = d.kv
    BY <1>2, <1>5, <1>8, <2>13, <2>14, PrefixWhole DEF Tokens
  <2>16. TextOf(d.kv) = prompt
    BY <1>2, <1>5, <2>2, <2>15
  <2>17. d.n = Len(w) /\ Len(d.kv) = Len(w) /\ Len(w) > 0
    BY <1>1, <2>12, <2>13, <2>14
  <2>18. Exactly(d, Len(w), prompt)
    BY <2>12, <2>13, <2>16, <2>17, ExactlyIs
  <2> QED
    BY <1>1, <2>18
<1>9. CASE c.tokens # Len(w)
  <2>1. SubSeq(w, c.tokens + 1, Len(w)) \in Tokens
    BY <1>1, <1>4 DEF Tokens
  <2>2. PICK rest \in Tokens : rest = SubSeq(w, c.tokens + 1, Len(w))
    BY <2>1
  <2>3. w = own \o rest
    <3>1. w = own \o SubSeq(w, Len(own) + 1, Len(w))
      BY <1>4, PrefixRest DEF Tokens
    <3> QED
      BY <1>4, <2>2, <3>1
  <2>4. prompt = c.text \o TextOf(rest)
    BY <1>1, <1>3, <2>3, FlattenBoth DEF TextOf, Tokens
  <2>5. d = Appended(r, rest)
    BY <1>1, <1>6, <1>9, <2>2 DEF Completed
  <2>6. Says(r, c.tokens, c.text)
    <3>1. SubSeq(cells, 1, Len(cells)) = cells /\ Len(cells) = c.tokens
      BY <1>2, <1>5, SubSeqFull DEF Tokens
    <3>2. TextOf(SubSeq(r.kv, 1, c.tokens)) = c.text
      BY <1>2, <1>5, <1>7, <3>1
    <3>3. c.tokens > 0 /\ c.tokens <= Len(r.kv)
      BY <1>4, <1>7, <3>1
    <3> QED
      BY <1>7, <3>2, <3>3 DEF Says
  <2>7. Exactly(d, c.tokens + Len(rest), c.text \o TextOf(rest))
    BY <1>2, <1>4, <1>5, <1>7, <2>5, <2>6, SaysMore
  <2>8. c.tokens + Len(rest) = Len(w)
    BY <1>4, <2>3, ConcatProperties DEF Tokens
  <2> QED
    BY <1>1, <2>4, <2>7, <2>8
<1> QED
  BY <1>8, <1>9

(* What the session is sure of stays where only the files change.           *)
LEMMA SessionStays ==
  ASSUME Session, UNCHANGED <<ctx, convVars, pc, harms>> PROVE Session'
BY DEF Session, Says, convVars

(* Between prefills every cell is one the transcript has, where a decode    *)
(* can go on.                                                               *)
LEMMA GoesOn ==
  ASSUME Typed, Session, harms = 0, pc \in {"turn", "idle"},
         pc = "turn" \/ Consecutive(ctx) \/ nPast - mark >= Block
  PROVE  Says(ctx, nPast, transcript) /\ Len(ctx.kv) = nPast
<1>1. Says(ctx, nPast, transcript)
  BY DEF Session
<1>2. ctx.kv \in Tokens /\ ctx.n = nPast /\ nPast > 0 /\ nPast <= Len(ctx.kv) /\ nPast \in Nat
  BY <1>1 DEF Says, Typed
<1>3. Len(ctx.kv) \in Nat /\ ctx.kv # <<>>
  BY <1>2, EmptySeq DEF Tokens
<1>4. CASE pc = "turn"
  BY <1>1, <1>4 DEF Session
<1>5. CASE Consecutive(ctx)
  BY <1>1, <1>2, <1>3, <1>5 DEF Consecutive
<1>6. CASE nPast - mark >= Block
  <2>1. ~(nPast - mark < Block)
    BY <1>6, Starts DEF Typed
  <2>2. ~(Len(ctx.kv) > nPast)
    BY <2>1 DEF Session
  <2> QED
    BY <1>1, <1>2, <1>3, <2>2
<1> QED
  BY <1>4, <1>5, <1>6

(* A context that spells the text exactly is all a session asks.            *)
LEMMA SessionOf ==
  ASSUME NEW n, NEW text, Exactly(ctx', n, text), n \in Nat, nPast' = n, transcript' = text
  PROVE  Session'
<1>1. ~(Len(ctx'.kv) > n)
  BY DEF Exactly
<1> QED
  BY <1>1 DEF Session, Exactly

(* A turn.                                                                  *)
LEMMA TurnSpells ==
  ASSUME Typed, Session, harms = 0, NEW out \in Output, Turn(out)
  PROVE  Session'
<1>1. Says(ctx, nPast, transcript) /\ Len(ctx.kv) = nPast
  BY GoesOn DEF Turn
<1>2. out \in Tokens /\ ctx \in Context /\ nPast \in Nat
  BY OutputTypes DEF Typed
<1>3. CASE out # <<>>
  <2>1. Exactly(Appended(ctx, out), nPast + Len(out), transcript \o TextOf(out))
    BY <1>1, <1>2, SaysMore
  <2>2. nPast + Len(out) \in Nat
    BY <1>2 DEF Tokens
  <2> QED
    BY <1>3, <2>1, <2>2, SessionOf DEF Turn
<1>4. CASE out = <<>>
  <2>1. Len(out) = 0 /\ TextOf(out) = <<>>
    BY <1>4, FlattenNothing DEF TextOf
  <2>2. transcript \o <<>> = transcript
    BY ConcatEmptySeq DEF Typed
  <2>3. ctx' = ctx /\ transcript' = transcript /\ nPast' = nPast
    <3>1. transcript' = transcript \o TextOf(out) /\ nPast' = nPast + Len(out) /\ ctx' = ctx
      BY <1>4 DEF Turn
    <3>2. nPast' = nPast
      BY <1>2, <2>1, <3>1
    <3> QED
      BY <2>1, <2>2, <3>1, <3>2
  <2>4. ctx.lg = ctx.kv
    BY DEF Turn, Session
  <2> QED
    BY <1>1, <1>2, <2>3, <2>4, SessionOf DEF Exactly
<1> QED
  BY <1>3, <1>4

(* continue() and followUp().                                               *)
LEMMA ContinueSpells ==
  ASSUME Lossless, Typed, Session, harms = 0, NEW text \in Input, Continue(text)
  PROVE  Session'
<1>1. Says(ctx, nPast, transcript) /\ Len(ctx.kv) = nPast
  BY GoesOn DEF Continue
<1>2. PICK toks \in Tokens : toks = Tokenize(text) /\ TextOf(toks) = text
  BY InputTypes DEF Lossless
<1>3. ctx \in Context /\ nPast \in Nat /\ Len(toks) \in Nat
  BY DEF Typed, Tokens
<1>4. Exactly(Appended(ctx, toks), nPast + Len(toks), transcript \o TextOf(toks))
  BY <1>1, <1>3, SaysMore
<1>5. nPast + Len(toks) \in Nat
  BY <1>3
<1>6. ctx' = Appended(ctx, toks) /\ nPast' = nPast + Len(toks) /\ transcript' = transcript \o TextOf(toks)
  BY <1>2 DEF Continue
<1> QED
  BY <1>4, <1>5, <1>6, SessionOf

(* One that throws, in the decode or before: the transcript's cells are     *)
(* still there, and what is behind them is not captured.                    *)
LEMMA ContinueThrowsSpells ==
  ASSUME Lossless, Typed, Session, harms = 0, NEW text \in Input, ContinueThrows(text)
  PROVE  Session'
<1>1. Says(ctx, nPast, transcript) /\ pc' = "idle" /\ nPast' = nPast /\ transcript' = transcript
  BY DEF ContinueThrows, Session
<1>2. nPast' - mark' < Block
  <2>1. Checkpoint /\ nPast \in Nat /\ mark \in Nat /\ Block \in Nat /\ Block > 0
    BY SizeAssumption DEF Typed, ContinueThrows
  <2>2. CASE nPast - mark >= Block
    BY <1>1, <2>1, <2>2 DEF Checkpoint
  <2>3. CASE ~(nPast - mark >= Block)
    BY <1>1, <2>1, <2>3 DEF Checkpoint
  <2> QED
    BY <2>2, <2>3
<1>3. Says(ctx', nPast, transcript)
  <2>1. CASE UNCHANGED ctx
    BY <1>1, <2>1 DEF Says
  <2>2. ASSUME Consecutive(ctx), NEW i \in 0..(Len(Tokenize(text)) - 1),
               ctx' = AppendFailed(ctx, Tokenize(text), i)
        PROVE  Says(ctx', nPast, transcript)
    <3>1. Len(ctx.kv) = nPast
      BY <2>2, GoesOn DEF ContinueThrows
    <3>2. PICK toks \in Tokens : toks = Tokenize(text)
      BY InputTypes
    <3>3. i \in Nat /\ i <= Len(toks) /\ Len(toks) \in Nat
      BY <3>2 DEF Tokens
    <3>4. PICK kv \in Tokens : kv = ctx.kv /\ Len(kv) = nPast /\ nPast > 0 /\ kv # <<>>
      BY <1>1, <3>1, EmptySeq DEF Says, Tokens
    <3>5. PICK first \in Tokens : first = SubSeq(toks, 1, i)
      <4>1. SubSeq(toks, 1, i) \in Tokens
        BY <3>3 DEF Tokens
      <4> QED
        BY <4>1
    <3>6. ctx'.n = ctx.n /\ ctx'.kv = kv \o first
      <4>1. toks \in Seq(Cell) /\ ctx \in Context
        BY TokensAreCells DEF Typed
      <4> QED
        BY <2>2, <3>2, <3>3, <3>4, <3>5, <4>1, AppendFailedType
    <3>7. kv \o first \in Tokens /\ Len(kv \o first) = Len(kv) + Len(first) /\ Len(first) \in Nat
      BY ConcatProperties DEF Tokens
    <3>8. SubSeq(kv \o first, 1, nPast) = SubSeq(ctx.kv, 1, nPast)
      <4>1. SubSeq(kv, 1, Len(kv)) = kv
        BY SubSeqFull DEF Tokens
      <4>2. SubSeq(kv \o first, 1, Len(kv)) = kv
        BY <3>4, UnderMore
      <4> QED
        BY <3>4, <4>1, <4>2
    <3>9. nPast <= Len(kv \o first)
      BY <3>4, <3>7 DEF Typed
    <3> QED
      BY <1>1, <3>6, <3>7, <3>8, <3>9 DEF Says
  <2> QED
    BY <2>1, <2>2 DEF ContinueThrows
<1> QED
  BY <1>1, <1>2, <1>3 DEF Session

(* A harm does not go away.                                                 *)
LEMMA HarmsStay ==
  ASSUME Typed, Next, harms' = 0
  PROVE  harms = 0
<1>1. ASSUME NEW happens \in BOOLEAN, Harm(happens) PROVE harms = 0
  BY <1>1, HarmCounts
<1>2. UNCHANGED harms \/ \E happens \in BOOLEAN : Harm(happens)
  BY NextSplit DEF NewLoop, Crash, WriteDone, OldWriteDone, Open, OpenCached, Resume, ResumeNot,
     ResumeOverflows, Failed, PrefillRung, PrefillRest, PrefillThrows, Turn, TurnLost,
     Continue, ContinueThrows
<1> QED
  BY <1>1, <1>2

(* Every step keeps what the context spells.                                *)
LEMMA SessionStep ==
  ASSUME Lossless, SpellInv, Next
  PROVE  Session'
<1>0. Typed /\ Session /\ Staged
  BY DEF SpellInv, CoreInv
<1> SUFFICES ASSUME harms' = 0, pc' \in {"turn", "idle"} PROVE Session'
  BY DEF Session
<1>1. harms = 0
  BY <1>0, HarmsStay
<1>2. CASE WriteDone \/ OldWriteDone
  BY <1>0, <1>2, SessionStays DEF WriteDone, OldWriteDone
<1>3. CASE NewLoop \/ Crash \/ ResumeNot \/ PrefillRung
  BY <1>3 DEF NewLoop, Crash, ResumeNot, PrefillRung
<1>4. ASSUME NEW text \in Prompt \cup {transcript}, Open(text) PROVE FALSE
  BY <1>4 DEF Open
<1>5. ASSUME NEW text \in Prompt \cup {transcript}, OpenCached(text) PROVE FALSE
  BY <1>0, <1>5, HarmCounts DEF OpenCached
<1>6. CASE ResumeOverflows \/ PrefillThrows
  <2>1. Failed
    BY <1>6 DEF ResumeOverflows, PrefillThrows
  <2>2. nPast # 0
    BY <2>1 DEF Failed
  <2> QED
    BY <1>0, <2>1, <2>2, HarmCounts DEF Failed
<1>7. CASE Resume
  <2>a. PICK c \in Longest : \E r \in Restored(c) :
          /\ Resumable(c) /\ ctx' = Completed(c, r)
          /\ Harm(r # Restore(ctx, c.cells) \/ ~IsPrefix(c.cells, ctx'.kv))
    BY <1>7 DEF Resume
  <2>1. PICK r \in Restored(c) :
          /\ Resumable(c) /\ ctx' = Completed(c, r)
          /\ Harm(r # Restore(ctx, c.cells) \/ ~IsPrefix(c.cells, ctx'.kv))
    BY <2>a
  <2>2. r = Restore(ctx, c.cells) /\ IsPrefix(c.cells, ctx'.kv)
    BY <1>0, <2>1, HarmCounts
  <2>3. c \in Told
    BY <1>1, <2>1 DEF Longest, SpellInv, Hold
  <2>4. Exactly(ctx', Len(Whole(prompt)), prompt)
    BY <1>0, <2>1, <2>2, <2>3, ResumeSpells
  <2>5. Len(Whole(prompt)) \in Nat
    BY <1>0, WholeText DEF Typed
  <2> QED
    BY <1>7, <2>4, <2>5, SessionOf DEF Resume, Opened
<1>8. CASE PrefillRest
  <2>1. Reached /\ Ahead /\ rungs = {}
    BY <1>0, <1>8 DEF Staged, PrefillRest
  <2>2. PICK w \in Tokens : w = Whole(prompt) /\ Len(w) \in Nat \ {0} /\ TextOf(w) = prompt
    BY <1>0, WholeText DEF Typed
  <2>3. NextEnd = Len(w)
    BY <2>1, <2>2 DEF NextEnd
  <2>4. ctx' = Advanced /\ nPast' = Len(w) /\ transcript' = prompt
    BY <1>8, <2>2 DEF PrefillRest, Opened
  <2>5. Advanced.kv = w /\ Advanced.n = Len(w) /\ Advanced.lg = Advanced.kv
    <3>1. SubSeq(w, 1, Len(w)) = w
      BY SubSeqFull DEF Tokens
    <3> QED
      BY <1>0, <2>1, <2>2, <2>3, <3>1, Advances
  <2>6. Exactly(ctx', Len(w), prompt)
    BY <2>2, <2>4, <2>5, ExactlyIs
  <2> QED
    BY <2>2, <2>4, <2>6, SessionOf
<1>9. ASSUME NEW out \in Output, Turn(out) PROVE Session'
  BY <1>0, <1>1, <1>9, TurnSpells
<1>10. ASSUME NEW out \in Output, TurnLost(out) PROVE FALSE
  BY <1>0, <1>10, HarmCounts DEF TurnLost
<1>11. ASSUME NEW text \in Input, Continue(text) PROVE Session'
  BY <1>0, <1>1, <1>11, ContinueSpells
<1>12. ASSUME NEW text \in Input, ContinueThrows(text) PROVE Session'
  BY <1>0, <1>1, <1>12, ContinueThrowsSpells
<1> QED
  BY <1>2, <1>3, <1>4, <1>5, <1>6, <1>7, <1>8, <1>9, <1>10, <1>11, <1>12, NextSplit

(* What continue() captures without a harm is what it says.                 *)
LEMMA ContinuedTold ==
  ASSUME SpellInv, harms = 0, pc = "idle", nPast - mark >= Block
  PROVE  Snapshot(transcript, nPast, "continued", ctx) \in Told
<1>0. Typed /\ Session
  BY DEF SpellInv, CoreInv
<1>1. Says(ctx, nPast, transcript) /\ Len(ctx.kv) = nPast
  BY <1>0, GoesOn
<1>2. ctx.kv \in Tokens /\ TextOf(ctx.kv) = transcript
  BY <1>1, SubSeqFull DEF Says, Tokens
<1>3. Snapshot(transcript, nPast, "continued", ctx) \in Checkpoints
  BY <1>0, ContinuedSnapshot DEF Captures
<1> QED
  BY <1>1, <1>2, <1>3 DEF Snapshot, Told

(* The invariant is kept by every step.                                     *)
LEMMA SpellStep == ASSUME Lossless PROVE SpellInv /\ [Next]_vars => SpellInv'
<1> SUFFICES ASSUME SpellInv, [Next]_vars PROVE SpellInv'
  OBVIOUS
<1>1. CoreInv'
  BY CoreStep DEF SpellInv
<1>2. CASE Next
  <2>1. ASSUME harms' = 0 PROVE Hold(Told)'
    <3>1. harms = 0
      BY <1>2, <2>1, HarmsStay DEF SpellInv, CoreInv
    <3>2. Hold(Told) /\ CoreInv
      BY <3>1 DEF SpellInv
    <3>3. pc = "idle" /\ nPast - mark >= Block => Snapshot(transcript, nPast, "continued", ctx) \in Told
      BY <3>1, ContinuedTold
    <3>4. Captures \cap Told \subseteq Told
      OBVIOUS
    <3> QED
      BY <1>2, <3>2, <3>3, <3>4, HoldStep
  <2>2. Session'
    BY <1>2, SessionStep
  <2> QED
    BY <1>1, <2>1, <2>2 DEF SpellInv
<1>3. CASE UNCHANGED vars
  <2>1. Session'
    BY <1>3, SessionStays DEF vars, SpellInv, convVars
  <2>2. harms' = harms /\ (Hold(Told) => Hold(Told)')
    BY <1>3 DEF vars, Hold
  <2> QED
    BY <1>1, <2>1, <2>2 DEF SpellInv
<1> QED
  BY <1>2, <1>3

(* It holds at first.                                                       *)
LEMMA SpellInit == Init => SpellInv
<1> SUFFICES ASSUME Init PROVE SpellInv
  OBVIOUS
<1>1. Hold(Told)
  BY EmptySeq DEF Init, Hold
<1>2. Session
  BY DEF Init, Session
<1> QED
  BY <1>1, <1>2, CoreInit DEF SpellInv

(* Until a harm is met the cells up to n_past_ spell the transcript, by     *)
(* whichever path the context was filled, and a turn samples from logits of *)
(* the last cell: see Spelled.                                              *)
THEOREM ContextSpells == ASSUME Lossless PROVE Spec => []Spelled
<1>1. SpellInv => Spelled
  <2> SUFFICES ASSUME SpellInv, harms = 0, pc \in {"turn", "idle"}
               PROVE  /\ TextOf(Upto(ctx.kv, nPast)) = transcript
                      /\ nPast <= Len(ctx.kv) /\ ctx.n = nPast
                      /\ pc = "turn" => LogitsValid(ctx)
    BY DEF Spelled
  <2>1. /\ Says(ctx, nPast, transcript) /\ nPast \in Nat
        /\ pc = "turn" => ctx.lg = ctx.kv
    BY DEF SpellInv, Session, CoreInv, Typed
  <2>2. Upto(ctx.kv, nPast) = SubSeq(ctx.kv, 1, nPast)
    BY <2>1, UptoType DEF Says, Tokens
  <2>3. ctx.kv # <<>>
    BY <2>1, EmptySeq DEF Says, Tokens
  <2> QED
    BY <2>1, <2>2, <2>3 DEF Says, LogitsValid
<1>2. SpellInv /\ [Next]_vars => SpellInv'
  BY SpellStep
<1> QED
  BY <1>1, <1>2, SpellInit, PTL DEF Spec

(* Until a harm is met every checkpoint, written or not, is its text and    *)
(* its token count: see Faithful.                                           *)
THEOREM CheckpointsAreFaithful == ASSUME Lossless PROVE Spec => []Faithful
<1>1. SpellInv => Faithful
  <2> SUFFICES ASSUME SpellInv, harms = 0
               PROVE  \A c \in store \cup ToSet(queue) \cup ToSet(old) :
                        TextOf(c.cells) = c.text /\ Len(c.cells) = c.tokens
    BY DEF Faithful
  <2>1. \A c \in store \cup ToSet(queue) \cup ToSet(old) : c \in Told
    BY HoldAll DEF SpellInv
  <2> QED
    BY <2>1 DEF Told
<1>2. SpellInv /\ [Next]_vars => SpellInv'
  BY SpellStep
<1> QED
  BY <1>1, <1>2, SpellInit, PTL DEF Spec

=============================================================================
