------------------------- MODULE ConversationProofs -------------------------
(***************************************************************************)
(* The type invariant of Conversation and the safety properties its run    *)
(* checks, as theorems of the specification for any number of files, any   *)
(* length of the history and any choice of its switches.                   *)
(***************************************************************************)
EXTENDS Conversation, SequenceTheorems, FiniteSetTheorems, WellFoundedInduction, TLAPS

(* Of the failures of what is to be proved by induction, one is the least.  *)
LEMMA LeastFailure ==
  ASSUME NEW B \in SUBSET Nat, B # {}
  PROVE  \E m \in B : \A n \in B : m <= n
<1> DEFINE R == OpToRel(<, Nat)
<1>1. IsWellFoundedOn(R, Nat)
  BY NatLessThanWellFounded
<1>2. PICK x \in B : x \in Nat
  OBVIOUS
<1>3. PICK y \in B : \A z \in B : ~(<<z, y>> \in R)
  BY <1>1, <1>2, WFMin
<1>4. \A z, w \in Nat : z < w => <<z, w>> \in R
  BY DEF OpToRel
<1> HIDE DEF R
<1>5. \A z \in B : z \in Nat /\ ~(z < y)
  BY <1>3, <1>4
<1> QED
  BY <1>5

(* A set of numbers up to a bound has a greatest one.                       *)
LEMMA Greatest ==
  ASSUME NEW n \in Nat, NEW S \in SUBSET (1..n), S # {}
  PROVE  Max(S) \in S /\ \A i \in S : Max(S) >= i
<1> DEFINE B == {n - i : i \in S}
<1>1. B \in SUBSET Nat
  <2>1. \A i \in S : n - i \in Nat
    OBVIOUS
  <2> QED
    BY <2>1
<1>2. PICK e \in S : TRUE
  OBVIOUS
<1>3. n - e \in B
  BY <1>2
<1>4. B # {}
  BY <1>3
<1>5. PICK m \in B : \A k \in B : m <= k
  BY <1>1, <1>4, LeastFailure
<1>6. PICK x \in S : m = n - x
  BY <1>5
<1>7. \A i \in S : x >= i
  <2> SUFFICES ASSUME NEW i \in S PROVE x >= i
    OBVIOUS
  <2>1. m <= n - i
    BY <1>5
  <2> QED
    BY <1>6, <2>1
<1>8. \E y \in S : \A i \in S : y >= i
  BY <1>7
<1> QED
  BY <1>8 DEF Max

----------------------------------------------------------------------------
(* Concatenations *)

(* g[i] is the concatenation of the first i sequences of s.                 *)
Joins(g, s, n) == \A i \in 1..n : g[i] = IF i = 1 THEN s[i] ELSE g[i - 1] \o s[i]

(* There is a function that joins the sequences of s one by one.            *)
LEMMA JoinsExist ==
  ASSUME NEW s, NEW N \in Nat
  PROVE  \E g : Joins(g, s, N)
<1> DEFINE B == {n \in Nat : ~\E g : Joins(g, s, n)}
<1> SUFFICES ASSUME B # {} PROVE FALSE
  OBVIOUS
<1>1. PICK n \in B : \A m \in B : n <= m
  BY LeastFailure
<1>2. CASE n = 0
  <2>1. \A g : Joins(g, s, 0)
    BY DEF Joins
  <2> QED
    BY <1>1, <1>2, <2>1
<1>3. CASE n # 0
  <2>1. n - 1 \in Nat /\ n - 1 \notin B
    BY <1>1, <1>3
  <2>2. PICK g : Joins(g, s, n - 1)
    BY <2>1
  <2> DEFINE h == [i \in 1..n |-> IF i = 1 THEN s[i] ELSE g[i - 1] \o s[i]]
  <2>3. \A i \in 1..(n - 1) : h[i] = g[i]
    BY <1>3, <2>1, <2>2 DEF Joins
  <2>4. ASSUME NEW i \in 1..n, i # 1 PROVE h[i] = g[i - 1] \o s[i] /\ h[i - 1] = g[i - 1]
    <3>1. i - 1 \in 1..(n - 1)
      BY <2>1, <2>4
    <3> QED
      BY <2>3, <2>4, <3>1
  <2>5. \A i \in 1..n : i = 1 => h[i] = s[i]
    OBVIOUS
  <2>6. Joins(h, s, n)
    <3> HIDE DEF h
    <3> QED
      BY <2>4, <2>5 DEF Joins
  <2> QED
    BY <1>1, <2>6
<1> QED
  BY <1>2, <1>3

(* What is joined is what the recursion says.                               *)
LEMMA FlattenUnfolds ==
  ASSUME NEW T, NEW s \in Seq(T), s # <<>>
  PROVE  \E g : Joins(g, s, Len(s)) /\ FlattenSeq(s) = g[Len(s)]
<1> DEFINE Is(g) == g = [i \in 1..Len(s) |-> IF i = 1 THEN s[i] ELSE g[i - 1] \o s[i]]
           joined == CHOOSE g : Is(g)
<1>1. FlattenSeq(s) = joined[Len(s)]
  BY DEF FlattenSeq
<1>2. \E g : Is(g)
  <2>1. PICK g : Joins(g, s, Len(s))
    BY JoinsExist
  <2> DEFINE h == [i \in 1..Len(s) |-> g[i]]
  <2>2. \A i \in 1..Len(s) : g[i] = IF i = 1 THEN s[i] ELSE h[i - 1] \o s[i]
    BY <2>1 DEF Joins
  <2>3. Is(h)
    BY <2>2
  <2> QED
    BY <2>3
<1>3. Is(joined)
  <2> HIDE DEF Is
  <2> QED
    BY <1>2
<1>4. Joins(joined, s, Len(s))
  <2> HIDE DEF joined
  <2> QED
    BY <1>3 DEF Joins
<1> QED
  BY <1>1, <1>4

(* Sequences join to a sequence of the same elements.                       *)
LEMMA JoinsType ==
  ASSUME NEW C, NEW s \in Seq(Seq(C)), NEW g, NEW n \in 0..Len(s), Joins(g, s, n)
  PROVE  \A i \in 1..n : g[i] \in Seq(C)
<1> DEFINE B == {i \in 1..n : g[i] \notin Seq(C)}
<1> SUFFICES ASSUME B # {} PROVE FALSE
  OBVIOUS
<1>0. B \subseteq Nat
  OBVIOUS
<1>1. PICK i \in B : \A j \in B : i <= j
  BY <1>0, LeastFailure
<1>2. s[i] \in Seq(C) /\ i \in 1..n
  OBVIOUS
<1>3. CASE i = 1
  BY <1>2, <1>3 DEF Joins
<1>4. CASE i # 1
  <2>1. i - 1 \in 1..n /\ i - 1 \notin B
    BY <1>1, <1>2, <1>4
  <2>2. g[i - 1] \in Seq(C)
    BY <2>1
  <2>3. g[i] = g[i - 1] \o s[i]
    BY <1>2, <1>4 DEF Joins
  <2>4. g[i - 1] \o s[i] \in Seq(C)
    BY <1>2, <2>2, ConcatProperties
  <2> QED
    BY <2>3, <2>4
<1> QED
  BY <1>3, <1>4

(* Nothing is the concatenation of nothing.                                 *)
LEMMA FlattenNothing == FlattenSeq(<<>>) = <<>>
BY DEF FlattenSeq

(* A concatenation is a sequence, and one more sequence goes behind it.     *)
LEMMA FlattenMore ==
  ASSUME NEW C, NEW s \in Seq(Seq(C)), NEW e \in Seq(C)
  PROVE  /\ FlattenSeq(s) \in Seq(C)
         /\ FlattenSeq(Append(s, e)) = FlattenSeq(s) \o e
<1>1. ASSUME NEW t \in Seq(Seq(C)) PROVE FlattenSeq(t) \in Seq(C)
  <2>1. CASE t = <<>>
    <3>1. <<>> \in Seq(C)
      OBVIOUS
    <3> QED
      BY <2>1, <3>1, FlattenNothing
  <2>2. CASE t # <<>>
    <3>1. PICK g : Joins(g, t, Len(t)) /\ FlattenSeq(t) = g[Len(t)]
      BY <2>2, FlattenUnfolds
    <3>2. Len(t) \in 1..Len(t) /\ Len(t) \in 0..Len(t)
      BY <2>2
    <3>3. \A i \in 1..Len(t) : g[i] \in Seq(C)
      BY <3>1, <3>2, JoinsType
    <3> QED
      BY <3>1, <3>2, <3>3
  <2> QED
    BY <2>1, <2>2
<1>a. PICK m \in Seq(Seq(C)) : m = Append(s, e)
  <2>1. Append(s, e) \in Seq(Seq(C))
    BY AppendProperties
  <2> QED
    BY <2>1
<1>b. PICK k \in Nat : k = Len(s)
  OBVIOUS
<1>2. m # <<>> /\ Len(m) = k + 1
  BY <1>a, <1>b
<1>3. m[k + 1] = e /\ \A i \in 1..k : m[i] = s[i]
  BY <1>a, <1>b
<1>4. PICK h : Joins(h, m, k + 1) /\ FlattenSeq(m) = h[k + 1]
  BY <1>2, FlattenUnfolds
<1>5. CASE s = <<>>
  <2>1. k = 0
    BY <1>5, <1>b
  <2>2. FlattenSeq(m) = e
    BY <1>2, <1>3, <1>4, <2>1 DEF Joins
  <2>3. <<>> \o e = e
    BY ConcatEmptySeq
  <2>4. FlattenSeq(s) \in Seq(C) /\ FlattenSeq(s) = <<>>
    BY <1>1, <1>5, FlattenNothing
  <2> QED
    BY <2>2, <2>3, <2>4, <1>a
<1>6. CASE s # <<>>
  <2>1. PICK g : Joins(g, s, k) /\ FlattenSeq(s) = g[k]
    BY <1>6, <1>b, FlattenUnfolds
  <2>2. k # 0
    BY <1>6, <1>b
  <2>3. \A i \in 1..k : s[i] = m[i]
    BY <1>3
  <2>4. k \in Nat /\ Joins(g, s, k) /\ Joins(h, m, k + 1)
    BY <1>2, <1>4, <2>1
  <2>5. \A i \in 1..k : g[i] = h[i]
    <3> DEFINE B == {i \in 1..k : g[i] # h[i]}
    <3> SUFFICES ASSUME B # {} PROVE FALSE
      OBVIOUS
    <3>1. B \subseteq Nat
      OBVIOUS
    <3>2. PICK i \in B : \A j \in B : i <= j
      BY <3>1, LeastFailure
    <3>3. i \in 1..k /\ i \in 1..(k + 1) /\ s[i] = m[i]
      BY <2>3
    <3>4. CASE i = 1
      BY <2>4, <3>3, <3>4 DEF Joins
    <3>5. CASE i # 1
      <4>1. PICK j \in Nat : j = i - 1
        BY <3>3, <3>5
      <4>2. j \in 1..k /\ ~(i <= j)
        BY <3>3, <3>5, <4>1
      <4>3. j \notin B
        <5> HIDE DEF B
        <5> QED
          BY <3>2, <4>2
      <4>4. g[i - 1] = h[i - 1]
        BY <4>1, <4>2, <4>3
      <4> QED
        BY <2>4, <3>3, <3>5, <4>4 DEF Joins
    <3> QED
      BY <3>4, <3>5
  <2>6. h[k + 1] = h[k] \o m[k + 1]
    <3>1. k + 1 # 1 /\ k + 1 \in 1..(k + 1) /\ (k + 1) - 1 = k
      BY <2>2
    <3> QED
      BY <2>4, <3>1 DEF Joins
  <2>7. g[k] = h[k]
    BY <2>2, <2>5
  <2> QED
    BY <1>1, <1>3, <1>4, <2>1, <2>6, <2>7, <1>a
<1> QED
  BY <1>5, <1>6

(* The concatenation of two runs of sequences.                              *)
LEMMA FlattenBoth ==
  ASSUME NEW C, NEW s \in Seq(Seq(C)), NEW t \in Seq(Seq(C))
  PROVE  FlattenSeq(s \o t) = FlattenSeq(s) \o FlattenSeq(t)
<1> DEFINE Bad(u) == FlattenSeq(s \o u) # FlattenSeq(s) \o FlattenSeq(u)
           B == {Len(u) : u \in {v \in Seq(Seq(C)) : Bad(v)}}
<1> SUFFICES ASSUME B # {} PROVE FALSE
  OBVIOUS
<1>1. B \subseteq Nat
  OBVIOUS
<1>2. PICK n \in B : \A m \in B : n <= m
  BY <1>1, LeastFailure
<1>3. PICK u \in Seq(Seq(C)) : Bad(u) /\ Len(u) = n
  BY <1>2
<1> HIDE DEF B
<1>4. FlattenSeq(s) \in Seq(C)
  BY <<>> \in Seq(C), FlattenMore
<1>5. CASE u = <<>>
  <2>1. s \o <<>> = s /\ FlattenSeq(s) \o <<>> = FlattenSeq(s)
    BY <1>4
  <2> QED
    BY <1>3, <1>5, <2>1, FlattenNothing
<1>6. CASE u # <<>>
  <2>1. PICK v \in Seq(Seq(C)), e \in Seq(C) : u = Append(v, e)
    BY <1>6, SequenceEmptyOrAppend
  <2>0. n = Len(v) + 1 /\ Len(v) \in Nat
    BY <1>3, <2>1, AppendProperties
  <2>2. ~Bad(v)
    <3>1. Len(v) \notin B
      BY <1>2, <2>0
    <3> QED
      BY <3>1 DEF B
  <2>3. s \o v \in Seq(Seq(C)) /\ s \o u = Append(s \o v, e)
    <3>1. s \o v \in Seq(Seq(C)) /\ <<e>> \in Seq(Seq(C))
      BY ConcatProperties
    <3>2. u = v \o <<e>> /\ Append(s \o v, e) = (s \o v) \o <<e>>
      BY <2>1, <3>1, AppendIsConcat
    <3>3. (s \o v) \o <<e>> = s \o (v \o <<e>>)
      <4>1. PICK last \in Seq(Seq(C)) : last = <<e>>
        BY <3>1
      <4>2. (s \o v) \o last = s \o (v \o last)
        OBVIOUS
      <4> QED
        BY <4>1, <4>2
    <3> QED
      BY <3>1, <3>2, <3>3
  <2>4. FlattenSeq(s \o u) = FlattenSeq(s \o v) \o e
    BY <2>3, FlattenMore
  <2>5. FlattenSeq(u) = FlattenSeq(v) \o e /\ FlattenSeq(v) \in Seq(C)
    BY <2>1, FlattenMore
  <2>6. (FlattenSeq(s) \o FlattenSeq(v)) \o e = FlattenSeq(s) \o (FlattenSeq(v) \o e)
    <3>1. PICK a \in Seq(C), b \in Seq(C) : a = FlattenSeq(s) /\ b = FlattenSeq(v)
      BY <1>4, <2>5
    <3>2. (a \o b) \o e = a \o (b \o e)
      OBVIOUS
    <3> QED
      BY <3>1, <3>2
  <2> QED
    BY <1>3, <2>2, <2>4, <2>5, <2>6
<1> QED
  BY <1>5, <1>6

-----------------------------------------------------------------------------
(* What messages and loops are besides their types: a tool's result shows a *)
(* version of a file.                                                       *)
Msg == {m \in Message : m.role = "tool" => m.file \in File /\ m.version # 0}
Versions == File \X (1..MaxVersion)
Feds == [File -> 0..MaxVersion]
Loops ==
  [brain : {"none", "small", "large"}, gen : 0..2, drafter : 0..2,
   was : {"new", "failed", "started", "restarted", "broken"}, heard : Seq(Msg), has : SUBSET Versions]

----------------------------------------------------------------------------
(* Which message is the last of its kind *)

LastUser(ms) == SelectLastInSeq(ms, LAMBDA m : m.role = "user")

(* The last reply of a history, and its last user message, are there if the *)
(* number is not 0, and none is behind them.                                *)
LEMMA LastOnes ==
  ASSUME NEW ms \in Seq(Msg)
  PROVE  /\ /\ LastReply(ms) \in 0..Len(ms)
            /\ LastReply(ms) # 0 => ms[LastReply(ms)].role = "assistant"
            /\ \A i \in 1..Len(ms) : i > LastReply(ms) => ms[i].role # "assistant"
         /\ /\ LastUser(ms) \in 0..Len(ms)
            /\ LastUser(ms) # 0 => ms[LastUser(ms)].role = "user"
            /\ \A i \in 1..Len(ms) : i > LastUser(ms) => ms[i].role # "user"
<1>0. Len(ms) \in Nat
  OBVIOUS
<1>1. /\ LastReply(ms) \in 0..Len(ms)
      /\ LastReply(ms) # 0 => ms[LastReply(ms)].role = "assistant"
      /\ \A i \in 1..Len(ms) : i > LastReply(ms) => ms[i].role # "assistant"
  <2> DEFINE I == {i \in 1..Len(ms) : ms[i].role = "assistant"}
  <2>1. LastReply(ms) = IF I # {} THEN Max(I) ELSE 0
    BY DEF LastReply, SelectLastInSeq
  <2>2. I # {} => Max(I) \in I /\ \A i \in I : Max(I) >= i
    BY <1>0, Greatest
  <2>3. I = {} => LastReply(ms) = 0
    BY <2>1
  <2>4. I # {} => LastReply(ms) \in I /\ \A i \in I : LastReply(ms) >= i
    BY <2>1, <2>2
  <2>5. \A i \in I : i \in 1..Len(ms) /\ ms[i].role = "assistant"
    OBVIOUS
  <2>6. \A i \in 1..Len(ms) : i \notin I => ms[i].role # "assistant"
    OBVIOUS
  <2> HIDE DEF I
  <2>7. LastReply(ms) \in 0..Len(ms) /\ (LastReply(ms) # 0 => ms[LastReply(ms)].role = "assistant")
    BY <1>0, <2>3, <2>4, <2>5
  <2>8. \A i \in 1..Len(ms) : i > LastReply(ms) => i \notin I
    BY <1>0, <2>4, <2>7
  <2> QED
    BY <2>6, <2>7, <2>8
<1>2. /\ LastUser(ms) \in 0..Len(ms)
      /\ LastUser(ms) # 0 => ms[LastUser(ms)].role = "user"
      /\ \A i \in 1..Len(ms) : i > LastUser(ms) => ms[i].role # "user"
  <2> DEFINE I == {i \in 1..Len(ms) : ms[i].role = "user"}
  <2>1. LastUser(ms) = IF I # {} THEN Max(I) ELSE 0
    BY DEF LastUser, SelectLastInSeq
  <2>2. I # {} => Max(I) \in I /\ \A i \in I : Max(I) >= i
    BY <1>0, Greatest
  <2>3. I = {} => LastUser(ms) = 0
    BY <2>1
  <2>4. I # {} => LastUser(ms) \in I /\ \A i \in I : LastUser(ms) >= i
    BY <2>1, <2>2
  <2>5. \A i \in I : i \in 1..Len(ms) /\ ms[i].role = "user"
    OBVIOUS
  <2>6. \A i \in 1..Len(ms) : i \notin I => ms[i].role # "user"
    OBVIOUS
  <2> HIDE DEF I
  <2>7. LastUser(ms) \in 0..Len(ms) /\ (LastUser(ms) # 0 => ms[LastUser(ms)].role = "user")
    BY <1>0, <2>3, <2>4, <2>5
  <2>8. \A i \in 1..Len(ms) : i > LastUser(ms) => i \notin I
    BY <1>0, <2>4, <2>7
  <2> QED
    BY <2>6, <2>7, <2>8
<1> QED
  BY <1>1, <1>2

(* The active file is a file or none.                                       *)
LEMMA ActiveIsFile ==
  ASSUME NEW ms \in Seq(Msg), active \in File \cup {NoFile}
  PROVE  ActiveFiles(ms) \subseteq File \cup {NoFile}
<1> DEFINE I == {i \in 1..Len(ms) : ms[i].role = "assistant" /\ ms[i].file # NoFile}
           n == IF I # {} THEN Max(I) ELSE 0
<1>1. ActiveFiles(ms) = IF n > 0 THEN {ms[n].file}
                        ELSE IF active # NoFile THEN {active} ELSE File \cup {NoFile}
  BY DEF ActiveFiles, SelectLastInSeq
<1>2. Len(ms) \in Nat
  OBVIOUS
<1>3. I # {} => Max(I) \in I
  BY <1>2, Greatest
<1>4. n > 0 => n \in 1..Len(ms)
  BY <1>2, <1>3
<1>5. n > 0 => ms[n].file \in File \cup {NoFile}
  <2>1. n > 0 => ms[n] \in Msg
    BY <1>4
  <2> QED
    BY <2>1 DEF Msg, Message
<1> QED
  BY <1>1, <1>5

----------------------------------------------------------------------------
(* What of a history is input *)

Pieces(ms) == [i \in DOMAIN ms |-> IF ms[i].role = "assistant" THEN <<>> ELSE <<ms[i]>>]

(* The pieces are as many as the messages.                                  *)
LEMMA PiecesType ==
  ASSUME NEW ms \in Seq(Msg)
  PROVE  /\ Pieces(ms) \in Seq(Seq(Msg)) /\ Len(Pieces(ms)) = Len(ms)
         /\ \A i \in 1..Len(ms) : Pieces(ms)[i] = IF ms[i].role = "assistant" THEN <<>> ELSE <<ms[i]>>
<1>1. DOMAIN ms = 1..Len(ms) /\ Len(ms) \in Nat
  OBVIOUS
<1>2. \A i \in 1..Len(ms) : (IF ms[i].role = "assistant" THEN <<>> ELSE <<ms[i]>>) \in Seq(Msg)
  <2> SUFFICES ASSUME NEW i \in 1..Len(ms)
               PROVE  (IF ms[i].role = "assistant" THEN <<>> ELSE <<ms[i]>>) \in Seq(Msg)
    OBVIOUS
  <2>1. ms[i] \in Msg
    OBVIOUS
  <2>2. <<>> \in Seq(Msg)
    BY EmptySeq
  <2>3. <<ms[i]>> \in Seq(Msg)
    BY <2>1
  <2> QED
    BY <2>2, <2>3
<1>3. Pieces(ms) \in [1..Len(ms) -> Seq(Msg)]
  BY <1>1, <1>2 DEF Pieces
<1>4. Pieces(ms) \in Seq(Seq(Msg)) /\ Len(Pieces(ms)) = Len(ms)
  BY <1>1, <1>3
<1> QED
  BY <1>1, <1>4 DEF Pieces

(* The input of two histories one behind the other; replies are no input,   *)
(* and what is matched of a message is input as it is.                      *)
LEMMA InputBoth ==
  ASSUME NEW s \in Seq(Msg), NEW t \in Seq(Msg)
  PROVE  Input(s \o t) = Input(s) \o Input(t)
<1>1. Pieces(s \o t) = Pieces(s) \o Pieces(t)
  <2>1. s \o t \in Seq(Msg) /\ Len(s \o t) = Len(s) + Len(t) /\ Len(s) \in Nat /\ Len(t) \in Nat
    BY ConcatProperties
  <2>2. /\ Pieces(s \o t) \in Seq(Seq(Msg)) /\ Len(Pieces(s \o t)) = Len(s) + Len(t)
        /\ \A i \in 1..(Len(s) + Len(t)) :
             Pieces(s \o t)[i] = IF (s \o t)[i].role = "assistant" THEN <<>> ELSE <<(s \o t)[i]>>
    BY <2>1, PiecesType
  <2>3. PICK a \in Seq(Seq(Msg)) : a = Pieces(s) /\ Len(a) = Len(s)
          /\ \A i \in 1..Len(s) : a[i] = IF s[i].role = "assistant" THEN <<>> ELSE <<s[i]>>
    BY PiecesType
  <2>4. PICK b \in Seq(Seq(Msg)) : b = Pieces(t) /\ Len(b) = Len(t)
          /\ \A i \in 1..Len(t) : b[i] = IF t[i].role = "assistant" THEN <<>> ELSE <<t[i]>>
    BY PiecesType
  <2>5. a \o b \in Seq(Seq(Msg)) /\ Len(a \o b) = Len(s) + Len(t)
    <3>1. a \o b \in Seq(Seq(Msg)) /\ Len(a \o b) = Len(a) + Len(b)
      BY ConcatProperties
    <3>2. Len(a) = Len(s) /\ Len(b) = Len(t)
      BY <2>3, <2>4
    <3> QED
      BY <3>1, <3>2
  <2>6. ASSUME NEW i \in 1..(Len(s) + Len(t)) PROVE Pieces(s \o t)[i] = (a \o b)[i]
    <3>1. CASE i <= Len(s)
      <4>1. (s \o t)[i] = s[i] /\ (a \o b)[i] = a[i] /\ i \in 1..Len(s)
        BY <2>1, <2>3, <2>4, <3>1, ConcatProperties
      <4> QED
        BY <2>2, <2>3, <4>1
    <3>2. CASE i > Len(s)
      <4>1. (s \o t)[i] = t[i - Len(s)] /\ (a \o b)[i] = b[i - Len(s)] /\ i - Len(s) \in 1..Len(t)
        BY <2>1, <2>3, <2>4, <3>2, ConcatProperties
      <4> QED
        BY <2>2, <2>4, <4>1
    <3>3. i <= Len(s) \/ i > Len(s)
      OBVIOUS
    <3> QED
      BY <3>1, <3>2, <3>3
  <2>7. PICK c \in Seq(Seq(Msg)) : c = Pieces(s \o t)
    BY <2>2
  <2>8. PICK d \in Seq(Seq(Msg)) : d = a \o b
    BY <2>5
  <2>9. c = d
    BY <2>2, <2>5, <2>6, <2>7, <2>8, SeqEqual
  <2> QED
    BY <2>3, <2>4, <2>7, <2>8, <2>9
<1>2. Pieces(s) \in Seq(Seq(Msg)) /\ Pieces(t) \in Seq(Seq(Msg))
  BY PiecesType
<1>3. FlattenSeq(Pieces(s) \o Pieces(t)) = FlattenSeq(Pieces(s)) \o FlattenSeq(Pieces(t))
  BY <1>2, FlattenBoth
<1> QED
  BY <1>1, <1>3 DEF Input, Pieces

(* What the input of a history is made of.                                  *)
LEMMA InputType ==
  ASSUME NEW ms \in Seq(Msg)
  PROVE  Input(ms) \in Seq(Msg)
<1>1. Pieces(ms) \in Seq(Seq(Msg)) /\ <<>> \in Seq(Msg)
  BY PiecesType, EmptySeq
<1>2. FlattenSeq(Pieces(ms)) \in Seq(Msg)
  BY <1>1, FlattenMore
<1> QED
  BY <1>2 DEF Input, Pieces

(* The input of one message.                                                *)
LEMMA InputOne ==
  ASSUME NEW m \in Msg
  PROVE  Input(<<m>>) = IF m.role = "assistant" THEN <<>> ELSE <<m>>
<1> DEFINE e == IF m.role = "assistant" THEN <<>> ELSE <<m>>
<1>1. <<m>> \in Seq(Msg) /\ Len(<<m>>) = 1 /\ <<m>>[1] = m
  OBVIOUS
<1>2. <<>> \in Seq(Msg) /\ <<>> \in Seq(Seq(Msg))
  BY EmptySeq
<1>3. e \in Seq(Msg)
  BY <1>1, <1>2
<1>4. PICK p \in Seq(Seq(Msg)) : p = Pieces(<<m>>) /\ Len(p) = 1 /\ p[1] = e
  <2>1. PICK s \in Seq(Msg) : s = <<m>>
    BY <1>1
  <2>2. /\ Pieces(s) \in Seq(Seq(Msg)) /\ Len(Pieces(s)) = Len(s)
        /\ \A i \in 1..Len(s) : Pieces(s)[i] = IF s[i].role = "assistant" THEN <<>> ELSE <<s[i]>>
    BY PiecesType
  <2>3. Len(s) = 1 /\ s[1] = m /\ 1 \in 1..1
    BY <1>1, <2>1
  <2>4. Pieces(s)[1] = e
    BY <2>2, <2>3
  <2> QED
    BY <2>1, <2>2, <2>3, <2>4
<1> HIDE DEF e
<1>5. PICK z \in Seq(Seq(Msg)) : z = <<>> /\ Len(z) = 0
  BY <1>2
<1>6. /\ Append(z, e) \in Seq(Seq(Msg)) /\ Len(Append(z, e)) = Len(z) + 1
      /\ Append(z, e)[Len(z) + 1] = e
  BY <1>3, AppendProperties
<1>7. FlattenSeq(Append(z, e)) = FlattenSeq(z) \o e
  BY <1>3, FlattenMore
<1>8. p = Append(z, e)
  <2>1. PICK q \in Seq(Seq(Msg)) : q = Append(z, e)
    BY <1>6
  <2>2. Len(q) = 1 /\ q[1] = e
    BY <1>5, <1>6, <2>1
  <2>3. \A i \in 1..1 : i = 1
    OBVIOUS
  <2>4. Len(p) = Len(q) /\ \A i \in 1..Len(p) : p[i] = q[i]
    BY <1>4, <2>2, <2>3
  <2>5. p = q
    BY <2>4, SeqEqual
  <2> QED
    BY <2>1, <2>5
<1>9. FlattenSeq(p) = e
  <2>1. FlattenSeq(p) = FlattenSeq(z) \o e
    BY <1>7, <1>8
  <2>2. FlattenSeq(z) = <<>>
    BY <1>5, FlattenNothing
  <2>3. <<>> \o e = e
    BY <1>3, ConcatEmptySeq
  <2> QED
    BY <2>1, <2>2, <2>3
<1>10. Input(<<m>>) = FlattenSeq(p)
  BY <1>4 DEF Input, Pieces
<1> QED
  BY <1>9, <1>10 DEF e

(* Replies are no input, and what is matched of a message is input as it is.*)
LEMMA InputOfSigs ==
  ASSUME NEW ms \in Seq(Msg)
  PROVE  /\ Sigs(ms) \in Seq(Msg) /\ Len(Sigs(ms)) = Len(ms)
         /\ \A i \in 1..Len(ms) : Sigs(ms)[i] = Sig(ms[i]) /\ Sigs(ms)[i].role = ms[i].role
         /\ Says \in Msg /\ User \in Msg
         /\ Input(Sigs(ms)) = Input(ms)
         /\ Append(Sigs(ms), Says) \in Seq(Msg)
         /\ Input(Append(Sigs(ms), Says)) = Input(ms)
<1>0. DOMAIN ms = 1..Len(ms) /\ Len(ms) \in Nat
  OBVIOUS
<1>1. Says \in Msg /\ Says.role = "assistant" /\ User \in Msg
  <2>1. Says = [role |-> "assistant", does |-> "say", file |-> NoFile, version |-> 0]
    BY DEF Says, User
  <2>2. 0 \in 0..MaxVersion
    BY EngineAssumption
  <2> QED
    BY <2>1, <2>2 DEF User, Msg, Message
<1>2. \A i \in 1..Len(ms) : Sig(ms[i]) \in Msg /\ Sig(ms[i]).role = ms[i].role
  BY <1>0, <1>1 DEF Sig
<1>3. Sigs(ms) \in [1..Len(ms) -> Msg]
  BY <1>0, <1>2 DEF Sigs
<1>4. Sigs(ms) \in Seq(Msg) /\ Len(Sigs(ms)) = Len(ms)
  BY <1>0, <1>3
<1>5. \A i \in 1..Len(ms) : Sigs(ms)[i] = Sig(ms[i]) /\ Sigs(ms)[i].role = ms[i].role
  BY <1>0, <1>2 DEF Sigs
<1>6. Input(Sigs(ms)) = Input(ms)
  <2>1. PICK a \in Seq(Seq(Msg)) : a = Pieces(ms) /\ Len(a) = Len(ms)
          /\ \A i \in 1..Len(ms) : a[i] = IF ms[i].role = "assistant" THEN <<>> ELSE <<ms[i]>>
    BY PiecesType
  <2>2. PICK s \in Seq(Msg) : s = Sigs(ms) /\ Len(s) = Len(ms) /\ \A i \in 1..Len(ms) : s[i] = Sig(ms[i])
    BY <1>4, <1>5
  <2>3. PICK b \in Seq(Seq(Msg)) : b = Pieces(s) /\ Len(b) = Len(s)
          /\ \A i \in 1..Len(s) : b[i] = IF s[i].role = "assistant" THEN <<>> ELSE <<s[i]>>
    BY PiecesType
  <2>4. \A i \in 1..Len(ms) : s[i].role = ms[i].role /\ (ms[i].role # "assistant" => s[i] = ms[i])
    BY <1>2, <2>2 DEF Sig
  <2>5. \A i \in 1..Len(ms) : a[i] = b[i]
    BY <2>1, <2>2, <2>3, <2>4
  <2>6. a = b
    <3>1. Len(a) = Len(b) /\ \A i \in 1..Len(a) : a[i] = b[i]
      BY <2>1, <2>2, <2>3, <2>5
    <3> QED
      BY <3>1, SeqEqual
  <2> QED
    BY <2>1, <2>2, <2>3, <2>6 DEF Input, Pieces
<1>7. Append(Sigs(ms), Says) \in Seq(Msg)
  BY <1>1, <1>4
<1>8. Input(Append(Sigs(ms), Says)) = Input(ms)
  <2>1. Append(Sigs(ms), Says) = Sigs(ms) \o <<Says>> /\ <<Says>> \in Seq(Msg)
    BY <1>1, <1>4, AppendIsConcat
  <2>2. Input(Append(Sigs(ms), Says)) = Input(Sigs(ms)) \o Input(<<Says>>)
    BY <1>4, <2>1, InputBoth
  <2>3. Input(<<Says>>) = <<>>
    BY <1>1, InputOne
  <2>4. Input(ms) \in Seq(Msg)
    BY InputType
  <2>5. Input(ms) \o <<>> = Input(ms)
    BY <2>4, ConcatEmptySeq
  <2> QED
    BY <1>6, <2>2, <2>3, <2>5
<1> QED
  BY <1>1, <1>4, <1>5, <1>6, <1>7, <1>8

----------------------------------------------------------------------------
(* What rendering a history makes of it *)

Seen == [fed : Feds, has : SUBSET Versions]

(* What counts as fed is in the context.                                    *)
Fits(fd, has) == \A f \in File : fd[f] # 0 => <<f, fd[f]>> \in has

(* h[s] renders the messages of ms whose numbers are in s.                  *)
Renders(h, ms, base, n) ==
  \A s \in SUBSET (1..n) : h[s] = IF s = {} THEN base ELSE Render(h[s \ {Max(s)}], ms[Max(s)])

(* There is a function that renders a history message by message.           *)
LEMMA RendersExist ==
  ASSUME NEW ms, NEW base, NEW N \in Nat
  PROVE  \E h : Renders(h, ms, base, N)
<1> DEFINE B == {n \in Nat : ~\E h : Renders(h, ms, base, n)}
<1> SUFFICES ASSUME B # {} PROVE FALSE
  OBVIOUS
<1>1. PICK n \in B : \A m \in B : n <= m
  BY LeastFailure
<1>2. CASE n = 0
  <2> DEFINE h == [s \in SUBSET (1..0) |-> base]
  <2>1. \A s \in SUBSET (1..0) : s = {}
    OBVIOUS
  <2>2. Renders(h, ms, base, 0)
    BY <2>1 DEF Renders
  <2> QED
    BY <1>1, <1>2, <2>2
<1>3. CASE n # 0
  <2>1. n - 1 \in Nat /\ n - 1 \notin B /\ n \in Nat
    BY <1>1, <1>3
  <2>2. PICK g : Renders(g, ms, base, n - 1)
    BY <2>1
  <2> DEFINE h == [s \in SUBSET (1..n) |->
                     IF s = {} THEN base ELSE Render(g[s \ {Max(s)}], ms[Max(s)])]
  <2>3. ASSUME NEW s \in SUBSET (1..(n - 1)) PROVE h[s] = g[s] /\ s \in SUBSET (1..n)
    <3>1. s \in SUBSET (1..n)
      BY <2>1
    <3>2. h[s] = IF s = {} THEN base ELSE Render(g[s \ {Max(s)}], ms[Max(s)])
      BY <3>1
    <3>3. g[s] = IF s = {} THEN base ELSE Render(g[s \ {Max(s)}], ms[Max(s)])
      BY <2>2 DEF Renders
    <3> QED
      BY <3>1, <3>2, <3>3
  <2>4. ASSUME NEW s \in SUBSET (1..n), s # {} PROVE s \ {Max(s)} \in SUBSET (1..(n - 1))
    <3>1. Max(s) \in s /\ \A i \in s : Max(s) >= i
      BY <2>1, <2>4, Greatest
    <3>2. PICK m \in s : m = Max(s) /\ \A i \in s : m >= i
      BY <3>1
    <3>3. m \in 1..n
      OBVIOUS
    <3>4. \A i \in s : i # m => i \in 1..(n - 1)
      <4> SUFFICES ASSUME NEW i \in s, i # m PROVE i \in 1..(n - 1)
        OBVIOUS
      <4>1. i \in 1..n /\ m >= i
        BY <3>2
      <4> QED
        BY <2>1, <3>3, <4>1
    <3> QED
      BY <3>2, <3>4
  <2>5. ASSUME NEW s \in SUBSET (1..n)
        PROVE  h[s] = IF s = {} THEN base ELSE Render(h[s \ {Max(s)}], ms[Max(s)])
    <3>1. h[s] = IF s = {} THEN base ELSE Render(g[s \ {Max(s)}], ms[Max(s)])
      OBVIOUS
    <3>2. s # {} => h[s \ {Max(s)}] = g[s \ {Max(s)}]
      BY <2>3, <2>4
    <3> HIDE DEF h
    <3> QED
      BY <3>1, <3>2
  <2>6. Renders(h, ms, base, n)
    BY <2>5 DEF Renders
  <2> QED
    BY <1>1, <2>6
<1> QED
  BY <1>2, <1>3

(* Rendering is the last of as many steps as there are messages.            *)
LEMMA RenderedSteps ==
  ASSUME NEW ms \in Seq(Msg), NEW fd, NEW has
  PROVE  \E g : /\ g[0] = [fed |-> fd, has |-> has]
                /\ \A i \in 1..Len(ms) : g[i] = Render(g[i - 1], ms[i])
                /\ Rendered(ms, fd, has) = g[Len(ms)]
<1> DEFINE N == Len(ms)
           base == [fed |-> fd, has |-> has]
           Is(h) == h = [s \in SUBSET DOMAIN ms |->
                           IF s = {} THEN base ELSE Render(h[s \ {Max(s)}], ms[Max(s)])]
           iter == CHOOSE h : Is(h)
<1>0. N \in Nat /\ DOMAIN ms = 1..N
  OBVIOUS
<1>1. Rendered(ms, fd, has) = iter[DOMAIN ms]
  BY DEF Rendered, FoldLeft, MapThenFoldSet
<1> HIDE DEF N, base
<1>2. \E h : Is(h)
  <2>1. PICK g : Renders(g, ms, base, N)
    BY <1>0, RendersExist
  <2> DEFINE h == [s \in SUBSET (1..N) |-> g[s]]
  <2>2. ASSUME NEW s \in SUBSET (1..N)
        PROVE  g[s] = IF s = {} THEN base ELSE Render(h[s \ {Max(s)}], ms[Max(s)])
    <3>1. s \ {Max(s)} \in SUBSET (1..N)
      OBVIOUS
    <3>2. h[s \ {Max(s)}] = g[s \ {Max(s)}]
      BY <3>1
    <3> HIDE DEF h
    <3> QED
      BY <2>1, <3>2 DEF Renders
  <2>3. Is(h)
    BY <1>0, <2>2
  <2> QED
    BY <2>3
<1>3. Is(iter)
  <2> HIDE DEF Is
  <2> QED
    BY <1>2
<1> HIDE DEF iter
<1>4. Renders(iter, ms, base, N)
  BY <1>0, <1>3 DEF Renders
<1> DEFINE g == [i \in 0..N |-> iter[1..i]]
<1>5. g[0] = base
  <2>1. 1..0 = {} /\ {} \in SUBSET (1..N) /\ 0 \in 0..N
    BY <1>0
  <2>2. iter[{}] = base
    BY <1>4, <2>1 DEF Renders
  <2> QED
    BY <2>1, <2>2
<1>6. ASSUME NEW i \in 1..N PROVE g[i] = Render(g[i - 1], ms[i])
  <2> DEFINE s == 1..i
  <2>1. s \in SUBSET (1..N) /\ s # {} /\ i \in s /\ i \in Nat /\ i - 1 \in 0..N /\ i \in 0..N
    BY <1>0
  <2>2. Max(s) \in s /\ \A j \in s : Max(s) >= j
    BY <2>1, Greatest
  <2>3. Max(s) = i
    BY <2>1, <2>2
  <2>4. s \ {i} = 1..(i - 1)
    BY <2>1
  <2>5. iter[s] = Render(iter[s \ {Max(s)}], ms[Max(s)])
    BY <1>4, <2>1 DEF Renders
  <2>6. g[i] = iter[s] /\ g[i - 1] = iter[1..(i - 1)]
    BY <2>1
  <2> HIDE DEF s, g
  <2> QED
    BY <2>3, <2>4, <2>5, <2>6
<1>7. Rendered(ms, fd, has) = g[N]
  BY <1>0, <1>1
<1> HIDE DEF g
<1> QED
  BY <1>5, <1>6, <1>7 DEF N, base

(* A message that is rendered adds to what the context has, and keeps what  *)
(* counts as fed among it.                                                  *)
LEMMA RenderKeeps ==
  ASSUME NEW seen \in Seen, NEW m \in Msg
  PROVE  /\ Render(seen, m) \in Seen /\ seen.has \subseteq Render(seen, m).has
         /\ Fits(seen.fed, seen.has) => Fits(Render(seen, m).fed, Render(seen, m).has)
<1>0. 0 \in 0..MaxVersion
  BY EngineAssumption
<1>1. PICK fd \in Feds, has \in SUBSET Versions : seen = [fed |-> fd, has |-> has]
  BY DEF Seen
<1>2. CASE m.role # "tool"
  BY <1>2 DEF Render
<1>3. CASE m.role = "tool"
  <2>1. m.file \in File /\ m.version \in 1..MaxVersion /\ <<m.file, m.version>> \in Versions
    BY <1>3, EngineAssumption DEF Msg, Message, Versions
  <2>2. CASE m.does = "edit"
    <3> DEFINE e == [fd EXCEPT ![m.file] = 0]
    <3>1. Render(seen, m) = [fed |-> e, has |-> has]
      BY <1>1, <1>3, <2>2 DEF Render
    <3>2. e \in Feds
      BY <1>0, <2>1 DEF Feds
    <3>3. Fits(fd, has) => Fits(e, has)
      BY DEF Fits, Feds
    <3> HIDE DEF e
    <3> QED
      BY <1>1, <3>1, <3>2, <3>3 DEF Seen
  <2>3. CASE m.does # "edit" /\ fd[m.file] = m.version
    BY <1>1, <1>3, <2>3 DEF Render
  <2>4. CASE m.does # "edit" /\ fd[m.file] # m.version
    <3> DEFINE e == [fd EXCEPT ![m.file] = m.version]
               had == IF fd[m.file] = 0 \/ <<m.file, fd[m.file]>> \in has
                      THEN has \cup {<<m.file, m.version>>} ELSE has
    <3>1. Render(seen, m) = [fed |-> e, has |-> had]
      BY <1>1, <1>3, <2>4 DEF Render
    <3>2. e \in Feds /\ had \in SUBSET Versions /\ has \subseteq had
      BY <2>1 DEF Feds
    <3>3. ASSUME Fits(fd, has) PROVE Fits(e, had)
      <4>1. had = has \cup {<<m.file, m.version>>}
        BY <2>1, <3>3 DEF Fits
      <4> HIDE DEF had
      <4> QED
        BY <2>1, <3>3, <4>1 DEF Fits, Feds
    <3> HIDE DEF e, had
    <3> QED
      BY <1>1, <3>1, <3>2, <3>3 DEF Seen
  <2> QED
    BY <2>2, <2>3, <2>4
<1> QED
  BY <1>2, <1>3

(* And so does a history.                                                   *)
LEMMA RenderedKeeps ==
  ASSUME NEW ms \in Seq(Msg), NEW fd \in Feds, NEW has \in SUBSET Versions
  PROVE  /\ Rendered(ms, fd, has).fed \in Feds /\ Rendered(ms, fd, has).has \in SUBSET Versions
         /\ has \subseteq Rendered(ms, fd, has).has
         /\ Fits(fd, has) => Fits(Rendered(ms, fd, has).fed, Rendered(ms, fd, has).has)
<1> DEFINE Good(seen) == /\ seen \in Seen /\ has \subseteq seen.has
                         /\ Fits(fd, has) => Fits(seen.fed, seen.has)
<1>1. PICK g : /\ g[0] = [fed |-> fd, has |-> has]
               /\ \A i \in 1..Len(ms) : g[i] = Render(g[i - 1], ms[i])
               /\ Rendered(ms, fd, has) = g[Len(ms)]
  BY RenderedSteps
<1>2. Len(ms) \in Nat
  OBVIOUS
<1>3. Good(g[0])
  BY <1>1 DEF Seen
<1>4. ASSUME NEW i \in 1..Len(ms), Good(g[i - 1]) PROVE Good(g[i])
  <2>1. ms[i] \in Msg
    OBVIOUS
  <2>2. PICK seen \in Seen : seen = g[i - 1]
    BY <1>4
  <2>3. /\ Render(seen, ms[i]) \in Seen /\ seen.has \subseteq Render(seen, ms[i]).has
        /\ Fits(seen.fed, seen.has) => Fits(Render(seen, ms[i]).fed, Render(seen, ms[i]).has)
    BY <2>1, RenderKeeps
  <2>4. g[i] = Render(seen, ms[i])
    BY <1>1, <2>2
  <2> QED
    BY <1>4, <2>2, <2>3, <2>4
<1> HIDE DEF Good
<1> DEFINE B == {i \in 0..Len(ms) : ~Good(g[i])}
<1>5. B = {}
  <2> SUFFICES ASSUME B # {} PROVE FALSE
    OBVIOUS
  <2>1. B \in SUBSET Nat
    OBVIOUS
  <2>2. PICK i \in B : \A j \in B : i <= j
    BY <2>1, LeastFailure
  <2>3. i \in 1..Len(ms) /\ i - 1 \in 0..Len(ms)
    BY <1>2, <1>3, <2>2
  <2>4. i - 1 \notin B
    BY <2>2, <2>3
  <2> QED
    BY <1>4, <2>2, <2>3, <2>4
<1>6. Good(g[Len(ms)])
  BY <1>2, <1>5
<1> QED
  BY <1>1, <1>6 DEF Good, Seen

----------------------------------------------------------------------------
(* Histories a turn may be asked for *)

(* A history that ends with something to answer: what the user said, or the *)
(* result of the call before it.                                            *)
Answerable(ms) ==
  /\ ms \in Seq(Msg) /\ ms # <<>> /\ ms[1].role = "user"
  /\ ms[Len(ms)].role # "assistant"
  /\ ms[Len(ms)].role = "tool" => Len(ms) >= 2 /\ ms[Len(ms) - 1].role = "assistant"

(* The harness's history: a result directly follows its call, and there is  *)
(* room for the answer to what is last.                                     *)
Historic ==
  /\ history \in Seq(Msg) /\ Len(history) <= MaxLen
  /\ history # <<>> => history[1] = User
  /\ \A i \in 2..Len(history) :
       history[i].role = "tool" => history[i - 1].role = "assistant"
  /\ history # <<>> /\ history[Len(history)].role # "assistant" => Len(history) < MaxLen

(* Compaction keeps a result together with its call, since it keeps two     *)
(* messages at least, and leaves a mark that no history has.                *)
LEMMA Compacts ==
  ASSUME Historic, history # <<>>, history[Len(history)].role # "assistant"
  PROVE  /\ Answerable(history) /\ Answerable(Compacted(history))
         /\ Compacted(history) = history \/ Compacted(history)[1] = Brief
<1> DEFINE L == Len(history)
<1>0. /\ history \in Seq(Msg) /\ L \in Nat /\ L >= 1 /\ history[1] = User
      /\ KeepRecent \in Nat /\ KeepRecent >= 2 /\ \A i \in 1..L : history[i] \in Msg
  BY EngineAssumption DEF Historic
<1>1. User.role = "user" /\ Brief.role = "user" /\ Brief \in Msg
  <2>1. Brief = [role |-> "user", does |-> "brief", file |-> NoFile, version |-> 0]
    BY DEF Brief, User
  <2> QED
    BY <2>1, EngineAssumption DEF User, Msg, Message
<1>2. history[L].role = "tool" => L >= 2 /\ history[L - 1].role = "assistant"
  <2>1. CASE L = 1
    BY <1>0, <1>1, <2>1
  <2>2. CASE L # 1
    <3>1. PICK k \in Nat : k = L /\ k >= 1
      BY <1>0
    <3>2. k \in 2..k /\ k = L /\ L = Len(history)
      BY <2>2, <3>1
    <3>3. history[L].role = "tool" => history[L - 1].role = "assistant"
      BY <3>2 DEF Historic
    <3> QED
      BY <3>2, <3>3
  <2> QED
    BY <2>1, <2>2
<1>3. Answerable(history)
  BY <1>0, <1>1, <1>2 DEF Answerable
<1>4. CASE Len(history) <= KeepRecent + 1
  BY <1>3, <1>4 DEF Compacted
<1>5. CASE ~(Len(history) <= KeepRecent + 1)
  <2> DEFINE m == L - KeepRecent + 1
  <2>0. m \in Int /\ L \in Int /\ m >= 1 /\ m <= L - 1 /\ L - m + 1 = KeepRecent
    BY <1>0, <1>5
  <2>1. \A i \in m..L : history[i] \in Msg
    BY <1>0, <2>0
  <2> HIDE DEF m
  <2>2. PICK t \in Seq(Msg) : /\ t = SubSeq(history, m, L) /\ Len(t) = KeepRecent
                              /\ \A i \in 1..KeepRecent : t[i] = history[m + i - 1]
    <3>1. /\ SubSeq(history, m, L) \in Seq(Msg)
          /\ Len(SubSeq(history, m, L)) = IF m <= L THEN L - m + 1 ELSE 0
          /\ \A i \in 1..(L - m + 1) : SubSeq(history, m, L)[i] = history[m + i - 1]
      BY <2>0, <2>1, SubSeqProperties
    <3>2. L - m + 1 = KeepRecent /\ m <= L
      BY <2>0
    <3> QED
      BY <3>1, <3>2
  <2>3. PICK a \in Seq(Msg) : a = <<Brief>> /\ Len(a) = 1 /\ a[1] = Brief
    <3>1. <<Brief>> \in Seq(Msg) /\ Len(<<Brief>>) = 1 /\ <<Brief>>[1] = Brief
      BY <1>1
    <3> QED
      BY <3>1
  <2>4. /\ a \o t \in Seq(Msg) /\ Len(a \o t) = Len(a) + Len(t)
        /\ \A i \in 1..(Len(a) + Len(t)) : (a \o t)[i] = IF i <= Len(a) THEN a[i] ELSE t[i - Len(a)]
    BY ConcatProperties
  <2>5. PICK s \in Seq(Msg) : s = a \o t
    BY <2>4
  <2>6. Len(s) = KeepRecent + 1 /\ s[1] = Brief /\ \A i \in 2..(KeepRecent + 1) : s[i] = t[i - 1]
    <3>1. Len(s) = KeepRecent + 1
      BY <2>2, <2>3, <2>4, <2>5, <1>0
    <3>2. \A i \in 1..(KeepRecent + 1) : s[i] = IF i <= 1 THEN a[i] ELSE t[i - 1]
      <4>1. Len(a) = 1 /\ Len(a) + Len(t) = KeepRecent + 1
        BY <1>0, <2>2, <2>3
      <4> QED
        BY <2>4, <2>5, <4>1
    <3>3. 1 \in 1..(KeepRecent + 1) /\ \A i \in 2..(KeepRecent + 1) : i \in 1..(KeepRecent + 1) /\ ~(i <= 1)
      BY <1>0
    <3> QED
      BY <3>1, <3>2, <3>3, <2>3
  <2>7. s[KeepRecent + 1] = history[L] /\ s[KeepRecent] = history[L - 1]
    <3>1. s[KeepRecent + 1] = t[KeepRecent] /\ s[KeepRecent] = t[KeepRecent - 1]
      BY <1>0, <2>6
    <3>2. t[KeepRecent] = history[L] /\ t[KeepRecent - 1] = history[L - 1]
      <4>1. /\ KeepRecent \in 1..KeepRecent /\ KeepRecent - 1 \in 1..KeepRecent
            /\ m + KeepRecent - 1 = L /\ m + (KeepRecent - 1) - 1 = L - 1
        BY <1>0, <2>0
      <4> QED
        BY <2>2, <4>1
    <3> QED
      BY <3>1, <3>2
  <2>8. Compacted(history) = s
    BY <1>5, <2>2, <2>3, <2>5 DEF Compacted, m
  <2>9. Answerable(s)
    BY <1>0, <1>1, <1>2, <2>6, <2>7 DEF Answerable
  <2> QED
    BY <1>3, <2>6, <2>8, <2>9
<1> QED
  BY <1>4, <1>5

(* The first messages of a history, and the rest.                           *)
LEMMA Splits ==
  ASSUME NEW ms \in Seq(Msg), NEW n \in 0..Len(ms)
  PROVE  /\ SubSeq(ms, 1, n) \in Seq(Msg) /\ SubSeq(ms, n + 1, Len(ms)) \in Seq(Msg)
         /\ Len(SubSeq(ms, 1, n)) = n /\ Len(SubSeq(ms, n + 1, Len(ms))) = Len(ms) - n
         /\ \A i \in 1..n : SubSeq(ms, 1, n)[i] = ms[i]
         /\ \A i \in 1..(Len(ms) - n) : SubSeq(ms, n + 1, Len(ms))[i] = ms[n + i]
         /\ Input(ms) = Input(SubSeq(ms, 1, n)) \o Input(SubSeq(ms, n + 1, Len(ms)))
<1>0. Len(ms) \in Nat /\ n \in Nat /\ n <= Len(ms) /\ \A i \in 1..Len(ms) : ms[i] \in Msg
  OBVIOUS
<1>1. /\ SubSeq(ms, 1, n) \in Seq(Msg) /\ Len(SubSeq(ms, 1, n)) = n
      /\ \A i \in 1..n : SubSeq(ms, 1, n)[i] = ms[i]
  <2>1. \A i \in 1..n : ms[i] \in Msg
    BY <1>0
  <2>2. /\ SubSeq(ms, 1, n) \in Seq(Msg) /\ Len(SubSeq(ms, 1, n)) = IF 1 <= n THEN n - 1 + 1 ELSE 0
        /\ \A i \in 1..(n - 1 + 1) : SubSeq(ms, 1, n)[i] = ms[1 + i - 1]
    BY <1>0, <2>1, SubSeqProperties
  <2>3. n - 1 + 1 = n /\ (IF 1 <= n THEN n - 1 + 1 ELSE 0) = n /\ \A i \in 1..n : 1 + i - 1 = i
    BY <1>0
  <2>4. Len(SubSeq(ms, 1, n)) = n
    BY <2>2, <2>3
  <2>5. \A i \in 1..n : SubSeq(ms, 1, n)[i] = ms[i]
    BY <2>2, <2>3
  <2> QED
    BY <2>2, <2>4, <2>5
<1>2. /\ SubSeq(ms, n + 1, Len(ms)) \in Seq(Msg) /\ Len(SubSeq(ms, n + 1, Len(ms))) = Len(ms) - n
      /\ \A i \in 1..(Len(ms) - n) : SubSeq(ms, n + 1, Len(ms))[i] = ms[n + i]
  <2>1. \A i \in (n + 1)..Len(ms) : ms[i] \in Msg
    BY <1>0
  <2>2. /\ SubSeq(ms, n + 1, Len(ms)) \in Seq(Msg)
        /\ Len(SubSeq(ms, n + 1, Len(ms))) = IF n + 1 <= Len(ms) THEN Len(ms) - (n + 1) + 1 ELSE 0
        /\ \A i \in 1..(Len(ms) - (n + 1) + 1) : SubSeq(ms, n + 1, Len(ms))[i] = ms[n + 1 + i - 1]
    BY <1>0, <2>1, SubSeqProperties
  <2>3. /\ Len(ms) - (n + 1) + 1 = Len(ms) - n
        /\ (IF n + 1 <= Len(ms) THEN Len(ms) - (n + 1) + 1 ELSE 0) = Len(ms) - n
        /\ \A i \in 1..(Len(ms) - n) : n + 1 + i - 1 = n + i
    BY <1>0
  <2>4. Len(SubSeq(ms, n + 1, Len(ms))) = Len(ms) - n
    BY <2>2, <2>3
  <2>5. \A i \in 1..(Len(ms) - n) : SubSeq(ms, n + 1, Len(ms))[i] = ms[n + i]
    BY <2>2, <2>3
  <2> QED
    BY <2>2, <2>4, <2>5
<1>3. SubSeq(ms, 1, n) \o SubSeq(ms, n + 1, Len(ms)) = ms
  <2>1. /\ 1 \in 1..(Len(ms) + 1) /\ n \in (1 - 1)..Len(ms) /\ Len(ms) \in n..Len(ms)
    BY <1>0
  <2>2. SubSeq(ms, 1, n) \o SubSeq(ms, n + 1, Len(ms)) = SubSeq(ms, 1, Len(ms))
    BY <2>1, ConcatAdjacentSubSeq
  <2> QED
    BY <2>2, SubSeqFull
<1>4. Input(SubSeq(ms, 1, n) \o SubSeq(ms, n + 1, Len(ms)))
        = Input(SubSeq(ms, 1, n)) \o Input(SubSeq(ms, n + 1, Len(ms)))
  BY <1>1, <1>2, InputBoth
<1> QED
  BY <1>1, <1>2, <1>3, <1>4

----------------------------------------------------------------------------
(* What the calls make of a loop *)

Telling == {"started", "restarted"}
SameModels(lp, old) == lp.brain = old.brain /\ lp.gen = old.gen /\ lp.drafter = old.drafter

(* A loop has been told the messages ms, and has what counts as fed.        *)
Sound(lp, ms, fd) ==
  /\ lp.was \in Telling => lp.heard = Input(ms)
  /\ lp.was = "started" => Fits(fd, lp.has)

(* A call is the record Await() makes.                                      *)
Awaits(c) == c = Await(c.op, c.loop, c.fed, c.fedAfter)

(* A call on a loop, with values of the right types.                        *)
CallOn(c, lp) ==
  /\ Awaits(c)
  /\ c.loop \in Loops /\ c.fed \in Feds /\ c.fedAfter \in Feds /\ SameModels(c.loop, lp)

(* The active file in a prompt.                                             *)
LEMMA Injects ==
  ASSUME disk \in [File -> 1..MaxVersion], NEW f \in File \cup {NoFile}
  PROVE  /\ Injected(f) \in SUBSET Versions /\ NoFed \in Feds /\ \A has : Fits(NoFed, has)
         /\ \A fd \in Feds : WithActive(fd, f) \in Feds
         /\ \A fd \in Feds : \A has : Injected(f) \subseteq has /\ Fits(fd, has) => Fits(WithActive(fd, f), has)
<1>0. 0 \in 0..MaxVersion /\ NoFile \notin File /\ 1..MaxVersion \subseteq 0..MaxVersion
  BY EngineAssumption
<1>1. Injected(f) \in SUBSET Versions
  BY DEF Injected, Versions
<1>2. NoFed \in Feds /\ \A has : Fits(NoFed, has)
  BY <1>0 DEF NoFed, Feds, Fits
<1>3. ASSUME NEW fd \in Feds PROVE WithActive(fd, f) \in Feds
  <2>1. CASE f = NoFile
    BY <2>1 DEF WithActive
  <2>2. CASE f # NoFile
    <3>1. disk[f] \in 0..MaxVersion
      BY <1>0, <2>2
    <3> QED
      BY <2>2, <3>1 DEF WithActive, Feds
  <2> QED
    BY <2>1, <2>2
<1>4. ASSUME NEW fd \in Feds, NEW has, Injected(f) \subseteq has, Fits(fd, has)
      PROVE  Fits(WithActive(fd, f), has)
  <2>1. CASE f = NoFile
    BY <1>4, <2>1 DEF WithActive
  <2>2. CASE f # NoFile
    <3>1. <<f, disk[f]>> \in has
      BY <1>4, <2>2 DEF Injected
    <3> QED
      BY <1>4, <2>2, <3>1 DEF WithActive, Fits, Feds
  <2> QED
    BY <2>1, <2>2
<1> QED
  BY <1>1, <1>2, <1>3, <1>4

(* start() tells everything up to the last user message, and makes a new    *)
(* loop one that was started once.                                          *)
LEMMA Starts ==
  ASSUME disk \in [File -> 1..MaxVersion],
         NEW ms \in Seq(Msg), NEW lp \in Loops, NEW fd \in Feds, NEW f \in File \cup {NoFile}
  PROVE  /\ StartCall(ms, lp, fd, f).op = "start" /\ CallOn(StartCall(ms, lp, fd, f), lp)
         /\ StartCall(ms, lp, fd, f).loop.was = IF lp.was = "new" THEN "started" ELSE "restarted"
         /\ StartCall(ms, lp, fd, f).loop.heard = Input(SubSeq(ms, 1, LastUser(ms)))
         /\ fd = NoFed => Fits(StartCall(ms, lp, fd, f).fedAfter, StartCall(ms, lp, fd, f).loop.has)
<1> DEFINE u == LastUser(ms)
           before == SubSeq(ms, 1, u - 1)
           base == IF u > 1 THEN WithActive(fd, f) ELSE fd
           seen == Rendered(before, base, Injected(f))
           after == WithActive(seen.fed, f)
           was == IF lp.was = "new" THEN "started" ELSE "restarted"
           heard == Input(SubSeq(ms, 1, u))
           new == [lp EXCEPT !.was = was, !.has = seen.has, !.heard = heard]
<1>1. StartCall(ms, lp, fd, f) = Await("start", new, seen.fed, after)
  BY DEF StartCall, LastUser
<1>2. u \in 0..Len(ms)
  BY LastOnes
<1>3. before \in Seq(Msg)
  <2>1. CASE u = 0
    <3>1. before = <<>>
      BY <2>1, SubSeqEmpty
    <3> QED
      BY <3>1, EmptySeq
  <2>2. CASE u # 0
    <3>1. u - 1 \in 0..Len(ms)
      BY <1>2, <2>2
    <3> QED
      BY <3>1, Splits
  <2> QED
    BY <2>1, <2>2
<1>4. heard \in Seq(Msg)
  <2>1. SubSeq(ms, 1, u) \in Seq(Msg)
    BY <1>2, Splits
  <2> QED
    BY <2>1, InputType
<1>5. base \in Feds /\ Injected(f) \in SUBSET Versions
  BY Injects
<1>6. fd = NoFed => Fits(base, Injected(f))
  BY Injects
<1> HIDE DEF u, before, base, heard
<1>7. /\ seen.fed \in Feds /\ seen.has \in SUBSET Versions /\ Injected(f) \subseteq seen.has
      /\ Fits(base, Injected(f)) => Fits(seen.fed, seen.has)
  BY <1>3, <1>5, RenderedKeeps
<1> HIDE DEF seen
<1>8. after \in Feds /\ (Fits(seen.fed, seen.has) => Fits(after, seen.has))
  BY <1>7, Injects
<1>9. new \in Loops /\ new.was = was /\ new.has = seen.has /\ new.heard = heard /\ SameModels(new, lp)
  <2>1. was \in {"started", "restarted"}
    OBVIOUS
  <2> HIDE DEF was
  <2> QED
    BY <1>4, <1>7, <2>1 DEF Loops, SameModels
<1> HIDE DEF new, after, was
<1>10. /\ StartCall(ms, lp, fd, f).op = "start" /\ StartCall(ms, lp, fd, f).loop = new
       /\ StartCall(ms, lp, fd, f).fed = seen.fed /\ StartCall(ms, lp, fd, f).fedAfter = after
       /\ Awaits(StartCall(ms, lp, fd, f))
  BY <1>1 DEF Await, Awaits
<1> QED
  BY <1>6, <1>7, <1>8, <1>9, <1>10 DEF CallOn, heard, u, was

(* continue() and followUp() tell the loop the rest.                        *)
LEMMA Appends ==
  ASSUME NEW tail \in Seq(Msg), NEW lp \in Loops, NEW fd \in Feds
  PROVE  /\ AppendCall(tail, lp, fd).op = "append" /\ CallOn(AppendCall(tail, lp, fd), lp)
         /\ AppendCall(tail, lp, fd).loop.was = lp.was
         /\ AppendCall(tail, lp, fd).loop.heard = lp.heard \o Input(tail)
         /\ Fits(fd, lp.has) => Fits(AppendCall(tail, lp, fd).fedAfter, AppendCall(tail, lp, fd).loop.has)
<1> DEFINE seen == Rendered(tail, fd, lp.has)
           heard == lp.heard \o Input(tail)
           new == [lp EXCEPT !.has = seen.has, !.heard = heard]
<1>1. AppendCall(tail, lp, fd) = Await("append", new, seen.fed, seen.fed)
  <2>1. [lp EXCEPT !.has = seen.has, !.heard = @ \o Input(tail)] = new
    BY DEF Loops
  <2> QED
    BY <2>1 DEF AppendCall
<1>2. lp.has \in SUBSET Versions /\ lp.heard \in Seq(Msg)
  BY DEF Loops
<1>3. heard \in Seq(Msg)
  <2>1. Input(tail) \in Seq(Msg)
    BY InputType
  <2> QED
    BY <1>2, <2>1, ConcatProperties
<1>4. /\ seen.fed \in Feds /\ seen.has \in SUBSET Versions
      /\ Fits(fd, lp.has) => Fits(seen.fed, seen.has)
  BY <1>2, RenderedKeeps
<1> HIDE DEF seen, heard
<1>5. new \in Loops /\ new.was = lp.was /\ new.has = seen.has /\ new.heard = heard /\ SameModels(new, lp)
  BY <1>3, <1>4 DEF Loops, SameModels
<1> HIDE DEF new
<1>6. /\ AppendCall(tail, lp, fd).op = "append" /\ AppendCall(tail, lp, fd).loop = new
      /\ AppendCall(tail, lp, fd).fed = seen.fed /\ AppendCall(tail, lp, fd).fedAfter = seen.fed
      /\ Awaits(AppendCall(tail, lp, fd))
  BY <1>1 DEF Await, Awaits
<1> QED
  BY <1>4, <1>5, <1>6 DEF CallOn, heard

(* replay() tells everything up to the last reply.                          *)
LEMMA Replays ==
  ASSUME disk \in [File -> 1..MaxVersion],
         NEW ms \in Seq(Msg), NEW lp \in Loops, NEW f \in File \cup {NoFile}
  PROVE  /\ ReplayCall(ms, lp, f).op = "replay" /\ CallOn(ReplayCall(ms, lp, f), lp)
         /\ ReplayCall(ms, lp, f).loop.was = "started"
         /\ Sound(ReplayCall(ms, lp, f).loop, SubSeq(ms, 1, LastReply(ms)), ReplayCall(ms, lp, f).fed)
<1> DEFINE told == SubSeq(ms, 1, LastReply(ms))
           base == WithActive(NoFed, f)
           seen == Rendered(told, base, Injected(f))
           new == [lp EXCEPT !.was = "started", !.has = seen.has, !.heard = Input(told)]
<1>1. ReplayCall(ms, lp, f) = Await("replay", new, seen.fed, seen.fed)
  BY DEF ReplayCall
<1>2. told \in Seq(Msg)
  BY LastOnes, Splits
<1>3. Input(told) \in Seq(Msg)
  BY <1>2, InputType
<1>4. base \in Feds /\ Injected(f) \in SUBSET Versions /\ Fits(base, Injected(f))
  BY Injects
<1> HIDE DEF told, base
<1>5. seen.fed \in Feds /\ seen.has \in SUBSET Versions /\ Fits(seen.fed, seen.has)
  BY <1>2, <1>4, RenderedKeeps
<1> HIDE DEF seen
<1>6. /\ new \in Loops /\ new.was = "started" /\ new.has = seen.has /\ new.heard = Input(told)
      /\ SameModels(new, lp)
  BY <1>3, <1>5 DEF Loops, SameModels
<1> HIDE DEF new
<1>7. /\ ReplayCall(ms, lp, f).op = "replay" /\ ReplayCall(ms, lp, f).loop = new
      /\ ReplayCall(ms, lp, f).fed = seen.fed /\ ReplayCall(ms, lp, f).fedAfter = seen.fed
      /\ Awaits(ReplayCall(ms, lp, f))
  BY <1>1 DEF Await, Awaits
<1> QED
  BY <1>5, <1>6, <1>7 DEF CallOn, Sound, told

(* When the last message is the user's, start() tells everything.           *)
LEMMA StartTells ==
  ASSUME NEW ms \in Seq(Msg), ms # <<>>, ms[Len(ms)].role = "user"
  PROVE  SubSeq(ms, 1, LastUser(ms)) = ms
<1>1. PICK n \in Nat : n = Len(ms) /\ n >= 1
  BY EmptySeq
<1>2. LastUser(ms) \in 0..n /\ \A i \in 1..n : i > LastUser(ms) => ms[i].role # "user"
  BY <1>1, LastOnes
<1>3. LastUser(ms) = n
  <2>1. n \in 1..n /\ ms[n].role = "user"
    BY <1>1
  <2>2. ~(n > LastUser(ms))
    BY <1>2, <2>1
  <2> QED
    BY <1>2, <2>2
<1> QED
  BY <1>1, <1>3, SubSeqFull

----------------------------------------------------------------------------
(* What a turn calls *)

(* The loop may have been told the first n messages of ms: the last is not  *)
(* among them, and when it is a result it is all there is to tell.          *)
Upto(ms, n) == n \in 0..(Len(ms) - 1) /\ (ms[Len(ms)].role = "tool" => n = Len(ms) - 1)

(* The dispatch tells the loop the rest, whichever call it makes.           *)
LEMMA Dispatches ==
  ASSUME disk \in [File -> 1..MaxVersion],
         NEW ms, Answerable(ms), NEW n, Upto(ms, n),
         NEW lp \in Loops, lp.was # "new", NEW fd \in Feds, NEW f \in File \cup {NoFile}
  PROVE  /\ Dispatch(ms, n, lp, fd, f).op \in {"append", "start"}
         /\ CallOn(Dispatch(ms, n, lp, fd, f), lp)
         /\ Dispatch(ms, n, lp, fd, f).loop.was # "new"
         /\ Dispatch(ms, n, lp, fd, f).op = "append" => Dispatch(ms, n, lp, fd, f).loop.was = lp.was
         /\ Sound(lp, SubSeq(ms, 1, n), fd) =>
              Sound(Dispatch(ms, n, lp, fd, f).loop, ms, Dispatch(ms, n, lp, fd, f).fedAfter)
<1> DEFINE tail == SubSeq(ms, n + 1, Len(ms))
           c == Dispatch(ms, n, lp, fd, f)
<1>0. /\ ms \in Seq(Msg) /\ ms # <<>> /\ Len(ms) \in Nat /\ Len(ms) >= 1 /\ n \in 0..Len(ms)
      /\ ms[Len(ms)] \in Msg
  <2>1. ms \in Seq(Msg) /\ ms # <<>>
    BY DEF Answerable
  <2>2. PICK L \in Nat : L = Len(ms) /\ L >= 1
    BY <2>1, EmptySeq
  <2>3. ms[L] \in Msg
    BY <2>1, <2>2
  <2> QED
    BY <2>1, <2>2, <2>3 DEF Upto
<1>1. tail \in Seq(Msg) /\ Input(ms) = Input(SubSeq(ms, 1, n)) \o Input(tail)
  BY <1>0, Splits
<1>2. CASE Appendable(tail)
  <2>1. c = AppendCall(tail, lp, fd)
    BY <1>2 DEF Dispatch
  <2>2. /\ c.op = "append" /\ CallOn(c, lp) /\ c.loop.was = lp.was
        /\ c.loop.heard = lp.heard \o Input(tail)
        /\ Fits(fd, lp.has) => Fits(c.fedAfter, c.loop.has)
    <3>1. PICK t \in Seq(Msg) : t = tail
      BY <1>1
    <3>2. c = AppendCall(t, lp, fd)
      BY <2>1, <3>1
    <3> HIDE DEF c, tail
    <3> QED
      BY <3>1, <3>2, Appends
  <2> HIDE DEF c, tail
  <2>3. Sound(lp, SubSeq(ms, 1, n), fd) => Sound(c.loop, ms, c.fedAfter)
    BY <1>1, <2>2 DEF Sound
  <2> QED
    BY <2>2, <2>3 DEF c
<1>3. CASE ~Appendable(tail)
  <2>1. ms[Len(ms)].role # "tool"
    <3> SUFFICES ASSUME ms[Len(ms)].role = "tool" PROVE Appendable(tail)
      BY <1>3
    <3>1. n = Len(ms) - 1 /\ Len(ms) - n = 1 /\ n + 1 = Len(ms)
      BY <1>0 DEF Upto
    <3>2. Len(tail) = 1 /\ tail[1] = ms[Len(ms)]
      <4>1. /\ Len(tail) = Len(ms) - n
            /\ \A i \in 1..(Len(ms) - n) : tail[i] = ms[n + i]
        BY <1>0, Splits
      <4>2. 1 \in 1..1
        OBVIOUS
      <4> HIDE DEF tail
      <4> QED
        BY <3>1, <4>1, <4>2
    <3>3. PICK m \in Msg : m = ms[Len(ms)] /\ m.role = "tool"
      BY <1>0
    <3>4. tail = <<m>>
      <4>1. PICK t \in Seq(Msg) : t = tail
        BY <1>1
      <4>2. PICK o \in Seq(Msg) : o = <<m>> /\ Len(o) = 1 /\ o[1] = m
        <5>1. <<m>> \in Seq(Msg) /\ Len(<<m>>) = 1 /\ <<m>>[1] = m
          OBVIOUS
        <5> QED
          BY <5>1
      <4>3. Len(t) = 1 /\ t[1] = m
        BY <3>2, <3>3, <4>1
      <4>4. \A i \in 1..1 : i = 1
        OBVIOUS
      <4>5. Len(t) = Len(o) /\ \A i \in 1..Len(t) : t[i] = o[i]
        BY <4>2, <4>3, <4>4
      <4>6. t = o
        BY <4>5, SeqEqual
      <4> QED
        BY <4>1, <4>2, <4>6
    <3>5. PICK i \in Seq(Msg) : i = Input(tail) /\ Len(i) = 1 /\ i[1] = m
      <4>1. Input(tail) = <<m>>
        BY <3>3, <3>4, InputOne
      <4>2. <<m>> \in Seq(Msg) /\ Len(<<m>>) = 1 /\ <<m>>[1] = m
        OBVIOUS
      <4> QED
        BY <4>1, <4>2
    <3>6. i # <<>> /\ \A j \in DOMAIN i : i[j].role = "tool"
      <4>1. DOMAIN i = 1..1
        BY <3>5
      <4>2. \A j \in 1..1 : j = 1
        OBVIOUS
      <4> QED
        BY <3>3, <3>5, <4>1, <4>2
    <3> QED
      BY <3>5, <3>6 DEF Appendable
  <2>2. ms[Len(ms)].role = "user"
    BY <1>0, <2>1 DEF Answerable, Msg, Message
  <2>3. c = StartCall(ms, lp, fd, f)
    BY <1>3 DEF Dispatch
  <2>4. /\ c.op = "start" /\ CallOn(c, lp) /\ c.loop.was = "restarted"
        /\ c.loop.heard = Input(SubSeq(ms, 1, LastUser(ms)))
    BY <1>0, <2>3, Starts
  <2>5. SubSeq(ms, 1, LastUser(ms)) = ms
    BY <1>0, <2>2, StartTells
  <2> HIDE DEF c
  <2>6. Sound(c.loop, ms, c.fedAfter)
    BY <2>4, <2>5 DEF Sound
  <2> QED
    BY <2>4, <2>6 DEF c
<1> QED
  BY <1>2, <1>3

(* A new loop is told everything, or everything up to the last reply.       *)
LEMMA Builds ==
  ASSUME disk \in [File -> 1..MaxVersion],
         NEW ms, Answerable(ms), NEW lp \in Loops, lp.was = "new", NEW f \in File \cup {NoFile},
         NEW c, c = IF Replayable(ms) THEN ReplayCall(ms, lp, f) ELSE StartCall(ms, lp, NoFed, f)
  PROVE  /\ c.op \in {"replay", "start"} /\ CallOn(c, lp) /\ c.loop.was = "started"
         /\ c.op = "replay" => /\ Replayable(ms)
                               /\ Sound(c.loop, SubSeq(ms, 1, LastReply(ms)), c.fed)
         /\ c.op = "start" => Sound(c.loop, ms, c.fedAfter)
<1>0. ms \in Seq(Msg) /\ ms # <<>> /\ NoFed \in Feds
  BY Injects DEF Answerable
<1>1. CASE Replayable(ms)
  <2>1. c = ReplayCall(ms, lp, f)
    BY <1>1
  <2> QED
    BY <1>0, <1>1, <2>1, Replays
<1>2. CASE ~Replayable(ms)
  <2>1. c = StartCall(ms, lp, NoFed, f)
    BY <1>2
  <2>2. /\ c.op = "start" /\ CallOn(c, lp) /\ c.loop.was = "started"
        /\ c.loop.heard = Input(SubSeq(ms, 1, LastUser(ms)))
        /\ Fits(c.fedAfter, c.loop.has)
    BY <1>0, <2>1, Starts
  <2>3. ms[Len(ms)].role = "user"
    <3>1. PICK L \in Nat : L = Len(ms) /\ L >= 1
      BY <1>0, EmptySeq
    <3>2. /\ LastReply(ms) \in 0..L
          /\ LastReply(ms) # 0 => ms[LastReply(ms)].role = "assistant"
          /\ \A i \in 1..L : i > LastReply(ms) => ms[i].role # "assistant"
      BY <1>0, <3>1, LastOnes
    <3>3. /\ ms[1].role = "user" /\ ms[L].role # "assistant" /\ Head(ms) = ms[1]
          /\ ms[L].role = "tool" => L >= 2 /\ ms[L - 1].role = "assistant"
      BY <1>0, <3>1 DEF Answerable
    <3>4. LastReply(ms) # 1 /\ LastReply(ms) # L
      BY <3>1, <3>2, <3>3
    <3>5. LastReply(ms) = 0
      BY <1>2, <3>1, <3>2, <3>3, <3>4 DEF Replayable
    <3>6. ms[L].role # "tool"
      <4>1. L >= 2 => L - 1 \in 1..L /\ L - 1 > 0
        BY <3>1
      <4> QED
        BY <3>2, <3>3, <3>5, <4>1
    <3>7. ms[L] \in Msg
      BY <1>0, <3>1
    <3> QED
      BY <3>1, <3>3, <3>6, <3>7 DEF Msg, Message
  <2>4. SubSeq(ms, 1, LastUser(ms)) = ms
    BY <1>0, <2>3, StartTells
  <2> QED
    BY <2>2, <2>4 DEF Sound
<1> QED
  BY <1>1, <1>2

(* A loop that is built holds the instance it is built for.                 *)
LEMMA NewLoops ==
  ASSUME NEW b \in {"small", "large"}, NEW i \in 1..2
  PROVE  /\ NewLoop(b, i) \in Loops /\ NewLoop(b, i).was = "new" /\ NewLoop(b, i).brain = b
         /\ NewLoop(b, i).gen = IF b = "small" THEN i ELSE 0
         /\ NewLoop(b, i).drafter = IF b = "small" THEN 0 ELSE i
         /\ NoLoop \in Loops
<1>1. <<>> \in Seq(Msg)
  BY EmptySeq
<1>2. NoLoop \in Loops
  BY <1>1 DEF NoLoop, Loops
<1> DEFINE g == IF b = "small" THEN i ELSE 0
           d == IF b = "small" THEN 0 ELSE i
<1>3. g \in 0..2 /\ d \in 0..2
  OBVIOUS
<1>4. NewLoop(b, i) = [NoLoop EXCEPT !.brain = b, !.gen = g, !.drafter = d]
  BY DEF NewLoop
<1> HIDE DEF g, d
<1>5. NewLoop(b, i) = [brain |-> b, gen |-> g, drafter |-> d, was |-> "new", heard |-> <<>>, has |-> {}]
  BY <1>4 DEF NoLoop
<1>6. NewLoop(b, i) \in Loops
  BY <1>1, <1>3, <1>5 DEF Loops
<1> QED
  BY <1>2, <1>5, <1>6 DEF g, d

----------------------------------------------------------------------------
(* The inductive invariant *)

(* A loop holds no other instance of the small model than the loaded one.   *)
Holds(lp, instance) ==
  /\ {lp.gen, lp.drafter} \subseteq {0, instance}
  /\ IF lp.brain = "small" THEN lp.gen # 0 ELSE lp.gen = 0

(* What is awaited on a loop, by a turn on the messages ms, makes it one    *)
(* that has been told what prefixSig will say.                              *)
InCall(lp, c, sig, fd, ms) ==
  /\ c.op \in {"replay", "attach", "append", "start"}
  /\ lp.brain # "none" /\ c.loop.brain = lp.brain
  /\ c.op = "replay" =>
       /\ Replayable(ms) /\ c.loop.was = "started" /\ fd = c.fed
       /\ Sound(c.loop, SubSeq(ms, 1, LastReply(ms)), c.fed)
  /\ c.op = "attach" =>
       /\ Upto(ms, Len(sig)) /\ c.loop.was # "new" /\ fd = c.fed
       /\ Sound(c.loop, SubSeq(ms, 1, Len(sig)), c.fed)
  /\ c.op \in {"append", "start"} => c.loop.was # "new" /\ Sound(c.loop, ms, c.fedAfter)
  /\ c.op = "append" => lp.was = c.loop.was

Types ==
  /\ disk \in [File -> 1..MaxVersion]
  /\ loop \in Loops /\ (loop.brain = "none" => loop = NoLoop)
  /\ prefixSig \in Seq(Msg) /\ fed \in Feds
  /\ active \in File \cup {NoFile} /\ e2b \in 0..2
  /\ pendingReset \in BOOLEAN /\ asked \in BOOLEAN
  /\ messages \in Seq(Msg) /\ retrying \in BOOLEAN
  /\ call.op \in {"none", "caught", "replay", "attach", "append", "start"}
  /\ Awaits(call) /\ call.loop \in Loops /\ call.fed \in Feds /\ call.fedAfter \in Feds

Live == Holds(loop, e2b) /\ Holds(call.loop, e2b)

(* What a loop is taken to have been told ends with a reply.                *)
Replied == prefixSig # <<>> => prefixSig[Len(prefixSig)].role = "assistant"

(* Where the next message is a call's result, or may be, the loop has been  *)
(* told up to that call, or was told a compacted history, which none        *)
(* extends.                                                                 *)
Answers ==
  loop # NoLoop /\ history # <<>> =>
    \/ history[Len(history)] \in {Says, User}
    \/ prefixSig # <<>> /\ prefixSig[1] = Brief
    \/ history[Len(history)].role = "assistant" /\ Len(prefixSig) >= Len(history)
    \/ history[Len(history)].role = "tool" /\ Len(prefixSig) >= Len(history) - 1

(* Between turns.                                                           *)
Idle ==
  ~Busy =>
    /\ call = NoCall /\ ~retrying /\ Answers
    /\ Sound(loop, prefixSig, fed) /\ (loop # NoLoop => loop.was # "new")
    /\ ~pendingReset /\ (asked => loop = NoLoop /\ fed = NoFed)

(* During a turn.                                                           *)
Serving ==
  Busy =>
    /\ history # <<>> /\ history[Len(history)].role # "assistant"
    /\ messages \in {history, Compacted(history)}
    /\ asked => pendingReset
    /\ \/ call.op = "caught" /\ loop = NoLoop
       \/ InCall(loop, call, prefixSig, fed, messages)

Inv == Historic /\ Types /\ Live /\ Replied /\ Idle /\ Serving

----------------------------------------------------------------------------
(* The invariant is kept *)

(* Initially nothing is said, and there is no loop.                         *)
LEMMA InitInv == Init => Inv
<1> SUFFICES ASSUME Init PROVE Inv
  OBVIOUS
<1>0. /\ history = <<>> /\ disk = [f \in File |-> 1]
      /\ loop = NoLoop /\ prefixSig = <<>> /\ fed = NoFed /\ active = NoFile /\ e2b = 0
      /\ messages = <<>> /\ retrying = FALSE /\ call = NoCall
      /\ pendingReset = FALSE /\ asked = FALSE
  BY DEF Init
<1>1. <<>> \in Seq(Msg) /\ Len(<<>>) = 0
  BY EmptySeq
<1>2. NoLoop \in Loops /\ Holds(NoLoop, 0)
  BY <1>1 DEF NoLoop, Loops, Holds
<1>3. disk \in [File -> 1..MaxVersion] /\ NoFed \in Feds
  BY <1>0, EngineAssumption DEF NoFed, Feds
<1>4. NoCall.op = "none" /\ NoCall.loop = NoLoop /\ NoCall.fed = NoFed /\ NoCall.fedAfter = NoFed
  BY DEF NoCall, Await
<1>5. Historic
  BY <1>0, <1>1, EngineAssumption DEF Historic
<1>6. Types
  <2>1. /\ disk \in [File -> 1..MaxVersion] /\ loop \in Loops /\ loop = NoLoop /\ fed \in Feds
        /\ active \in File \cup {NoFile} /\ e2b \in 0..2
    BY <1>0, <1>2, <1>3
  <2>2. prefixSig \in Seq(Msg) /\ messages \in Seq(Msg)
    BY <1>0, <1>1
  <2>3. /\ call.op = "none" /\ call.loop \in Loops /\ call.fed \in Feds /\ call.fedAfter \in Feds
        /\ Awaits(call)
    BY <1>0, <1>2, <1>3, <1>4 DEF NoCall, Awaits
  <2>4. pendingReset \in BOOLEAN /\ asked \in BOOLEAN /\ retrying \in BOOLEAN
    BY <1>0
  <2> QED
    BY <2>1, <2>2, <2>3, <2>4 DEF Types
<1>7. Live /\ Replied
  BY <1>0, <1>2, <1>4 DEF Live, Replied
<1>8. Idle
  <2>1. Sound(NoLoop, <<>>, NoFed)
    BY DEF Sound, NoLoop, Telling
  <2> QED
    BY <1>0, <2>1 DEF Idle, Answers
<1>9. ~Busy
  BY <1>0, <1>4 DEF Busy
<1> QED
  BY <1>5, <1>6, <1>7, <1>8, <1>9 DEF Inv, Serving

(* One more message in the history.                                         *)
LEMMA MoreHistory ==
  ASSUME Historic, NEW m \in Msg, history' = Append(history, m),
         Len(history) < MaxLen, m.role # "assistant" => Len(history) < MaxLen - 1,
         history = <<>> => m = User,
         m.role = "tool" => history # <<>> /\ history[Len(history)].role = "assistant"
  PROVE  /\ Historic' /\ history' # <<>> /\ Len(history') = Len(history) + 1
         /\ history'[Len(history')] = m /\ Len(history) \in Nat
<1> DEFINE L == Len(history)
<1>0. L \in Nat /\ history \in Seq(Msg) /\ MaxLen \in Nat
  BY EngineAssumption DEF Historic
<1>1. /\ history' \in Seq(Msg) /\ history' # <<>> /\ Len(history') = L + 1
      /\ \A i \in 1..L : history'[i] = history[i]
      /\ history'[L + 1] = m
  BY <1>0, AppendProperties
<1>2. history'[1] = User
  <2>1. CASE history = <<>>
    BY <1>1, <2>1
  <2>2. CASE history # <<>>
    <3>1. 1 \in 1..L
      BY <1>0, <2>2, EmptySeq
    <3> QED
      BY <1>1, <2>2, <3>1 DEF Historic
  <2> QED
    BY <2>1, <2>2
<1>3. ASSUME NEW i \in 2..(L + 1), history'[i].role = "tool" PROVE history'[i - 1].role = "assistant"
  <2>1. CASE i = L + 1
    <3>1. m.role = "tool" /\ history # <<>> /\ history[L].role = "assistant"
      BY <1>1, <1>3, <2>1
    <3>2. i - 1 = L /\ L \in 1..L
      BY <1>0, <2>1, <3>1, EmptySeq
    <3> QED
      BY <1>1, <3>1, <3>2
  <2>2. CASE i # L + 1
    <3>1. i \in 2..L /\ i \in 1..L /\ i - 1 \in 1..L
      BY <1>0, <2>2
    <3> QED
      BY <1>1, <1>3, <3>1 DEF Historic
  <2> QED
    BY <2>1, <2>2
<1>4. Len(history') <= MaxLen /\ (m.role # "assistant" => Len(history') < MaxLen)
  BY <1>0, <1>1
<1>5. Historic'
  BY <1>1, <1>2, <1>3, <1>4 DEF Historic
<1> QED
  BY <1>0, <1>1, <1>5

(* What the user or the harness does between turns.                         *)
LEMMA ClientStep ==
  ASSUME Inv, ~Busy, Historic', UNCHANGED <<engine, turn, pendingReset, asked>>,
         disk' \in [File -> 1..MaxVersion], Answers'
  PROVE  Inv'
<1>1. UNCHANGED <<loop, prefixSig, fed, active, e2b, messages, retrying, call, pendingReset, asked>>
  BY DEF engine, turn
<1>2. Types' /\ Live' /\ Replied' /\ ~Busy'
  BY <1>1 DEF Inv, Types, Live, Replied, Busy
<1>3. Idle'
  BY <1>1 DEF Inv, Idle
<1> QED
  BY <1>2, <1>3 DEF Inv, Serving

(* The user says something.                                                 *)
LEMMA SayStep == ASSUME Inv, Say PROVE Inv'
<1>0. Historic /\ User \in Msg /\ User.role = "user"
  <2>1. Historic
    BY DEF Inv
  <2>2. User \in Msg
    BY <2>1, InputOfSigs DEF Historic
  <2> QED
    BY <2>1, <2>2 DEF User
<1>1. /\ ~Busy /\ Len(history) < MaxLen - 1 /\ history' = Append(history, User)
      /\ UNCHANGED <<disk, engine, turn, pendingReset, asked>>
  BY DEF Say
<1>2. Len(history) < MaxLen
  BY <1>0, <1>1, EngineAssumption DEF Historic
<1>3. /\ Historic' /\ history'[Len(history')] = User
  BY <1>0, <1>1, <1>2, MoreHistory
<1>4. Answers'
  BY <1>3 DEF Answers
<1>5. disk' \in [File -> 1..MaxVersion]
  BY <1>1 DEF Inv, Types
<1> QED
  BY <1>1, <1>3, <1>4, <1>5, ClientStep

(* A tool returns.                                                          *)
LEMMA ExecuteStep == ASSUME Inv, Execute PROVE Inv'
<1> DEFINE L == Len(history)
           c == history[L]
           m == Result(c, disk'[c.file])
<1>0. Historic /\ disk \in [File -> 1..MaxVersion]
  BY DEF Inv, Types
<1>1. /\ ~Busy /\ history # <<>> /\ L < MaxLen - 1
      /\ c.role = "assistant" /\ c.file # NoFile
      /\ c.does = "edit" => disk[c.file] < MaxVersion
      /\ disk' = [disk EXCEPT ![c.file] = IF c.does = "edit" THEN @ + 1 ELSE @]
      /\ history' = Append(history, m)
      /\ UNCHANGED <<engine, turn, pendingReset, asked>>
  BY DEF Execute, Last
<1>2. c \in Msg
  <2>1. PICK k \in Nat : k = L /\ k >= 1
    BY <1>0, <1>1, EmptySeq DEF Historic
  <2>2. history[k] \in Msg
    BY <1>0, <2>1 DEF Historic
  <2> QED
    BY <2>1, <2>2
<1>3. c.file \in File
  BY <1>1, <1>2 DEF Msg, Message
<1>4. disk' \in [File -> 1..MaxVersion]
  <2>1. \A v \in 1..MaxVersion : v < MaxVersion => v + 1 \in 1..MaxVersion
    BY EngineAssumption
  <2>2. disk[c.file] \in 1..MaxVersion
    BY <1>0, <1>3
  <2>3. (IF c.does = "edit" THEN disk[c.file] + 1 ELSE disk[c.file]) \in 1..MaxVersion
    BY <1>1, <2>1, <2>2
  <2> QED
    BY <1>0, <1>1, <2>3
<1> HIDE DEF c
<1>5. m \in Msg /\ m.role = "tool"
  <2>1. disk'[c.file] \in 0..MaxVersion /\ disk'[c.file] # 0
    BY <1>3, <1>4, EngineAssumption
  <2> DEFINE v == disk'[c.file]
  <2>2. v \in 0..MaxVersion /\ v # 0
    BY <2>1
  <2> HIDE DEF v
  <2>3. m = [c EXCEPT !.role = "tool", !.version = v]
    BY DEF Result, v
  <2> HIDE DEF m
  <2>4. m.role = "tool" /\ m.file = c.file /\ m.version = v /\ m \in Message
    BY <1>2, <2>2, <2>3 DEF Msg, Message
  <2> QED
    BY <1>3, <2>2, <2>4 DEF Msg
<1> HIDE DEF m
<1>6. Len(history) < MaxLen
  BY <1>0, <1>1, EngineAssumption DEF Historic
<1>7. history[L].role = "assistant" /\ c = history[L]
  BY <1>1 DEF c
<1>8. /\ Historic' /\ Len(history') = L + 1 /\ history'[Len(history')] = m /\ L \in Nat
  BY <1>0, <1>1, <1>5, <1>6, <1>7, MoreHistory
<1>9. Answers'
  <2>1. c # Says /\ c # User /\ c.role # "tool"
    BY <1>1 DEF Says, User
  <2>2. loop # NoLoop =>
          \/ prefixSig # <<>> /\ prefixSig[1] = Brief
          \/ Len(prefixSig) >= L
    BY <1>1, <1>7, <2>1 DEF Inv, Idle, Answers
  <2>3. Len(prefixSig) \in Nat /\ loop' = loop /\ prefixSig' = prefixSig
    BY <1>1 DEF Inv, Types, engine
  <2>4. Len(history') - 1 = L
    BY <1>8
  <2> QED
    BY <1>5, <1>8, <2>2, <2>3, <2>4 DEF Answers
<1> QED
  BY <1>1, <1>4, <1>8, <1>9, ClientStep

(* The harness goes back to a reply without a call, or to the beginning.    *)
LEMMA GoBackStep == ASSUME Inv, NEW n \in 0..MaxLen, GoBack(n) PROVE Inv'
<1>0. Historic /\ n \in Nat
  BY EngineAssumption DEF Inv
<1>1. /\ ~Busy /\ n < Len(history) /\ (n > 0 => history[n] = Says) /\ history' = SubSeq(history, 1, n)
      /\ UNCHANGED <<disk, engine, turn, pendingReset, asked>>
  BY DEF GoBack
<1>2. history \in Seq(Msg) /\ Len(history) \in Nat /\ n \in 0..Len(history) /\ MaxLen \in Nat
  BY <1>0, <1>1, EngineAssumption DEF Historic
<1>3. history' \in Seq(Msg) /\ Len(history') = n /\ \A i \in 1..n : history'[i] = history[i]
  BY <1>1, <1>2, Splits
<1>4. history' # <<>> => n >= 1 /\ history'[n] = Says /\ history'[1] = history[1] /\ history # <<>>
  <2>1. history' # <<>> => n >= 1
    BY <1>0, <1>3, EmptySeq
  <2>2. n >= 1 => n \in 1..n /\ 1 \in 1..n /\ n > 0
    BY <1>0
  <2>3. n >= 1 => history # <<>>
    BY <1>0, <1>1, <1>2, EmptySeq
  <2> QED
    BY <1>1, <1>3, <2>1, <2>2, <2>3
<1>5. Says.role = "assistant"
  BY DEF Says, User
<1>6. Historic'
  <2>1. Len(history') <= MaxLen
    BY <1>0, <1>1, <1>2, <1>3 DEF Historic
  <2>2. history' # <<>> => history'[1] = User
    BY <1>0, <1>4 DEF Historic
  <2>3. ASSUME NEW i \in 2..n, history'[i].role = "tool" PROVE history'[i - 1].role = "assistant"
    <3>1. i \in 1..n /\ i - 1 \in 1..n /\ i \in 2..Len(history)
      BY <1>0, <1>2
    <3> QED
      BY <1>0, <1>3, <2>3, <3>1 DEF Historic
  <2> QED
    BY <1>3, <1>4, <1>5, <2>1, <2>2, <2>3 DEF Historic
<1>7. Answers'
  BY <1>3, <1>4 DEF Answers
<1>8. disk' \in [File -> 1..MaxVersion]
  BY <1>1 DEF Inv, Types
<1> QED
  BY <1>1, <1>6, <1>7, <1>8, ClientStep

(* Somebody else edits a file.                                              *)
LEMMA EditStep == ASSUME Inv, NEW f \in File, EditOutside(f) PROVE Inv'
<1>1. /\ disk[f] < MaxVersion /\ disk' = [disk EXCEPT ![f] = disk[f] + 1]
      /\ UNCHANGED <<history, loop, prefixSig, fed, active, e2b, messages, retrying, call, pendingReset, asked>>
  BY DEF EditOutside, engine, turn
<1>2. disk' \in [File -> 1..MaxVersion]
  <2>1. disk \in [File -> 1..MaxVersion] /\ disk[f] \in 1..MaxVersion
    BY DEF Inv, Types
  <2>2. disk[f] + 1 \in 1..MaxVersion
    BY <1>1, <2>1, EngineAssumption
  <2> QED
    BY <1>1, <2>1, <2>2
<1>3. Types' /\ Live' /\ Replied'
  BY <1>1, <1>2 DEF Inv, Types, Live, Replied
<1>4. Historic' /\ Idle'
  BY <1>1 DEF Inv, Historic, Idle, Answers, Busy
<1>5. Serving'
  BY <1>1 DEF Inv, Serving, Busy
<1> QED
  BY <1>3, <1>4, <1>5 DEF Inv

(* A reset drops the loop, or waits for the end of the turn.                *)
LEMMA ResetStep == ASSUME Inv, Reset PROVE Inv'
<1>1. asked' = TRUE /\ UNCHANGED <<history, disk, messages, retrying, call, active, e2b>>
  BY DEF Reset, client, turn, engine
<1>2. Historic'
  BY <1>1 DEF Inv, Historic
<1>3. CASE Busy
  <2>1. pendingReset' = TRUE /\ UNCHANGED <<loop, prefixSig, fed>>
    BY <1>3 DEF Reset, engine
  <2>2. Types' /\ Live' /\ Replied' /\ Busy'
    BY <1>1, <1>3, <2>1 DEF Inv, Types, Live, Replied, Busy
  <2>3. Serving'
    BY <1>1, <1>3, <2>1 DEF Inv, Serving, Busy
  <2> QED
    BY <1>2, <2>2, <2>3 DEF Inv, Idle
<1>4. CASE ~Busy
  <2>1. loop' = NoLoop /\ prefixSig' = <<>> /\ fed' = NoFed /\ pendingReset' = pendingReset
    BY <1>4 DEF Reset
  <2>2. <<>> \in Seq(Msg) /\ NoFed \in Feds
    BY EmptySeq, EngineAssumption DEF NoFed, Feds
  <2>3. NoLoop \in Loops /\ Holds(NoLoop, e2b) /\ Sound(NoLoop, <<>>, NoFed) /\ ~Busy'
    <3>1. 1 \in 1..2
      OBVIOUS
    <3>2. NoLoop \in Loops
      BY <3>1, NewLoops
    <3> QED
      BY <1>1, <1>4, <3>2 DEF Sound, NoLoop, Telling, Holds, Busy
  <2>4. Types'
    <3>1. prefixSig' \in Seq(Msg)
      BY <2>1, <2>2
    <3> QED
      BY <1>1, <2>1, <2>2, <2>3, <3>1 DEF Inv, Types
  <2>5. Live' /\ Replied'
    BY <1>1, <2>1, <2>3 DEF Inv, Live, Replied
  <2>6. Idle'
    BY <1>1, <1>4, <2>1, <2>3 DEF Inv, Idle, Answers
  <2> QED
    BY <1>2, <2>3, <2>4, <2>5, <2>6 DEF Inv, Serving
<1> QED
  BY <1>3, <1>4

(* The idle timer frees the small model.                                    *)
LEMMA IdleStep == ASSUME Inv, IdleUnload PROVE Inv'
<1>1. /\ ~Busy /\ loop.brain # "small" /\ loop' = [loop EXCEPT !.drafter = 0] /\ e2b' = 0
      /\ UNCHANGED <<history, disk, prefixSig, fed, active, messages, retrying, call, pendingReset, asked>>
  BY DEF IdleUnload, client, turn
<1>2. loop \in Loops /\ call = NoCall
  BY <1>1 DEF Inv, Types, Idle
<1>3. /\ loop' \in Loops /\ loop'.brain = loop.brain /\ loop'.gen = loop.gen /\ loop'.drafter = 0
      /\ loop'.was = loop.was /\ loop'.heard = loop.heard /\ loop'.has = loop.has
      /\ loop = NoLoop => loop' = NoLoop
  <2>1. /\ loop' \in Loops /\ loop'.brain = loop.brain /\ loop'.gen = loop.gen /\ loop'.drafter = 0
        /\ loop'.was = loop.was /\ loop'.heard = loop.heard /\ loop'.has = loop.has
    BY <1>1, <1>2 DEF Loops
  <2>2. loop = NoLoop => loop' = NoLoop
    BY <1>1 DEF NoLoop
  <2> QED
    BY <2>1, <2>2
<1>4. Historic'
  BY <1>1 DEF Inv, Historic
<1>5. Types' /\ Replied'
  BY <1>1, <1>3 DEF Inv, Types, Replied
<1>6. Live'
  <2>1. Holds(loop', 0)
    BY <1>1, <1>3 DEF Inv, Live, Holds
  <2>2. Holds(NoCall.loop, 0)
    BY DEF NoCall, Await, NoLoop, Holds
  <2> QED
    BY <1>1, <1>2, <2>1, <2>2 DEF Live
<1>7. Idle'
  <2>1. Sound(loop', prefixSig, fed)
    BY <1>1, <1>3 DEF Inv, Idle, Sound
  <2>2. Answers'
    BY <1>1, <1>3 DEF Inv, Idle, Answers
  <2> QED
    BY <1>1, <1>3, <2>1, <2>2 DEF Inv, Idle
<1>8. ~Busy'
  BY <1>1 DEF Busy
<1> QED
  BY <1>4, <1>5, <1>6, <1>7, <1>8 DEF Inv, Serving

(* What a turn must see to while it awaits a call.                          *)
LEMMA TurnStep ==
  ASSUME Inv, history' = history, history # <<>>, history[Len(history)].role # "assistant",
         Types', Live', Replied', messages' \in {history, Compacted(history)},
         asked' => pendingReset',
         \/ call'.op = "caught" /\ loop' = NoLoop
         \/ InCall(loop', call', prefixSig', fed', messages')
  PROVE  Inv'
<1>1. Historic'
  BY DEF Inv, Historic
<1>2. Busy'
  BY DEF Busy, InCall
<1>3. Serving'
  BY DEF Serving
<1> QED
  BY <1>1, <1>2, <1>3 DEF Inv, Idle

(* A loop that is built, and its first call.                                *)
LEMMA Built ==
  ASSUME Inv, NEW ms \in {history, Compacted(history)},
         history # <<>>, history[Len(history)].role # "assistant", BuildLoop(ms)
  PROVE  /\ loop' \in Loops /\ loop'.brain # "none" /\ prefixSig' = <<>> /\ prefixSig' \in Seq(Msg)
         /\ fed' \in Feds /\ active' \in File \cup {NoFile} /\ e2b' \in 0..2
         /\ messages' = ms /\ ms \in Seq(Msg)
         /\ call'.op \in {"replay", "start"}
         /\ Awaits(call') /\ call'.loop \in Loops /\ call'.fed \in Feds /\ call'.fedAfter \in Feds
         /\ Live' /\ Replied' /\ InCall(loop', call', prefixSig', fed', messages')
<1>0. /\ Answerable(ms) /\ disk \in [File -> 1..MaxVersion] /\ e2b \in 0..2
      /\ active \in File \cup {NoFile}
  BY Compacts DEF Inv, Types
<1>1. ms \in Seq(Msg)
  BY <1>0 DEF Answerable
<1>2. Loaded \in 1..2
  BY <1>0 DEF Loaded
<1>3. PICK b \in {"large"} \cup (IF DualBrain /\ LastReply(ms) = 0 THEN {"small"} ELSE {}) :
        \E f \in ActiveFiles(ms) :
          /\ loop' = NewLoop(b, Loaded) /\ prefixSig' = <<>>
          /\ active' = f /\ e2b' = Loaded
          /\ messages' = ms
          /\ call' = IF Replayable(ms) THEN ReplayCall(ms, loop', f)
                     ELSE StartCall(ms, loop', NoFed, f)
          /\ fed' = call'.fed
  BY DEF BuildLoop
<1>4. PICK f \in ActiveFiles(ms) :
        /\ loop' = NewLoop(b, Loaded) /\ prefixSig' = <<>>
        /\ active' = f /\ e2b' = Loaded
        /\ messages' = ms
        /\ call' = IF Replayable(ms) THEN ReplayCall(ms, loop', f)
                   ELSE StartCall(ms, loop', NoFed, f)
        /\ fed' = call'.fed
  BY <1>3
<1>5. b \in {"small", "large"} /\ f \in File \cup {NoFile}
  BY <1>0, <1>1, ActiveIsFile
<1>6. /\ loop' \in Loops /\ loop'.was = "new" /\ loop'.brain = b
      /\ loop'.gen = IF b = "small" THEN Loaded ELSE 0
      /\ loop'.drafter = IF b = "small" THEN 0 ELSE Loaded
  BY <1>2, <1>4, <1>5, NewLoops
<1>7. /\ call'.op \in {"replay", "start"} /\ CallOn(call', loop') /\ call'.loop.was = "started"
      /\ call'.op = "replay" => /\ Replayable(ms)
                                /\ Sound(call'.loop, SubSeq(ms, 1, LastReply(ms)), call'.fed)
      /\ call'.op = "start" => Sound(call'.loop, ms, call'.fedAfter)
  <2>1. PICK lp \in Loops : lp = loop' /\ lp.was = "new"
    BY <1>6
  <2>2. PICK c : c = call'
    OBVIOUS
  <2>3. c = IF Replayable(ms) THEN ReplayCall(ms, lp, f) ELSE StartCall(ms, lp, NoFed, f)
    BY <1>4, <2>1, <2>2
  <2>4. /\ c.op \in {"replay", "start"} /\ CallOn(c, lp) /\ c.loop.was = "started"
        /\ c.op = "replay" => /\ Replayable(ms)
                              /\ Sound(c.loop, SubSeq(ms, 1, LastReply(ms)), c.fed)
        /\ c.op = "start" => Sound(c.loop, ms, c.fedAfter)
    BY <1>0, <1>5, <2>1, <2>3, Builds
  <2> QED
    BY <2>1, <2>2, <2>4
<1>8. Holds(loop', Loaded)
  BY <1>2, <1>5, <1>6 DEF Holds
<1>9. Live'
  BY <1>4, <1>7, <1>8 DEF Live, Holds, CallOn, SameModels
<1>10. <<>> \in Seq(Msg)
  BY EmptySeq
<1>11. InCall(loop', call', prefixSig', fed', messages')
  BY <1>4, <1>5, <1>6, <1>7 DEF InCall, CallOn, SameModels
<1>12. /\ loop'.brain # "none" /\ e2b' \in 0..2 /\ fed' \in Feds
       /\ Awaits(call') /\ call'.loop \in Loops /\ call'.fed \in Feds /\ call'.fedAfter \in Feds
  BY <1>2, <1>4, <1>5, <1>6, <1>7 DEF CallOn
<1>13. prefixSig' \in Seq(Msg) /\ Replied'
  BY <1>4, <1>10 DEF Replied
<1> QED
  BY <1>1, <1>4, <1>5, <1>6, <1>7, <1>9, <1>11, <1>12, <1>13

(* A request, and the history behind it.                                    *)
LEMMA Requests ==
  ASSUME Inv, Requested
  PROVE  /\ ~Busy /\ history # <<>> /\ history[Len(history)].role # "assistant"
         /\ Answerable(history) /\ ~pendingReset /\ ~retrying
<1>1. ~Busy /\ history # <<>> /\ history[Len(history)].role # "assistant"
  BY DEF Requested, Last
<1>2. Answerable(history)
  BY <1>1, Compacts DEF Inv
<1> QED
  BY <1>1, <1>2 DEF Inv, Idle

(* A turn that begins with a new loop.                                      *)
LEMMA RestartStep == ASSUME Inv, TurnRestarts PROVE Inv'
<1>1. /\ Requested /\ asked' = FALSE /\ UNCHANGED <<history, disk, pendingReset, retrying>>
      /\ \E ms \in {history, Compacted(history)} : BuildLoop(ms)
  BY DEF TurnRestarts, client
<1>2. PICK ms \in {history, Compacted(history)} : BuildLoop(ms)
  BY <1>1
<1>3. /\ loop' \in Loops /\ loop'.brain # "none" /\ prefixSig' \in Seq(Msg)
      /\ fed' \in Feds /\ active' \in File \cup {NoFile} /\ e2b' \in 0..2
      /\ messages' = ms /\ ms \in Seq(Msg)
      /\ call'.op \in {"replay", "start"}
      /\ Awaits(call') /\ call'.loop \in Loops /\ call'.fed \in Feds /\ call'.fedAfter \in Feds
      /\ Live' /\ Replied' /\ InCall(loop', call', prefixSig', fed', messages')
  BY <1>1, <1>2, Requests, Built
<1>4. Types'
  <2>1. /\ disk' \in [File -> 1..MaxVersion] /\ pendingReset' \in BOOLEAN /\ retrying' \in BOOLEAN
    BY <1>1 DEF Inv, Types
  <2>2. asked' \in BOOLEAN
    BY <1>1
  <2> QED
    BY <1>3, <2>1, <2>2 DEF Types
<1>5. asked' => pendingReset'
  BY <1>1
<1> QED
  BY <1>1, <1>3, <1>4, <1>5, Requests, TurnStep

(* A retry.                                                                 *)
LEMMA RetryStep == ASSUME Inv, Retry PROVE Inv'
<1>1. /\ Busy /\ retrying' = TRUE /\ BuildLoop(Compacted(history))
      /\ UNCHANGED <<history, disk, pendingReset, asked>>
  BY DEF Retry, client, Busy
<1>2. /\ history # <<>> /\ history[Len(history)].role # "assistant" /\ (asked => pendingReset)
  BY <1>1 DEF Inv, Serving
<1>3. /\ loop' \in Loops /\ loop'.brain # "none" /\ prefixSig' \in Seq(Msg)
      /\ fed' \in Feds /\ active' \in File \cup {NoFile} /\ e2b' \in 0..2
      /\ messages' = Compacted(history) /\ messages' \in Seq(Msg)
      /\ call'.op \in {"replay", "start"}
      /\ Awaits(call') /\ call'.loop \in Loops /\ call'.fed \in Feds /\ call'.fedAfter \in Feds
      /\ Live' /\ Replied' /\ InCall(loop', call', prefixSig', fed', messages')
  BY <1>1, <1>2, Built
<1>4. Types'
  <2>1. /\ disk' \in [File -> 1..MaxVersion] /\ pendingReset' \in BOOLEAN /\ asked' \in BOOLEAN
    BY <1>1 DEF Inv, Types
  <2>2. retrying' \in BOOLEAN
    BY <1>1
  <2> QED
    BY <1>3, <2>1, <2>2 DEF Types
<1>5. asked' => pendingReset'
  BY <1>1, <1>2
<1> QED
  BY <1>1, <1>2, <1>3, <1>4, <1>5, TurnStep

(* A request that extends what the loop was told: what is new is behind     *)
(* that, and a result that is last is all of it.                            *)
LEMMA Extended ==
  ASSUME Inv, Requested, loop # NoLoop, Extends(history)
  PROVE  /\ Upto(history, Len(prefixSig))
         /\ Sound(loop, SubSeq(history, 1, Len(prefixSig)), fed)
<1>0. /\ ~Busy /\ history \in Seq(Msg) /\ history # <<>> /\ history[1] = User
      /\ history[Len(history)].role # "assistant" /\ prefixSig \in Seq(Msg)
      /\ Sound(loop, prefixSig, fed)
  BY Requests DEF Inv, Idle, Types, Historic
<1>1. PICK L \in Nat : L = Len(history) /\ L >= 1
  BY <1>0, EmptySeq
<1>2. PICK n \in Nat : n = Len(prefixSig)
  BY <1>0
<1>3. n <= L /\ Sigs(SubSeq(history, 1, n)) = prefixSig
  BY <1>1, <1>2 DEF Extends
<1>4. PICK s \in Seq(Msg) : /\ s = SubSeq(history, 1, n) /\ Len(s) = n
                            /\ \A i \in 1..n : s[i] = history[i]
  <2>1. n \in 0..Len(history)
    BY <1>1, <1>2, <1>3
  <2> QED
    BY <1>0, <2>1, Splits
<1>5. /\ Input(prefixSig) = Input(s)
      /\ \A i \in 1..n : prefixSig[i] = Sig(s[i]) /\ prefixSig[i].role = s[i].role
  BY <1>3, <1>4, InputOfSigs
<1>6. n # L
  <2> SUFFICES ASSUME n = L PROVE FALSE
    OBVIOUS
  <2>1. prefixSig[n].role = "assistant"
    <3>1. prefixSig # <<>>
      BY <1>1, <1>2, EmptySeq
    <3> QED
      BY <1>2, <3>1 DEF Inv, Replied
  <2>2. n \in 1..n
    BY <1>1
  <2>3. prefixSig[n].role = history[n].role
    BY <1>4, <1>5, <2>2
  <2> QED
    BY <1>0, <1>1, <2>1, <2>3
<1>7. history[L].role = "tool" => n >= L - 1
  <2> SUFFICES ASSUME history[L].role = "tool" PROVE n >= L - 1
    OBVIOUS
  <2>1. ~(prefixSig # <<>> /\ prefixSig[1] = Brief)
    <3> SUFFICES ASSUME prefixSig # <<>> PROVE prefixSig[1] # Brief
      OBVIOUS
    <3>1. 1 \in 1..n
      BY <1>0, <1>2, EmptySeq
    <3>2. prefixSig[1] = Sig(User)
      BY <1>0, <1>4, <1>5, <3>1
    <3> QED
      BY <3>2 DEF Sig, User, Brief
  <2>2. history[L] # Says /\ history[L] # User
    BY DEF Says, User
  <2>3. Answers
    BY <1>0 DEF Inv, Idle
  <2> QED
    BY <1>0, <1>1, <1>2, <2>1, <2>2, <2>3 DEF Answers
<1>8. Upto(history, n)
  BY <1>1, <1>2, <1>3, <1>6, <1>7 DEF Upto
<1>9. Sound(loop, s, fed)
  BY <1>0, <1>5 DEF Sound
<1> QED
  BY <1>2, <1>4, <1>8, <1>9

(* A call the dispatch makes.                                               *)
LEMMA Dispatched ==
  ASSUME disk \in [File -> 1..MaxVersion], NEW instance,
         NEW ms, Answerable(ms), NEW n, Upto(ms, n),
         NEW lp \in Loops, lp.was # "new", lp.brain # "none", Holds(lp, instance),
         NEW fd \in Feds, Sound(lp, SubSeq(ms, 1, n), fd),
         NEW f \in File \cup {NoFile}, NEW c, c = Dispatch(ms, n, lp, fd, f), NEW sig, NEW after
  PROVE  /\ c.op \in {"append", "start"}
         /\ Awaits(c) /\ c.loop \in Loops /\ c.fed \in Feds /\ c.fedAfter \in Feds
         /\ Holds(c.loop, instance) /\ InCall(lp, c, sig, after, ms)
<1>1. /\ c.op \in {"append", "start"} /\ CallOn(c, lp) /\ c.loop.was # "new"
      /\ c.op = "append" => c.loop.was = lp.was
      /\ Sound(c.loop, ms, c.fedAfter)
  BY Dispatches
<1>2. Holds(c.loop, instance)
  BY <1>1 DEF CallOn, SameModels, Holds
<1>3. InCall(lp, c, sig, after, ms)
  BY <1>1 DEF InCall, CallOn, SameModels
<1> QED
  BY <1>1, <1>2, <1>3 DEF CallOn

(* A turn that goes on with the loop.                                       *)
LEMMA ContinueStep == ASSUME Inv, TurnContinues PROVE Inv'
<1> DEFINE n == Len(prefixSig)
<1>1. /\ Requested /\ loop # NoLoop /\ Extends(history)
      /\ messages' = history /\ asked' = FALSE
      /\ fed' = call'.fed
      /\ UNCHANGED <<history, disk, loop, prefixSig, pendingReset, retrying>>
  BY DEF TurnContinues, client
<1>2. PICK f \in ActiveFiles(history) :
        /\ active' = f
        /\ IF loop.brain = "large" /\ loop.drafter = 0
           THEN call' = Await("attach", [loop EXCEPT !.drafter = Loaded], fed, fed) /\ e2b' = Loaded
           ELSE call' = Dispatch(history, n, loop, fed, f) /\ UNCHANGED e2b
  BY DEF TurnContinues
<1>3. /\ ~Busy /\ history # <<>> /\ history[Len(history)].role # "assistant"
      /\ Answerable(history) /\ history \in Seq(Msg)
      /\ Upto(history, n) /\ Sound(loop, SubSeq(history, 1, n), fed)
  BY <1>1, Requests, Extended DEF Answerable
<1>4. /\ loop \in Loops /\ loop.was # "new" /\ loop.brain # "none" /\ Holds(loop, e2b)
      /\ fed \in Feds /\ disk \in [File -> 1..MaxVersion] /\ e2b \in 0..2
      /\ active \in File \cup {NoFile}
  BY <1>1, <1>3 DEF Inv, Types, Live, Idle
<1>5. f \in File \cup {NoFile}
  BY <1>3, <1>4, ActiveIsFile
<1>6. /\ call'.op \in {"attach", "append", "start"}
      /\ Awaits(call') /\ call'.loop \in Loops /\ call'.fed \in Feds /\ call'.fedAfter \in Feds
      /\ Holds(loop', e2b') /\ Holds(call'.loop, e2b') /\ e2b' \in 0..2
      /\ InCall(loop', call', prefixSig', fed', messages')
  <2>1. CASE loop.brain = "large" /\ loop.drafter = 0
    <3> DEFINE lp == [loop EXCEPT !.drafter = Loaded]
    <3>1. call' = Await("attach", lp, fed, fed) /\ e2b' = Loaded
      BY <1>2, <2>1
    <3>2. Loaded \in 1..2 /\ Loaded \in 0..2
      BY <1>4 DEF Loaded
    <3>3. /\ lp \in Loops /\ lp.brain = loop.brain /\ lp.gen = loop.gen /\ lp.drafter = Loaded
          /\ lp.was = loop.was /\ lp.heard = loop.heard /\ lp.has = loop.has
      BY <1>4, <3>2 DEF Loops
    <3> HIDE DEF lp
    <3>4. /\ call'.op = "attach" /\ call'.loop = lp /\ call'.fed = fed /\ call'.fedAfter = fed
          /\ Awaits(call')
      BY <3>1 DEF Await, Awaits
    <3>5. Holds(loop', e2b') /\ Holds(lp, e2b')
      BY <1>1, <1>4, <2>1, <3>1, <3>2, <3>3 DEF Holds
    <3>6. Sound(lp, SubSeq(history, 1, n), fed)
      BY <1>3, <3>3 DEF Sound
    <3>7. InCall(loop', call', prefixSig', fed', messages')
      BY <1>1, <1>3, <1>4, <3>3, <3>4, <3>6 DEF InCall
    <3> QED
      BY <1>4, <3>1, <3>2, <3>3, <3>4, <3>5, <3>7
  <2>2. CASE ~(loop.brain = "large" /\ loop.drafter = 0)
    <3>1. PICK c : c = call' /\ c = Dispatch(history, n, loop, fed, f)
      BY <1>2, <2>2
    <3>2. active' \in File \cup {NoFile} /\ e2b' = e2b
      BY <1>2, <1>5, <2>2
    <3>3. /\ c.op \in {"append", "start"}
          /\ Awaits(c) /\ c.loop \in Loops /\ c.fed \in Feds /\ c.fedAfter \in Feds
          /\ Holds(c.loop, e2b) /\ InCall(loop, c, prefixSig, fed', history)
      BY <1>3, <1>4, <1>5, <3>1, <3>2, Dispatched
    <3> QED
      BY <1>1, <1>4, <3>1, <3>2, <3>3
  <2> QED
    BY <2>1, <2>2
<1>7. Types'
  <2>1. /\ disk' \in [File -> 1..MaxVersion] /\ pendingReset' \in BOOLEAN /\ retrying' \in BOOLEAN
        /\ loop' \in Loops /\ (loop'.brain = "none" => loop' = NoLoop) /\ prefixSig' \in Seq(Msg)
    BY <1>1 DEF Inv, Types
  <2>2. asked' \in BOOLEAN
    BY <1>1
  <2>3. fed' \in Feds /\ active' \in File \cup {NoFile} /\ messages' \in Seq(Msg)
    BY <1>1, <1>2, <1>3, <1>5, <1>6
  <2> QED
    BY <1>6, <2>1, <2>2, <2>3 DEF Types
<1>8. Live' /\ Replied'
  BY <1>1, <1>6 DEF Inv, Live, Replied
<1>9. (asked' => pendingReset') /\ messages' \in {history, Compacted(history)}
  BY <1>1
<1> QED
  BY <1>1, <1>3, <1>6, <1>7, <1>8, <1>9, TurnStep

(* A turn that has no loop to go on with.                                   *)
LEMMA CaughtStep ==
  ASSUME Inv, history' = history, history # <<>>, history[Len(history)].role # "assistant",
         UNCHANGED <<disk, fed, active, e2b, retrying, pendingReset>>,
         loop' = NoLoop, prefixSig' = <<>>, call' = Await("caught", NoLoop, fed, fed),
         messages' \in Seq(Msg), messages' \in {history, Compacted(history)},
         asked' \in BOOLEAN, asked' => pendingReset
  PROVE  Inv'
<1>0. <<>> \in Seq(Msg)
  BY EmptySeq
<1>1. NoLoop \in Loops /\ Holds(NoLoop, e2b)
  BY <1>0 DEF NoLoop, Loops, Holds
<1>2. /\ call'.op = "caught" /\ call'.loop = NoLoop /\ call'.fed = fed /\ call'.fedAfter = fed
      /\ Awaits(call')
  BY DEF Await, Awaits
<1>3. Types'
  <2>1. /\ disk' \in [File -> 1..MaxVersion] /\ fed' \in Feds /\ active' \in File \cup {NoFile}
        /\ e2b' \in 0..2 /\ pendingReset' \in BOOLEAN /\ retrying' \in BOOLEAN /\ fed \in Feds
    BY DEF Inv, Types
  <2>2. prefixSig' \in Seq(Msg)
    BY <1>0
  <2> QED
    BY <1>1, <1>2, <2>1, <2>2 DEF Types
<1>4. Live' /\ Replied'
  BY <1>1, <1>2 DEF Live, Replied
<1> QED
  BY <1>2, <1>3, <1>4, TurnStep

(* Distilling overflows.                                                    *)
LEMMA DistillStep == ASSUME Inv, DistillOverflows PROVE Inv'
<1>1. /\ Requested /\ messages' = history /\ asked' = FALSE
      /\ loop' = NoLoop /\ prefixSig' = <<>> /\ call' = Await("caught", NoLoop, fed, fed)
      /\ UNCHANGED <<history, disk, fed, active, e2b, retrying, pendingReset>>
  BY DEF DistillOverflows, client
<1>2. history # <<>> /\ history[Len(history)].role # "assistant" /\ history \in Seq(Msg)
  BY <1>1, Requests DEF Answerable
<1>3. asked' \in BOOLEAN /\ (asked' => pendingReset)
  BY <1>1
<1>4. messages' \in Seq(Msg) /\ messages' \in {history, Compacted(history)}
  BY <1>1, <1>2
<1> QED
  BY <1>1, <1>2, <1>3, <1>4, CaughtStep

(* A turn that is under way.                                                *)
LEMMA UnderWay ==
  ASSUME Inv, Busy
  PROVE  /\ history # <<>> /\ history[Len(history)].role # "assistant"
         /\ messages \in {history, Compacted(history)} /\ Answerable(messages)
         /\ messages \in Seq(Msg) /\ asked \in BOOLEAN /\ (asked => pendingReset)
         /\ messages = history \/ messages[1] = Brief
         /\ call.op # "caught" => InCall(loop, call, prefixSig, fed, messages)
         /\ call.op = "caught" => loop = NoLoop
<1>1. /\ history # <<>> /\ history[Len(history)].role # "assistant"
      /\ messages \in {history, Compacted(history)} /\ (asked => pendingReset)
      /\ \/ call.op = "caught" /\ loop = NoLoop
         \/ InCall(loop, call, prefixSig, fed, messages)
  BY DEF Inv, Serving
<1>2. Answerable(messages) /\ (messages = history \/ messages[1] = Brief)
  BY <1>1, Compacts DEF Inv
<1>3. InCall(loop, call, prefixSig, fed, messages) => call.op # "caught"
  BY DEF InCall
<1>4. messages \in Seq(Msg) /\ asked \in BOOLEAN
  BY DEF Inv, Types
<1> QED
  BY <1>1, <1>2, <1>3, <1>4

(* A call overflows.                                                        *)
LEMMA OverflowStep == ASSUME Inv, Overflow PROVE Inv'
<1>1. /\ Busy /\ loop' = NoLoop /\ prefixSig' = <<>> /\ call' = Await("caught", NoLoop, fed, fed)
      /\ UNCHANGED <<history, disk, fed, active, e2b, messages, retrying, pendingReset, asked>>
  BY DEF Overflow, client, Busy
<1>2. /\ history # <<>> /\ history[Len(history)].role # "assistant"
      /\ messages \in {history, Compacted(history)} /\ messages \in Seq(Msg)
      /\ asked \in BOOLEAN /\ (asked => pendingReset)
  BY <1>1, UnderWay
<1>3. asked' \in BOOLEAN /\ (asked' => pendingReset)
  BY <1>1, <1>2
<1>4. messages' \in Seq(Msg) /\ messages' \in {history, Compacted(history)}
  BY <1>1, <1>2
<1> QED
  BY <1>1, <1>2, <1>3, <1>4, CaughtStep

(* A replay ends.                                                           *)
LEMMA ReplayedStep == ASSUME Inv, Replayed PROVE Inv'
<1> DEFINE n == LastReply(messages)
<1>1. /\ call.op = "replay" /\ loop' = call.loop /\ prefixSig' = Sigs(SubSeq(messages, 1, n))
      /\ call' = Dispatch(messages, n, loop', fed, active) /\ fed' = call'.fed
      /\ UNCHANGED <<history, disk, active, e2b, messages, retrying, pendingReset, asked>>
  BY DEF Replayed, client
<1>2. /\ history # <<>> /\ history[Len(history)].role # "assistant"
      /\ messages \in {history, Compacted(history)} /\ Answerable(messages)
      /\ messages \in Seq(Msg) /\ (asked => pendingReset)
      /\ InCall(loop, call, prefixSig, fed, messages)
  BY <1>1, UnderWay DEF Busy
<1>3. /\ Replayable(messages) /\ call.loop.was = "started" /\ fed = call.fed
      /\ Sound(call.loop, SubSeq(messages, 1, n), fed)
      /\ loop.brain # "none" /\ call.loop.brain # "none"
  BY <1>1, <1>2 DEF InCall
<1>4. /\ call.loop \in Loops /\ Holds(call.loop, e2b) /\ fed \in Feds
      /\ disk \in [File -> 1..MaxVersion] /\ active \in File \cup {NoFile}
  BY DEF Inv, Types, Live
<1>5. PICK L \in Nat : L = Len(messages) /\ L >= 1
  BY <1>2, EmptySeq DEF Answerable
<1>6. /\ n \in 0..L /\ n > 1 /\ n < L /\ messages[n].role = "assistant"
      /\ \A i \in 1..L : i > n => messages[i].role # "assistant"
  <2>1. n > 1 /\ n < L
    BY <1>3, <1>5 DEF Replayable
  <2>2. /\ n \in 0..L /\ (n # 0 => messages[n].role = "assistant")
        /\ \A i \in 1..L : i > n => messages[i].role # "assistant"
    BY <1>2, <1>5, LastOnes
  <2> HIDE DEF n
  <2> QED
    BY <2>1, <2>2
<1> HIDE DEF n
<1>7. Upto(messages, n)
  <2>1. messages[L].role = "tool" => n = L - 1
    <3> SUFFICES ASSUME messages[L].role = "tool" PROVE n = L - 1
      OBVIOUS
    <3>1. messages[L - 1].role = "assistant" /\ L >= 2
      BY <1>2, <1>5 DEF Answerable
    <3>2. L - 1 \in 1..L
      BY <1>5, <3>1
    <3>3. ~(L - 1 > n)
      BY <1>6, <3>1, <3>2
    <3> QED
      BY <1>5, <1>6, <3>3
  <2> QED
    BY <1>5, <1>6, <2>1 DEF Upto
<1>8. PICK s \in Seq(Msg) : s = SubSeq(messages, 1, n) /\ Len(s) = n /\ \A i \in 1..n : s[i] = messages[i]
  <2>1. n \in 0..Len(messages)
    BY <1>5, <1>6
  <2> QED
    BY <1>2, <2>1, Splits
<1>9. prefixSig' \in Seq(Msg) /\ Replied'
  <2>1. /\ Sigs(s) \in Seq(Msg) /\ Len(Sigs(s)) = n
        /\ \A i \in 1..n : Sigs(s)[i].role = s[i].role
    BY <1>8, InputOfSigs
  <2>2. n \in 1..n
    BY <1>6
  <2>3. Sigs(s)[n].role = "assistant"
    BY <1>6, <1>8, <2>1, <2>2
  <2>4. prefixSig' = Sigs(s)
    BY <1>1, <1>8 DEF n
  <2> QED
    BY <2>1, <2>3, <2>4 DEF Replied
<1>10. PICK c : c = call' /\ c = Dispatch(messages, n, call.loop, fed, active)
  BY <1>1 DEF n
<1>11. /\ c.op \in {"append", "start"}
       /\ Awaits(c) /\ c.loop \in Loops /\ c.fed \in Feds /\ c.fedAfter \in Feds
       /\ Holds(c.loop, e2b) /\ InCall(call.loop, c, prefixSig', fed', messages)
  <2>1. PICK lp \in Loops : lp = call.loop /\ lp.was # "new" /\ lp.brain # "none" /\ Holds(lp, e2b)
                            /\ Sound(lp, SubSeq(messages, 1, n), fed)
    BY <1>3, <1>4
  <2>2. PICK sig, after : sig = prefixSig' /\ after = fed'
    OBVIOUS
  <2>3. c = Dispatch(messages, n, lp, fed, active)
    BY <1>10, <2>1
  <2>4. /\ c.op \in {"append", "start"}
        /\ Awaits(c) /\ c.loop \in Loops /\ c.fed \in Feds /\ c.fedAfter \in Feds
        /\ Holds(c.loop, e2b) /\ InCall(lp, c, sig, after, messages)
    BY <1>2, <1>4, <1>7, <2>1, <2>3, Dispatched
  <2> QED
    BY <2>1, <2>2, <2>4
<1>12. Types'
  <2>1. /\ disk' \in [File -> 1..MaxVersion] /\ active' \in File \cup {NoFile} /\ e2b' \in 0..2
        /\ pendingReset' \in BOOLEAN /\ asked' \in BOOLEAN
        /\ messages' \in Seq(Msg) /\ retrying' \in BOOLEAN
    BY <1>1 DEF Inv, Types
  <2>2. /\ loop' \in Loops /\ loop'.brain # "none" /\ fed' \in Feds
        /\ call'.op \in {"append", "start"} /\ Awaits(call')
        /\ call'.loop \in Loops /\ call'.fed \in Feds /\ call'.fedAfter \in Feds
    BY <1>1, <1>3, <1>4, <1>10, <1>11
  <2> QED
    BY <1>9, <2>1, <2>2 DEF Types
<1>13. Live'
  BY <1>1, <1>4, <1>10, <1>11 DEF Live
<1>14. /\ (asked' => pendingReset') /\ messages' \in {history, Compacted(history)}
       /\ InCall(loop', call', prefixSig', fed', messages')
  BY <1>1, <1>2, <1>10, <1>11
<1> QED
  BY <1>1, <1>2, <1>9, <1>12, <1>13, <1>14, TurnStep

(* The drafter is attached.                                                 *)
LEMMA AttachedStep == ASSUME Inv, Attached PROVE Inv'
<1> DEFINE n == Len(prefixSig)
<1>1. /\ call.op = "attach" /\ loop' = call.loop
      /\ call' = Dispatch(messages, n, loop', fed, active) /\ fed' = call'.fed
      /\ UNCHANGED <<history, disk, prefixSig, active, e2b, messages, retrying, pendingReset, asked>>
  BY DEF Attached, client
<1>2. /\ history # <<>> /\ history[Len(history)].role # "assistant"
      /\ messages \in {history, Compacted(history)} /\ Answerable(messages)
      /\ messages \in Seq(Msg) /\ (asked => pendingReset)
      /\ InCall(loop, call, prefixSig, fed, messages)
  BY <1>1, UnderWay DEF Busy
<1>3. /\ Upto(messages, n) /\ call.loop.was # "new" /\ fed = call.fed
      /\ Sound(call.loop, SubSeq(messages, 1, n), fed)
      /\ loop.brain # "none" /\ call.loop.brain # "none"
  BY <1>1, <1>2 DEF InCall
<1>4. /\ call.loop \in Loops /\ Holds(call.loop, e2b) /\ fed \in Feds
      /\ disk \in [File -> 1..MaxVersion] /\ active \in File \cup {NoFile}
  BY DEF Inv, Types, Live
<1>5. PICK c : c = call' /\ c = Dispatch(messages, n, call.loop, fed, active)
  BY <1>1
<1>6. /\ c.op \in {"append", "start"}
      /\ Awaits(c) /\ c.loop \in Loops /\ c.fed \in Feds /\ c.fedAfter \in Feds
      /\ Holds(c.loop, e2b) /\ InCall(call.loop, c, prefixSig', fed', messages)
  <2>1. PICK lp \in Loops : lp = call.loop /\ lp.was # "new" /\ lp.brain # "none" /\ Holds(lp, e2b)
                            /\ Sound(lp, SubSeq(messages, 1, n), fed)
    BY <1>3, <1>4
  <2>2. PICK sig, after : sig = prefixSig' /\ after = fed'
    OBVIOUS
  <2>3. c = Dispatch(messages, n, lp, fed, active)
    BY <1>5, <2>1
  <2>4. /\ c.op \in {"append", "start"}
        /\ Awaits(c) /\ c.loop \in Loops /\ c.fed \in Feds /\ c.fedAfter \in Feds
        /\ Holds(c.loop, e2b) /\ InCall(lp, c, sig, after, messages)
    BY <1>2, <1>3, <1>4, <2>1, <2>3, Dispatched
  <2> QED
    BY <2>1, <2>2, <2>4
<1>7. Types'
  <2>1. /\ disk' \in [File -> 1..MaxVersion] /\ active' \in File \cup {NoFile} /\ e2b' \in 0..2
        /\ pendingReset' \in BOOLEAN /\ asked' \in BOOLEAN /\ prefixSig' \in Seq(Msg)
        /\ messages' \in Seq(Msg) /\ retrying' \in BOOLEAN
    BY <1>1 DEF Inv, Types
  <2>2. /\ loop' \in Loops /\ loop'.brain # "none" /\ fed' \in Feds
        /\ call'.op \in {"append", "start"} /\ Awaits(call')
        /\ call'.loop \in Loops /\ call'.fed \in Feds /\ call'.fedAfter \in Feds
    BY <1>1, <1>3, <1>4, <1>5, <1>6
  <2> QED
    BY <2>1, <2>2 DEF Types
<1>8. Live' /\ Replied'
  BY <1>1, <1>4, <1>5, <1>6 DEF Inv, Live, Replied
<1>9. /\ (asked' => pendingReset') /\ messages' \in {history, Compacted(history)}
      /\ InCall(loop', call', prefixSig', fed', messages')
  BY <1>1, <1>2, <1>5, <1>6
<1> QED
  BY <1>1, <1>2, <1>7, <1>8, <1>9, TurnStep

(* The call is made again on a loop of the large model.                     *)
LEMMA RedoStep ==
  ASSUME Inv, call.op = "start", loop.brain = "small", NEW i \in 1..2, RedoOnLarge(i),
         fed' \in Feds
  PROVE  Inv'
<1>1. /\ loop' = NewLoop("large", i) /\ e2b' = i
      /\ call' = [call EXCEPT !.loop = [loop' EXCEPT !.was = call.loop.was,
                                                     !.heard = call.loop.heard, !.has = call.loop.has]]
      /\ UNCHANGED <<history, disk, prefixSig, active, messages, retrying, pendingReset, asked>>
  BY DEF RedoOnLarge, client
<1>2. /\ history # <<>> /\ history[Len(history)].role # "assistant"
      /\ messages \in {history, Compacted(history)} /\ (asked => pendingReset)
      /\ InCall(loop, call, prefixSig, fed, messages)
  BY UnderWay DEF Busy
<1>3. /\ call.loop.was # "new" /\ Sound(call.loop, messages, call.fedAfter)
  BY <1>2 DEF InCall
<1>4. /\ Awaits(call) /\ call.loop \in Loops /\ call.fed \in Feds /\ call.fedAfter \in Feds
      /\ prefixSig \in Seq(Msg) /\ messages \in Seq(Msg)
  BY DEF Inv, Types
<1>5. PICK new \in Loops : /\ new = loop' /\ new.brain = "large" /\ new.gen = 0 /\ new.drafter = i
  <2>1. "large" \in {"small", "large"}
    OBVIOUS
  <2>2. loop' \in Loops /\ loop'.brain = "large" /\ loop'.gen = 0 /\ loop'.drafter = i
    BY <1>1, <2>1, NewLoops
  <2> QED
    BY <2>2
<1> DEFINE lp == [new EXCEPT !.was = call.loop.was, !.heard = call.loop.heard, !.has = call.loop.has]
<1>6. /\ lp \in Loops /\ lp.brain = "large" /\ lp.gen = 0 /\ lp.drafter = i
      /\ lp.was = call.loop.was /\ lp.heard = call.loop.heard /\ lp.has = call.loop.has
  BY <1>4, <1>5 DEF Loops
<1> HIDE DEF lp
<1>7. /\ call'.op = "start" /\ call'.loop = lp /\ call'.fed = call.fed /\ call'.fedAfter = call.fedAfter
      /\ Awaits(call')
  <2>1. call' = [call EXCEPT !.loop = lp]
    BY <1>1, <1>5 DEF lp
  <2>2. PICK c : c = call /\ c = [op |-> call.op, loop |-> call.loop, fed |-> call.fed, fedAfter |-> call.fedAfter]
    BY <1>4 DEF Awaits, Await
  <2>3. call' = [op |-> call.op, loop |-> lp, fed |-> call.fed, fedAfter |-> call.fedAfter]
    BY <2>1, <2>2
  <2> QED
    BY <2>3 DEF Awaits, Await
<1>8. Types'
  <2>1. /\ disk' \in [File -> 1..MaxVersion] /\ active' \in File \cup {NoFile}
        /\ pendingReset' \in BOOLEAN /\ asked' \in BOOLEAN /\ prefixSig' \in Seq(Msg)
        /\ messages' \in Seq(Msg) /\ retrying' \in BOOLEAN
    BY <1>1 DEF Inv, Types
  <2>2. /\ loop' \in Loops /\ loop'.brain # "none" /\ e2b' \in 0..2
        /\ call'.op = "start" /\ Awaits(call')
        /\ call'.loop \in Loops /\ call'.fed \in Feds /\ call'.fedAfter \in Feds
    BY <1>1, <1>4, <1>5, <1>6, <1>7
  <2> QED
    BY <2>1, <2>2 DEF Types
<1>9. Live'
  BY <1>1, <1>5, <1>6, <1>7 DEF Live, Holds
<1>10. Sound(lp, messages, call.fedAfter)
  BY <1>3, <1>6 DEF Sound
<1>11. InCall(loop', call', prefixSig', fed', messages')
  BY <1>1, <1>3, <1>5, <1>6, <1>7, <1>10 DEF InCall
<1>12. Replied' /\ (asked' => pendingReset') /\ messages' \in {history, Compacted(history)}
  BY <1>1, <1>2 DEF Inv, Replied
<1> QED
  BY <1>1, <1>2, <1>8, <1>9, <1>11, <1>12, TurnStep

(* A loop of the small model holds the instance that is loaded.             *)
LEMMA SmallIsLoaded ==
  ASSUME Inv, loop.brain = "small"
  PROVE  e2b \in 1..2 /\ 3 - e2b \in 1..2
<1>1. loop.gen # 0 /\ loop.gen \in {0, e2b} /\ e2b \in 0..2
  BY DEF Inv, Types, Live, Holds
<1> QED
  BY <1>1

(* The large brain takes over.                                              *)
LEMMA EscalateStep == ASSUME Inv, Escalate PROVE Inv'
<1>1. call.op = "start" /\ loop.brain = "small" /\ fed' = call.fedAfter /\ RedoOnLarge(e2b)
  BY DEF Escalate
<1>2. PICK i \in 1..2 : i = e2b
  BY <1>1, SmallIsLoaded
<1>3. RedoOnLarge(i)
  BY <1>1, <1>2
<1>4. fed' \in Feds
  BY <1>1 DEF Inv, Types
<1> QED
  BY <1>1, <1>3, <1>4, RedoStep

(* The small brain fails.                                                   *)
LEMMA SmallFailsStep == ASSUME Inv, SmallFails PROVE Inv'
<1>1. call.op = "start" /\ loop.brain = "small" /\ fed' = fed /\ RedoOnLarge(3 - e2b)
  BY DEF SmallFails
<1>2. PICK i \in 1..2 : i = 3 - e2b
  BY <1>1, SmallIsLoaded
<1>3. RedoOnLarge(i)
  BY <1>1, <1>2
<1>4. fed' \in Feds
  BY <1>1 DEF Inv, Types
<1> QED
  BY <1>1, <1>3, <1>4, RedoStep

(* A turn is left with a loop that has been told what is claimed of it.     *)
LEMMA Returns ==
  ASSUME Inv, Busy, NEW reply \in Replies, NEW lp \in Loops, NEW sig \in Seq(Msg), NEW fd \in Feds,
         Return(reply, lp, sig, fd), e2b' = e2b, Holds(lp, e2b), Sound(lp, sig, fd),
         IF lp.brain = "none" THEN lp = NoLoop ELSE lp.was # "new",
         sig # <<>> => sig[Len(sig)].role = "assistant",
         \/ reply = Says
         \/ sig # <<>> /\ sig[1] = Brief
         \/ Len(sig) >= Len(history) + 1
  PROVE  Inv'
<1>1. /\ history' = Append(history, reply)
      /\ loop' = IF pendingReset THEN NoLoop ELSE lp
      /\ prefixSig' = IF pendingReset THEN <<>> ELSE sig
      /\ fed' = IF pendingReset THEN NoFed ELSE fd
      /\ pendingReset' = FALSE
      /\ messages' = <<>> /\ retrying' = FALSE /\ call' = NoCall
      /\ UNCHANGED <<disk, active, asked>>
  BY DEF Return
<1>2. /\ history # <<>> /\ history[Len(history)].role # "assistant" /\ asked \in BOOLEAN
      /\ asked => pendingReset
  BY UnderWay
<1>3. reply \in Msg /\ reply.role = "assistant"
  <2>1. /\ User = [role |-> "user", does |-> "say", file |-> NoFile, version |-> 0]
        /\ Says = [User EXCEPT !.role = "assistant"] /\ 0 \in 0..MaxVersion
    BY EngineAssumption DEF User, Says
  <2>2. CASE reply = Says
    BY <2>1, <2>2 DEF Msg, Message
  <2>3. CASE reply # Says
    <3>1. PICK does \in {"read", "edit"}, f \in File : reply = [Says EXCEPT !.does = does, !.file = f]
      BY <2>3 DEF Replies, Calls
    <3>2. reply = [role |-> "assistant", does |-> does, file |-> f, version |-> 0]
      BY <2>1, <3>1
    <3> QED
      BY <2>1, <3>2 DEF Msg, Message
  <2> QED
    BY <2>2, <2>3
<1>4. /\ Historic' /\ history' # <<>> /\ Len(history') = Len(history) + 1
      /\ history'[Len(history')] = reply
  <2>1. Historic /\ Len(history) < MaxLen
    BY <1>2 DEF Inv, Historic
  <2>2. reply.role # "tool" /\ history # <<>>
    BY <1>2, <1>3
  <2> QED
    BY <1>1, <1>3, <2>1, <2>2, MoreHistory
<1>5. <<>> \in Seq(Msg) /\ NoFed \in Feds /\ NoLoop \in Loops
  <2>1. <<>> \in Seq(Msg)
    BY EmptySeq
  <2> QED
    BY <2>1, EngineAssumption DEF NoFed, Feds, NoLoop, Loops
<1>6. /\ Sound(NoLoop, <<>>, NoFed) /\ Holds(NoLoop, e2b) /\ NoLoop.brain = "none"
      /\ NoCall.op = "none" /\ NoCall.loop = NoLoop /\ Awaits(NoCall)
      /\ NoCall.fed = NoFed /\ NoCall.fedAfter = NoFed
  BY DEF Sound, NoLoop, Telling, Holds, NoCall, Await, Awaits
<1>7. /\ loop' \in Loops /\ prefixSig' \in Seq(Msg) /\ fed' \in Feds
      /\ Holds(loop', e2b) /\ Sound(loop', prefixSig', fed')
      /\ IF loop'.brain = "none" THEN loop' = NoLoop ELSE loop'.was # "new"
      /\ prefixSig' # <<>> => prefixSig'[Len(prefixSig')].role = "assistant"
  <2>1. CASE pendingReset
    <3>1. loop' = NoLoop /\ prefixSig' = <<>> /\ fed' = NoFed
      BY <1>1, <2>1
    <3>2. prefixSig' \in Seq(Msg)
      BY <1>5, <3>1
    <3> QED
      BY <1>5, <1>6, <3>1, <3>2
  <2>2. CASE ~pendingReset
    <3>1. loop' = lp /\ prefixSig' = sig /\ fed' = fd
      BY <1>1, <2>2
    <3> QED
      BY <3>1
  <2> QED
    BY <2>1, <2>2
<1>8. Types'
  <2>1. /\ disk' \in [File -> 1..MaxVersion] /\ active' \in File \cup {NoFile} /\ e2b' \in 0..2
    BY <1>1 DEF Inv, Types
  <2>2. pendingReset' \in BOOLEAN /\ retrying' \in BOOLEAN /\ asked' \in BOOLEAN
    BY <1>1, <1>2
  <2>3. messages' \in Seq(Msg)
    BY <1>1, <1>5
  <2>4. /\ call'.op = "none" /\ Awaits(call')
        /\ call'.loop \in Loops /\ call'.fed \in Feds /\ call'.fedAfter \in Feds
    BY <1>1, <1>5, <1>6
  <2> QED
    BY <1>7, <2>1, <2>2, <2>3, <2>4 DEF Types
<1>9. Live' /\ Replied'
  BY <1>1, <1>6, <1>7 DEF Live, Replied
<1>10. Answers'
  <2>1. loop' # NoLoop => prefixSig' = sig
    BY <1>1
  <2> QED
    BY <1>3, <1>4, <2>1 DEF Answers
<1>11. Idle'
  <2>1. (loop' # NoLoop => loop'.was # "new") /\ (asked' => loop' = NoLoop /\ fed' = NoFed)
    BY <1>1, <1>2, <1>7
  <2> QED
    BY <1>1, <1>7, <1>10, <2>1 DEF Idle
<1>12. ~Busy'
  BY <1>1, <1>6 DEF Busy
<1> QED
  BY <1>4, <1>8, <1>9, <1>11, <1>12 DEF Inv, Serving

(* A reply is generated: the loop has been told the messages, and replied.  *)
LEMMA GeneratedStep == ASSUME Inv, Generated PROVE Inv'
<1>1. /\ call.op \in {"append", "start"} /\ e2b' = e2b /\ Busy
      /\ \E reply \in Replies :
           Return(reply, call.loop, Append(Sigs(messages), Says), call.fedAfter)
  BY DEF Generated, Busy
<1>2. PICK reply \in Replies : Return(reply, call.loop, Append(Sigs(messages), Says), call.fedAfter)
  BY <1>1
<1>3. /\ Answerable(messages) /\ messages \in Seq(Msg)
      /\ messages = history \/ messages[1] = Brief
      /\ InCall(loop, call, prefixSig, fed, messages)
  BY <1>1, UnderWay
<1>4. PICK lp \in Loops : /\ lp = call.loop /\ Holds(lp, e2b) /\ lp.was # "new" /\ lp.brain # "none"
                          /\ Sound(lp, messages, call.fedAfter)
  BY <1>1, <1>3 DEF InCall, Inv, Types, Live
<1>5. PICK fd \in Feds : fd = call.fedAfter
  BY DEF Inv, Types
<1>6. PICK ms \in Seq(Msg) : ms = messages /\ ms # <<>>
  BY <1>3 DEF Answerable
<1>7. PICK sig \in Seq(Msg) : sig = Append(Sigs(ms), Says)
  BY <1>6, InputOfSigs
<1>8. PICK L \in Nat : L = Len(ms) /\ L >= 1
  BY <1>6, EmptySeq
<1>9. /\ Len(sig) = L + 1 /\ sig[L + 1] = Says /\ sig[1] = Sig(ms[1]) /\ Input(sig) = Input(ms)
  <2>1. PICK t \in Seq(Msg) : t = Sigs(ms) /\ Len(t) = L /\ t[1] = Sig(ms[1])
    <3>1. 1 \in 1..Len(ms)
      BY <1>8
    <3> QED
      BY <1>8, <3>1, InputOfSigs
  <2>2. Says \in Msg
    BY <1>6, InputOfSigs
  <2>3. /\ Len(Append(t, Says)) = Len(t) + 1 /\ Append(t, Says)[Len(t) + 1] = Says
        /\ \A i \in 1..Len(t) : Append(t, Says)[i] = t[i]
    BY <2>2, AppendProperties
  <2>4. sig = Append(t, Says) /\ 1 \in 1..Len(t)
    BY <1>7, <1>8, <2>1
  <2>5. Input(sig) = Input(ms)
    BY <1>7, InputOfSigs
  <2> QED
    BY <2>1, <2>3, <2>4, <2>5
<1>10. sig # <<>> /\ sig[Len(sig)].role = "assistant"
  <2>1. Says.role = "assistant"
    BY DEF Says, User
  <2>2. sig # <<>>
    BY <1>8, <1>9, EmptySeq
  <2> QED
    BY <1>9, <2>1, <2>2
<1>11. sig[1] = Brief \/ Len(sig) >= Len(history) + 1
  <2>1. CASE messages = history
    <3>1. Len(sig) = Len(history) + 1 /\ Len(sig) \in Nat
      BY <1>6, <1>8, <1>9, <2>1
    <3> QED
      BY <3>1
  <2>2. CASE messages[1] = Brief
    BY <1>6, <1>9, <2>2 DEF Sig, Brief, User
  <2> QED
    BY <1>3, <2>1, <2>2
<1>12. Sound(lp, sig, fd)
  BY <1>4, <1>5, <1>6, <1>9 DEF Sound
<1>13. Return(reply, lp, sig, fd)
  BY <1>2, <1>4, <1>5, <1>6, <1>7
<1> QED
  BY <1>1, <1>4, <1>10, <1>11, <1>12, <1>13, Returns

(* A turn that is left as it stands, with the readable message.             *)
LEMMA LeftAsItIs ==
  ASSUME Inv, Busy, NEW lp \in Loops, Return(Says, lp, prefixSig, fed), e2b' = e2b,
         Holds(lp, e2b), lp.was \notin Telling,
         IF lp.brain = "none" THEN lp = NoLoop ELSE lp.was # "new"
  PROVE  Inv'
<1>1. PICK sig \in Seq(Msg), fd \in Feds, reply \in Replies : sig = prefixSig /\ fd = fed /\ reply = Says
  BY DEF Inv, Types, Replies
<1>2. Return(reply, lp, sig, fd) /\ (sig # <<>> => sig[Len(sig)].role = "assistant")
  BY <1>1 DEF Inv, Replied
<1>3. Sound(lp, sig, fd)
  BY DEF Sound, Telling
<1> QED
  BY <1>1, <1>2, <1>3, Returns

(* The turn gives up, without a loop.                                       *)
LEMMA GiveUpStep == ASSUME Inv, GiveUp PROVE Inv'
<1>1. call.op = "caught" /\ Busy /\ Return(Says, loop, prefixSig, fed) /\ e2b' = e2b
  BY DEF GiveUp, Busy
<1>2. PICK lp \in Loops : lp = loop /\ lp = NoLoop /\ Holds(lp, e2b)
  BY <1>1, UnderWay DEF Inv, Types, Live
<1>3. lp.was \notin Telling /\ lp.brain = "none"
  BY <1>2 DEF NoLoop, Telling
<1>4. Return(Says, lp, prefixSig, fed)
  BY <1>1, <1>2
<1> QED
  BY <1>1, <1>2, <1>3, <1>4, LeftAsItIs

(* The turn fails; nothing is claimed of the loop it leaves.                *)
LEMMA FailStep == ASSUME Inv, Fail PROVE Inv'
<1>0. loop \in Loops /\ Holds(loop, e2b) /\ e2b' = e2b /\ <<>> \in Seq(Msg)
  <2>1. <<>> \in Seq(Msg)
    BY EmptySeq
  <2> QED
    BY <2>1 DEF Inv, Types, Live, Fail
<1>1. CASE /\ call.op \in {"start", "replay"} /\ loop.brain = "large"
           /\ Return(Says, [loop EXCEPT !.was = IF @ \in {"new", "failed"} THEN "failed" ELSE "broken",
                                        !.heard = <<>>, !.has = {}], prefixSig, fed)
  <2> DEFINE was == IF loop.was \in {"new", "failed"} THEN "failed" ELSE "broken"
  <2>1. was \in {"failed", "broken"}
    OBVIOUS
  <2>2. [loop EXCEPT !.was = IF @ \in {"new", "failed"} THEN "failed" ELSE "broken", !.heard = <<>>, !.has = {}]
          = [loop EXCEPT !.was = was, !.heard = <<>>, !.has = {}]
    BY <1>0 DEF Loops
  <2> HIDE DEF was
  <2>3. PICK lp \in Loops : /\ lp = [loop EXCEPT !.was = was, !.heard = <<>>, !.has = {}]
                            /\ lp.was = was /\ SameModels(lp, loop)
    <3> DEFINE new == [loop EXCEPT !.was = was, !.heard = <<>>, !.has = {}]
    <3>1. new \in Loops /\ new.was = was /\ SameModels(new, loop)
      BY <1>0, <2>1 DEF Loops, SameModels
    <3> QED
      BY <3>1
  <2>4. Return(Says, lp, prefixSig, fed) /\ Busy
    BY <1>1, <2>2, <2>3 DEF Busy
  <2>5. Holds(lp, e2b) /\ lp.brain # "none" /\ lp.was # "new" /\ lp.was \notin Telling
    BY <1>0, <1>1, <2>1, <2>3 DEF Holds, SameModels, Telling
  <2> QED
    BY <1>0, <2>4, <2>5, LeftAsItIs
<1>2. CASE call.op = "append" /\ call.loop.was = "failed" /\ Return(Says, loop, prefixSig, fed)
  <2>1. Busy /\ loop.brain # "none" /\ loop.was = "failed"
    <3>1. Busy
      BY <1>2 DEF Busy
    <3>2. InCall(loop, call, prefixSig, fed, messages)
      BY <1>2, <3>1, UnderWay
    <3> QED
      BY <1>2, <3>1, <3>2 DEF InCall
  <2>2. PICK lp \in Loops : lp = loop
    BY <1>0
  <2>3. lp.was \notin Telling
    BY <2>1, <2>2 DEF Telling
  <2> QED
    BY <1>0, <1>2, <2>1, <2>2, <2>3, LeftAsItIs
<1> QED
  BY <1>1, <1>2 DEF Fail

(* Every step keeps the invariant.                                          *)
LEMMA StepInv == Inv /\ [Next]_vars => Inv'
<1> SUFFICES ASSUME Inv, [Next]_vars PROVE Inv'
  OBVIOUS
<1>1. ASSUME NEW f \in File, EditOutside(f) PROVE Inv'
  BY <1>1, EditStep
<1>2. ASSUME NEW n \in 0..MaxLen, GoBack(n) PROVE Inv'
  BY <1>2, GoBackStep
<1>3. ASSUME EngineStep PROVE Inv'
  BY <1>3, ReplayedStep, AttachedStep, GeneratedStep, EscalateStep, SmallFailsStep,
     OverflowStep, RetryStep, GiveUpStep, FailStep DEF EngineStep
<1>4. CASE UNCHANGED vars
  <2>1. UNCHANGED <<history, disk, loop, prefixSig, fed, active, e2b, messages, retrying, call, pendingReset, asked>>
    BY <1>4 DEF vars, client, engine, turn
  <2>2. Historic' /\ Types' /\ Live' /\ Replied'
    BY <2>1 DEF Inv, Historic, Types, Live, Replied
  <2>3. Idle' /\ Serving'
    BY <2>1 DEF Inv, Idle, Answers, Serving, Busy
  <2> QED
    BY <2>2, <2>3 DEF Inv
<1> QED
  BY <1>1, <1>2, <1>3, <1>4, SayStep, ExecuteStep, ResetStep, IdleStep, ContinueStep, RestartStep,
     DistillStep DEF Next

(* The invariant holds in every reachable state.                            *)
LEMMA Invariant == Spec => []Inv
  BY InitInv, StepInv, PTL DEF Spec

----------------------------------------------------------------------------
(* What it is for *)

(* Every variable of the engine has a value of its type.                    *)
THEOREM TypeCorrect == Spec => []TypeOK
<1>1. Inv => TypeOK
  <2> SUFFICES ASSUME Inv PROVE TypeOK
    OBVIOUS
  <2>1. Msg \subseteq Message
    BY DEF Msg
  <2>2. Seq(Msg) \subseteq Seq(Message)
    BY <2>1, SeqMonotonic
  <2>3. Loops \subseteq Loop
    BY <2>2 DEF Loops, Loop, Versions
  <2>4. history \in Seq(Message) /\ Len(history) <= MaxLen
    BY <2>2 DEF Inv, Historic
  <2>5. /\ disk \in [File -> 1..MaxVersion]
        /\ loop \in Loop /\ (loop.brain = "none" => loop = NoLoop)
        /\ prefixSig \in Seq(Message) /\ fed \in [File -> 0..MaxVersion]
        /\ active \in File \cup {NoFile} /\ e2b \in 0..2
        /\ messages \in Seq(Message)
        /\ call.op \in {"none", "caught", "replay", "attach", "append", "start"}
        /\ call.loop \in Loop /\ {call.fed, call.fedAfter} \subseteq [File -> 0..MaxVersion]
    BY <2>2, <2>3 DEF Inv, Types, Feds
  <2>6. pendingReset \in BOOLEAN /\ asked \in BOOLEAN
    BY DEF Inv, Types
  <2>7. retrying => Busy
    BY DEF Inv, Idle
  <2> QED
    BY <2>4, <2>5, <2>6, <2>7 DEF TypeOK
<1> QED
  BY <1>1, Invariant, PTL

(* Between turns a loop that start() or replay() succeeded on has been told *)
(* every user message and every tool result prefixSig claims, each once and *)
(* in order, whichever of transcript, replay, append, redo on the large     *)
(* brain and compacted retry they came by.                                  *)
THEOREM ToldCorrectly == Spec => []Told
<1>1. Inv => Told
  BY DEF Inv, Idle, Sound, Telling, Told
<1> QED
  BY <1>1, Invariant, PTL

(* Content a breadcrumb stands for is in the context of a loop that was     *)
(* started once, whatever edits the files see meanwhile.                    *)
THEOREM BreadcrumbsHold == Spec => []FedIsThereOnce
<1>1. Inv => FedIsThereOnce
  BY DEF Inv, Idle, Sound, Fits, FedIsThereOnce, FedIsThere
<1> QED
  BY <1>1, Invariant, PTL

(* No loop, nor one that a call is about to leave, holds an instance of the *)
(* small model that was freed, by the idle timer or by the failing brain.   *)
THEOREM NoFreedModel == Spec => []LiveModels
<1>1. Inv => LiveModels
  BY DEF Inv, Live, Holds, LiveModels
<1> QED
  BY <1>1, Invariant, PTL

(* A reset that is asked for at any await of a turn has been applied when   *)
(* the turn is over, whatever loop the turn built after it, and once.       *)
THEOREM ResetsHold == Spec => []ResetHolds
<1>1. Inv => ResetHolds
  BY DEF Inv, Idle, ResetHolds
<1> QED
  BY <1>1, Invariant, PTL

============================================================================
