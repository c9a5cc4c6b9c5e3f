------------------------- MODULE AgentSessionProofs -------------------------
(***************************************************************************)
(* The type invariant of AgentSession, and of the properties its run checks *)
(* those about the order of the transcript and of the branch, about retries *)
(* and about where a message is, for any number of callers, messages,       *)
(* retries and compactions, and whatever goes wrong how often.              *)
(***************************************************************************)
EXTENDS AgentSession, SequenceTheorems, FiniteSetTheorems, WellFoundedInduction, TLAPS

(* Of the failures of what is to be proved by induction, one is the least.  *)
LEMMA LeastFailure ==
  ASSUME NEW B \in SUBSET Nat, B # {}
  PROVE  \E m \in B : \A n \in B : m <= n
<1> DEFINE R == OpToRel(<, Nat)
<1>1. IsWellFoundedOn(R, Nat)
  BY NatLessThanWellFounded
<1>2. PICK x \in B : x \in Nat
  OBVIOUS
<1>3. PICK y \in B : \A z \in B : ~(<<z, y>> \in R)
  BY <1>1, <1>2, WFMin
<1>4. \A z, w \in Nat : z < w => <<z, w>> \in R
  BY DEF OpToRel
<1> HIDE DEF R
<1>5. \A z \in B : z \in Nat /\ ~(z < y)
  BY <1>3, <1>4
<1> QED
  BY <1>5

(* A set of numbers up to a bound has a greatest one.                       *)
LEMMA Greatest ==
  ASSUME NEW n \in Nat, NEW S \in SUBSET (1..n), S # {}
  PROVE  Max(S) \in S /\ \A i \in S : Max(S) >= i
<1> DEFINE B == {n - i : i \in S}
<1>1. B \in SUBSET Nat
  <2>1. \A i \in S : n - i \in Nat
    OBVIOUS
  <2> QED
    BY <2>1
<1>2. PICK e \in S : TRUE
  OBVIOUS
<1>3. n - e \in B
  BY <1>2
<1>4. B # {}
  BY <1>3
<1>5. PICK m \in B : \A k \in B : m <= k
  BY <1>1, <1>4, LeastFailure
<1>6. PICK x \in S : m = n - x
  BY <1>5
<1>7. \A i \in S : x >= i
  <2> SUFFICES ASSUME NEW i \in S PROVE x >= i
    OBVIOUS
  <2>1. m <= n - i
    BY <1>5
  <2> QED
    BY <1>6, <2>1
<1>8. \E y \in S : \A i \in S : y >= i
  BY <1>7
<1> QED
  BY <1>8 DEF Max

----------------------------------------------------------------------------
(* Concatenations *)

(* g[i] is the concatenation of the first i sequences of s.                 *)
Joins(g, s, n) == \A i \in 1..n : g[i] = IF i = 1 THEN s[i] ELSE g[i - 1] \o s[i]

(* There is a function that joins the sequences of s one by one.            *)
LEMMA JoinsExist ==
  ASSUME NEW s, NEW N \in Nat
  PROVE  \E g : Joins(g, s, N)
<1> DEFINE B == {n \in Nat : ~\E g : Joins(g, s, n)}
<1> SUFFICES ASSUME B # {} PROVE FALSE
  OBVIOUS
<1>1. PICK n \in B : \A m \in B : n <= m
  BY LeastFailure
<1>2. CASE n = 0
  <2>1. \A g : Joins(g, s, 0)
    BY DEF Joins
  <2> QED
    BY <1>1, <1>2, <2>1
<1>3. CASE n # 0
  <2>1. n - 1 \in Nat /\ n - 1 \notin B
    BY <1>1, <1>3
  <2>2. PICK g : Joins(g, s, n - 1)
    BY <2>1
  <2> DEFINE h == [i \in 1..n |-> IF i = 1 THEN s[i] ELSE g[i - 1] \o s[i]]
  <2>3. \A i \in 1..(n - 1) : h[i] = g[i]
    BY <1>3, <2>1, <2>2 DEF Joins
  <2>4. ASSUME NEW i \in 1..n, i # 1 PROVE h[i] = g[i - 1] \o s[i] /\ h[i - 1] = g[i - 1]
    <3>1. i - 1 \in 1..(n - 1)
      BY <2>1, <2>4
    <3> QED
      BY <2>3, <2>4, <3>1
  <2>5. \A i \in 1..n : i = 1 => h[i] = s[i]
    OBVIOUS
  <2>6. Joins(h, s, n)
    <3> HIDE DEF h
    <3> QED
      BY <2>4, <2>5 DEF Joins
  <2> QED
    BY <1>1, <2>6
<1> QED
  BY <1>2, <1>3

(* What is joined is what the recursion says.                               *)
LEMMA FlattenUnfolds ==
  ASSUME NEW T, NEW s \in Seq(T), s # <<>>
  PROVE  \E g : Joins(g, s, Len(s)) /\ FlattenSeq(s) = g[Len(s)]
<1> DEFINE Is(g) == g = [i \in 1..Len(s) |-> IF i = 1 THEN s[i] ELSE g[i - 1] \o s[i]]
           joined == CHOOSE g : Is(g)
<1>1. FlattenSeq(s) = joined[Len(s)]
  BY DEF FlattenSeq
<1>2. \E g : Is(g)
  <2>1. PICK g : Joins(g, s, Len(s))
    BY JoinsExist
  <2> DEFINE h == [i \in 1..Len(s) |-> g[i]]
  <2>2. \A i \in 1..Len(s) : g[i] = IF i = 1 THEN s[i] ELSE h[i - 1] \o s[i]
    BY <2>1 DEF Joins
  <2>3. Is(h)
    BY <2>2
  <2> QED
    BY <2>3
<1>3. Is(joined)
  <2> HIDE DEF Is
  <2> QED
    BY <1>2
<1>4. Joins(joined, s, Len(s))
  <2> HIDE DEF joined
  <2> QED
    BY <1>3 DEF Joins
<1> QED
  BY <1>1, <1>4

(* Sequences join to a sequence of the same elements.                       *)
LEMMA JoinsType ==
  ASSUME NEW C, NEW s \in Seq(Seq(C)), NEW g, NEW n \in 0..Len(s), Joins(g, s, n)
  PROVE  \A i \in 1..n : g[i] \in Seq(C)
<1> DEFINE B == {i \in 1..n : g[i] \notin Seq(C)}
<1> SUFFICES ASSUME B # {} PROVE FALSE
  OBVIOUS
<1>0. B \subseteq Nat
  OBVIOUS
<1>1. PICK i \in B : \A j \in B : i <= j
  BY <1>0, LeastFailure
<1>2. s[i] \in Seq(C) /\ i \in 1..n
  OBVIOUS
<1>3. CASE i = 1
  BY <1>2, <1>3 DEF Joins
<1>4. CASE i # 1
  <2>1. i - 1 \in 1..n /\ i - 1 \notin B
    BY <1>1, <1>2, <1>4
  <2>2. g[i - 1] \in Seq(C)
    BY <2>1
  <2>3. g[i] = g[i - 1] \o s[i]
    BY <1>2, <1>4 DEF Joins
  <2>4. g[i - 1] \o s[i] \in Seq(C)
    BY <1>2, <2>2, ConcatProperties
  <2> QED
    BY <2>3, <2>4
<1> QED
  BY <1>3, <1>4

(* Nothing is the concatenation of nothing.                                 *)
LEMMA FlattenNothing == FlattenSeq(<<>>) = <<>>
BY DEF FlattenSeq

(* A concatenation is a sequence, and one more sequence goes behind it.     *)
LEMMA FlattenMore ==
  ASSUME NEW C, NEW s \in Seq(Seq(C)), NEW e \in Seq(C)
  PROVE  /\ FlattenSeq(s) \in Seq(C)
         /\ FlattenSeq(Append(s, e)) = FlattenSeq(s) \o e
<1>1. ASSUME NEW t \in Seq(Seq(C)) PROVE FlattenSeq(t) \in Seq(C)
  <2>1. CASE t = <<>>
    <3>1. <<>> \in Seq(C)
      OBVIOUS
    <3> QED
      BY <2>1, <3>1, FlattenNothing
  <2>2. CASE t # <<>>
    <3>1. PICK g : Joins(g, t, Len(t)) /\ FlattenSeq(t) = g[Len(t)]
      BY <2>2, FlattenUnfolds
    <3>2. Len(t) \in 1..Len(t) /\ Len(t) \in 0..Len(t)
      BY <2>2
    <3>3. \A i \in 1..Len(t) : g[i] \in Seq(C)
      BY <3>1, <3>2, JoinsType
    <3> QED
      BY <3>1, <3>2, <3>3
  <2> QED
    BY <2>1, <2>2
<1>a. PICK m \in Seq(Seq(C)) : m = Append(s, e)
  <2>1. Append(s, e) \in Seq(Seq(C))
    BY AppendProperties
  <2> QED
    BY <2>1
<1>b. PICK k \in Nat : k = Len(s)
  OBVIOUS
<1>2. m # <<>> /\ Len(m) = k + 1
  BY <1>a, <1>b
<1>3. m[k + 1] = e /\ \A i \in 1..k : m[i] = s[i]
  BY <1>a, <1>b
<1>4. PICK h : Joins(h, m, k + 1) /\ FlattenSeq(m) = h[k + 1]
  BY <1>2, FlattenUnfolds
<1>5. CASE s = <<>>
  <2>1. k = 0
    BY <1>5, <1>b
  <2>2. FlattenSeq(m) = e
    BY <1>2, <1>3, <1>4, <2>1 DEF Joins
  <2>3. <<>> \o e = e
    BY ConcatEmptySeq
  <2>4. FlattenSeq(s) \in Seq(C) /\ FlattenSeq(s) = <<>>
    BY <1>1, <1>5, FlattenNothing
  <2> QED
    BY <2>2, <2>3, <2>4, <1>a
<1>6. CASE s # <<>>
  <2>1. PICK g : Joins(g, s, k) /\ FlattenSeq(s) = g[k]
    BY <1>6, <1>b, FlattenUnfolds
  <2>2. k # 0
    BY <1>6, <1>b
  <2>3. \A i \in 1..k : s[i] = m[i]
    BY <1>3
  <2>4. k \in Nat /\ Joins(g, s, k) /\ Joins(h, m, k + 1)
    BY <1>2, <1>4, <2>1
  <2>5. \A i \in 1..k : g[i] = h[i]
    <3> DEFINE B == {i \in 1..k : g[i] # h[i]}
    <3> SUFFICES ASSUME B # {} PROVE FALSE
      OBVIOUS
    <3>1. B \subseteq Nat
      OBVIOUS
    <3>2. PICK i \in B : \A j \in B : i <= j
      BY <3>1, LeastFailure
    <3>3. i \in 1..k /\ i \in 1..(k + 1) /\ s[i] = m[i]
      BY <2>3
    <3>4. CASE i = 1
      BY <2>4, <3>3, <3>4 DEF Joins
    <3>5. CASE i # 1
      <4>1. PICK j \in Nat : j = i - 1
        BY <3>3, <3>5
      <4>2. j \in 1..k /\ ~(i <= j)
        BY <3>3, <3>5, <4>1
      <4>3. j \notin B
        <5> HIDE DEF B
        <5> QED
          BY <3>2, <4>2
      <4>4. g[i - 1] = h[i - 1]
        BY <4>1, <4>2, <4>3
      <4> QED
        BY <2>4, <3>3, <3>5, <4>4 DEF Joins
    <3> QED
      BY <3>4, <3>5
  <2>6. h[k + 1] = h[k] \o m[k + 1]
    <3>1. k + 1 # 1 /\ k + 1 \in 1..(k + 1) /\ (k + 1) - 1 = k
      BY <2>2
    <3> QED
      BY <2>4, <3>1 DEF Joins
  <2>7. g[k] = h[k]
    BY <2>2, <2>5
  <2> QED
    BY <1>1, <1>3, <1>4, <2>1, <2>6, <2>7, <1>a
<1> QED
  BY <1>5, <1>6

(* The concatenation of two runs of sequences.                              *)
LEMMA FlattenBoth ==
  ASSUME NEW C, NEW s \in Seq(Seq(C)), NEW t \in Seq(Seq(C))
  PROVE  FlattenSeq(s \o t) = FlattenSeq(s) \o FlattenSeq(t)
<1> DEFINE Bad(u) == FlattenSeq(s \o u) # FlattenSeq(s) \o FlattenSeq(u)
           B == {Len(u) : u \in {v \in Seq(Seq(C)) : Bad(v)}}
<1> SUFFICES ASSUME B # {} PROVE FALSE
  OBVIOUS
<1>1. B \subseteq Nat
  OBVIOUS
<1>2. PICK n \in B : \A m \in B : n <= m
  BY <1>1, LeastFailure
<1>3. PICK u \in Seq(Seq(C)) : Bad(u) /\ Len(u) = n
  BY <1>2
<1> HIDE DEF B
<1>4. FlattenSeq(s) \in Seq(C)
  BY <<>> \in Seq(C), FlattenMore
<1>5. CASE u = <<>>
  <2>1. s \o <<>> = s /\ FlattenSeq(s) \o <<>> = FlattenSeq(s)
    BY <1>4
  <2> QED
    BY <1>3, <1>5, <2>1, FlattenNothing
<1>6. CASE u # <<>>
  <2>1. PICK v \in Seq(Seq(C)), e \in Seq(C) : u = Append(v, e)
    BY <1>6, SequenceEmptyOrAppend
  <2>0. n = Len(v) + 1 /\ Len(v) \in Nat
    BY <1>3, <2>1, AppendProperties
  <2>2. ~Bad(v)
    <3>1. Len(v) \notin B
      BY <1>2, <2>0
    <3> QED
      BY <3>1 DEF B
  <2>3. s \o v \in Seq(Seq(C)) /\ s \o u = Append(s \o v, e)
    <3>1. s \o v \in Seq(Seq(C)) /\ <<e>> \in Seq(Seq(C))
      BY ConcatProperties
    <3>2. u = v \o <<e>> /\ Append(s \o v, e) = (s \o v) \o <<e>>
      BY <2>1, <3>1, AppendIsConcat
    <3>3. (s \o v) \o <<e>> = s \o (v \o <<e>>)
      <4>1. PICK last \in Seq(Seq(C)) : last = <<e>>
        BY <3>1
      <4>2. (s \o v) \o last = s \o (v \o last)
        OBVIOUS
      <4> QED
        BY <4>1, <4>2
    <3> QED
      BY <3>1, <3>2, <3>3
  <2>4. FlattenSeq(s \o u) = FlattenSeq(s \o v) \o e
    BY <2>3, FlattenMore
  <2>5. FlattenSeq(u) = FlattenSeq(v) \o e /\ FlattenSeq(v) \in Seq(C)
    BY <2>1, FlattenMore
  <2>6. (FlattenSeq(s) \o FlattenSeq(v)) \o e = FlattenSeq(s) \o (FlattenSeq(v) \o e)
    <3>1. PICK a \in Seq(C), b \in Seq(C) : a = FlattenSeq(s) /\ b = FlattenSeq(v)
      BY <1>4, <2>5
    <3>2. (a \o b) \o e = a \o (b \o e)
      OBVIOUS
    <3> QED
      BY <3>1, <3>2
  <2> QED
    BY <1>3, <2>2, <2>4, <2>5, <2>6
<1> QED
  BY <1>5, <1>6

-----------------------------------------------------------------------------
UserMsg == {User(u) : u \in Msg}
BashMsg == {BashResult(b) : b \in Bash}

(* Some of the last n + 1 entries has not failed, or is the last before a   *)
(* retry was cancelled.                                                     *)
Fine(es, cs, n) ==
  \A i \in DOMAIN es : i + n <= Len(es) =>
    \E j \in i..Len(es) : es[j].ended # "error" \/ j \in cs

(* RetriesEnd of a branch and the places where retries were cancelled.      *)
Bounded(es, cs) ==
  \A i \in DOMAIN es : i + MaxRetries + 1 <= Len(es) =>
    \/ \E j \in i..(i + MaxRetries + 1) : es[j].ended # "error"
    \/ \E j \in i..(i + MaxRetries) : j \in cs

FailedLast(ms) == EndsWithReply(ms) /\ Last(ms).ended = "error"

(* No request can follow that is not counted: the last have been, or the    *)
(* transcript ends with the failure and only a message is an occasion.      *)
Settled(ms, es, cs, n) == Fine(es, cs, n) \/ FailedLast(ms)

(* A message may be put behind others: a result has its call there.         *)
Follows(ms, m) ==
  m.is = "toolResult" =>
    /\ ms # <<>>
    /\ \/ Last(ms).is = "toolResult" /\ Last(ms).n = m.n - 1
       \/ Last(ms).is = "assistant" /\ m.n = 1 /\ Last(ms).n > 0

(* An entry from which a compaction may keep; those from which one has kept.*)
MayKeep(es, k) == k \in 1..Len(es) /\ es[k].is # "toolResult"
Sound(es) == \A i \in DOMAIN es : es[i].is = "compaction" => es[i].n \in 1..Len(es)

----------------------------------------------------------------------------
(* Messages *)

(* What clients and their commands say are messages, and no failures.       *)
LEMMA Said ==
  /\ \A m \in UserMsg : m \in SessionMessage /\ m.is = "user" /\ m.ended = "" /\ m.id \in Msg
  /\ \A m \in BashMsg : m \in SessionMessage /\ m.is = "bash" /\ m.ended = ""
  /\ Seq(UserMsg) \subseteq Seq(SessionMessage)
  /\ Seq(BashMsg) \subseteq Seq(SessionMessage)
<1>1. \A m \in UserMsg : m \in SessionMessage /\ m.is = "user" /\ m.ended = "" /\ m.id \in Msg
  <2> SUFFICES ASSUME NEW u \in Msg
               PROVE  User(u) \in SessionMessage /\ User(u).is = "user" /\ User(u).ended = "" /\ User(u).id \in Msg
    BY DEF UserMsg
  <2> QED
    BY DEF User, Message, SessionMessage
<1>2. \A m \in BashMsg : m \in SessionMessage /\ m.is = "bash" /\ m.ended = ""
  <2> SUFFICES ASSUME NEW b \in Bash
               PROVE  BashResult(b) \in SessionMessage /\ BashResult(b).is = "bash" /\ BashResult(b).ended = ""
    BY DEF BashMsg
  <2> QED
    BY DEF BashResult, Message, SessionMessage
<1>3. UserMsg \subseteq SessionMessage /\ BashMsg \subseteq SessionMessage
  BY <1>1, <1>2
<1>4. \A q \in Seq(UserMsg) : q \in Seq(SessionMessage)
  BY <1>3
<1>5. \A q \in Seq(BashMsg) : q \in Seq(SessionMessage)
  BY <1>3
<1> QED
  BY <1>1, <1>2, <1>4, <1>5

(* A message behind a sequence.                                             *)
LEMMA Appended ==
  ASSUME NEW es \in Seq(SessionMessage), NEW m \in SessionMessage
  PROVE  /\ Append(es, m) \in Seq(SessionMessage)
         /\ Len(Append(es, m)) = Len(es) + 1 /\ Len(es) \in Nat
         /\ Append(es, m)[Len(es) + 1] = m /\ Last(Append(es, m)) = m
         /\ \A i \in 1..Len(es) : Append(es, m)[i] = es[i]
         /\ Append(es, m) # <<>>
<1>1. Len(Append(es, m)) = Len(es) + 1 /\ Len(es) \in Nat /\ Append(es, m)[Len(es) + 1] = m
  OBVIOUS
<1> QED
  BY <1>1 DEF Last

(* A success, or what is no reply, behind a branch.                         *)
LEMMA FineAfter ==
  ASSUME NEW es \in Seq(SessionMessage), NEW m \in SessionMessage, m.ended # "error",
         NEW cs, MaxRetries \in Nat
  PROVE  Fine(Append(es, m), cs, 0) /\ (Bounded(es, cs) => Bounded(Append(es, m), cs))
<1> DEFINE fs == Append(es, m)
<1>1. fs \in Seq(SessionMessage) /\ Len(fs) = Len(es) + 1 /\ Len(es) \in Nat
      /\ fs[Len(es) + 1] = m /\ \A i \in 1..Len(es) : fs[i] = es[i]
  BY Appended
<1>2. DOMAIN es = 1..Len(es) /\ DOMAIN fs = 1..(Len(es) + 1)
  BY <1>1
<1> HIDE DEF fs
<1>3. Fine(fs, cs, 0)
  <2> SUFFICES ASSUME NEW i \in 1..(Len(es) + 1)
               PROVE  \E j \in i..Len(fs) : fs[j].ended # "error" \/ j \in cs
    BY <1>2 DEF Fine
  <2>1. Len(fs) \in i..Len(fs) /\ fs[Len(fs)].ended # "error"
    BY <1>1
  <2> QED
    BY <2>1
<1>4. ASSUME Bounded(es, cs) PROVE Bounded(fs, cs)
  <2> SUFFICES ASSUME NEW i \in 1..(Len(es) + 1), i + MaxRetries + 1 <= Len(es) + 1
               PROVE  \/ \E j \in i..(i + MaxRetries + 1) : fs[j].ended # "error"
                      \/ \E j \in i..(i + MaxRetries) : j \in cs
    BY <1>1, <1>2 DEF Bounded
  <2>1. CASE i + MaxRetries + 1 = Len(es) + 1
    <3>1. Len(es) + 1 \in i..(i + MaxRetries + 1)
      BY <2>1, <1>1
    <3> QED
      BY <3>1, <1>1
  <2>2. CASE i + MaxRetries + 1 <= Len(es)
    <3>1. i \in 1..Len(es)
      BY <2>2, <1>1
    <3>2. \A j \in i..(i + MaxRetries + 1) : fs[j] = es[j]
      BY <2>2, <1>1
    <3> QED
      BY <3>1, <3>2, <2>2, <1>2, <1>4 DEF Bounded
  <2> QED
    BY <2>1, <2>2, <1>1
<1> QED
  BY <1>3, <1>4 DEF fs

(* A failure behind a branch.                                               *)
LEMMA FineAfterFailure ==
  ASSUME NEW es \in Seq(SessionMessage), NEW m \in SessionMessage, NEW cs, MaxRetries \in Nat,
         NEW n \in 0..MaxRetries, Fine(es, cs, n)
  PROVE  Fine(Append(es, m), cs, n + 1) /\ (Bounded(es, cs) => Bounded(Append(es, m), cs))
<1> DEFINE fs == Append(es, m)
<1>1. fs \in Seq(SessionMessage) /\ Len(fs) = Len(es) + 1 /\ Len(es) \in Nat
      /\ \A i \in 1..Len(es) : fs[i] = es[i]
  BY Appended
<1>2. DOMAIN es = 1..Len(es) /\ DOMAIN fs = 1..(Len(es) + 1)
  BY <1>1
<1> HIDE DEF fs
<1>3. ASSUME NEW i \in 1..(Len(es) + 1), i + n + 1 <= Len(es) + 1
      PROVE  \E j \in i..Len(es) : fs[j].ended # "error" \/ j \in cs
  <2>1. i \in 1..Len(es) /\ i + n <= Len(es)
    BY <1>1, <1>3
  <2>2. PICK j \in i..Len(es) : es[j].ended # "error" \/ j \in cs
    BY <2>1, <1>2 DEF Fine
  <2>3. fs[j] = es[j]
    BY <2>1, <2>2, <1>1
  <2> QED
    BY <2>2, <2>3
<1>4. Fine(fs, cs, n + 1)
  <2> SUFFICES ASSUME NEW i \in 1..(Len(es) + 1), i + (n + 1) <= Len(es) + 1
               PROVE  \E j \in i..(Len(es) + 1) : fs[j].ended # "error" \/ j \in cs
    BY <1>1, <1>2 DEF Fine
  <2>1. i + n + 1 <= Len(es) + 1
    OBVIOUS
  <2>2. PICK j \in i..Len(es) : fs[j].ended # "error" \/ j \in cs
    BY <1>3, <2>1
  <2>3. j \in i..(Len(es) + 1)
    BY <1>1, <2>2
  <2> QED
    BY <2>2, <2>3
<1>5. ASSUME Bounded(es, cs) PROVE Bounded(fs, cs)
  <2> SUFFICES ASSUME NEW i \in 1..(Len(es) + 1), i + MaxRetries + 1 <= Len(es) + 1
               PROVE  \/ \E j \in i..(i + MaxRetries + 1) : fs[j].ended # "error"
                      \/ \E j \in i..(i + MaxRetries) : j \in cs
    BY <1>1, <1>2 DEF Bounded
  <2>1. CASE i + MaxRetries + 1 = Len(es) + 1
    <3>1. i + n + 1 <= Len(es) + 1 /\ i + MaxRetries = Len(es)
      BY <2>1, <1>1
    <3>2. PICK j \in i..Len(es) : fs[j].ended # "error" \/ j \in cs
      BY <1>3, <3>1
    <3>3. j \in i..(i + MaxRetries) /\ j \in i..(i + MaxRetries + 1)
      BY <3>1, <3>2
    <3> QED
      BY <3>2, <3>3
  <2>2. CASE i + MaxRetries + 1 <= Len(es)
    <3>1. i \in 1..Len(es)
      BY <2>2, <1>1
    <3>2. \A j \in i..(i + MaxRetries + 1) : fs[j] = es[j]
      <4> SUFFICES ASSUME NEW j \in i..(i + MaxRetries + 1) PROVE fs[j] = es[j]
        OBVIOUS
      <4>1. j \in 1..Len(es)
        BY <2>2, <3>1, <1>1
      <4> QED
        BY <4>1, <1>1
    <3> QED
      BY <3>1, <3>2, <2>2, <1>2, <1>5 DEF Bounded
  <2> QED
    BY <2>1, <2>2, <1>1
<1> QED
  BY <1>4, <1>5 DEF fs

(* What is fine remains so with a longer count and more cancelled retries.  *)
LEMMA FineMore ==
  ASSUME NEW es \in Seq(SessionMessage), NEW cs, NEW ds, cs \subseteq ds, MaxRetries \in Nat
  PROVE  /\ \A n \in Nat, k \in Nat : n <= k /\ Fine(es, cs, n) => Fine(es, ds, k)
         /\ Bounded(es, cs) => Bounded(es, ds)
         /\ Len(es) \in ds => Fine(es, ds, 0)
<1>1. DOMAIN es = 1..Len(es) /\ Len(es) \in Nat
  OBVIOUS
<1>2. ASSUME NEW n \in Nat, NEW k \in Nat, n <= k, Fine(es, cs, n) PROVE Fine(es, ds, k)
  <2> SUFFICES ASSUME NEW i \in 1..Len(es), i + k <= Len(es)
               PROVE  \E j \in i..Len(es) : es[j].ended # "error" \/ j \in ds
    BY <1>1 DEF Fine
  <2>1. i + n <= Len(es)
    BY <1>1, <1>2
  <2> QED
    BY <2>1, <1>1, <1>2 DEF Fine
<1>3. Bounded(es, cs) => Bounded(es, ds)
  BY DEF Bounded
<1>4. Len(es) \in ds => Fine(es, ds, 0)
  <2> SUFFICES ASSUME Len(es) \in ds, NEW i \in 1..Len(es)
               PROVE  \E j \in i..Len(es) : es[j].ended # "error" \/ j \in ds
    BY <1>1 DEF Fine
  <2>1. Len(es) \in i..Len(es)
    BY <1>1
  <2> QED
    BY <2>1
<1> QED
  BY <1>2, <1>3, <1>4

(* A message behind those it may follow.                                    *)
LEMMA PairedAfter ==
  ASSUME NEW es \in Seq(SessionMessage), NEW m \in SessionMessage, Paired(es), Follows(es, m)
  PROVE  Paired(Append(es, m))
<1> DEFINE fs == Append(es, m)
<1>1. Len(fs) = Len(es) + 1 /\ Len(es) \in Nat /\ fs[Len(es) + 1] = m
      /\ \A i \in 1..Len(es) : fs[i] = es[i]
  BY Appended
<1>2. DOMAIN es = 1..Len(es) /\ DOMAIN fs = 1..(Len(es) + 1)
  BY <1>1
<1>3. Last(es) = es[Len(es)] /\ (es # <<>> => Len(es) \in 1..Len(es))
  BY DEF Last
<1> HIDE DEF fs
<1> SUFFICES ASSUME NEW i \in 1..(Len(es) + 1), fs[i].is = "toolResult"
             PROVE  /\ i > 1
                    /\ \/ fs[i - 1].is = "toolResult" /\ fs[i - 1].n = fs[i].n - 1
                       \/ fs[i - 1].is = "assistant" /\ fs[i].n = 1 /\ fs[i - 1].n > 0
  BY <1>2 DEF Paired, fs
<1>4. CASE i = Len(es) + 1
  <2>1. m.is = "toolResult"
    BY <1>1, <1>4
  <2>2. es # <<>> /\ i - 1 = Len(es) /\ fs[i - 1] = Last(es) /\ i > 1
    BY <2>1, <1>1, <1>3, <1>4 DEF Follows
  <2> QED
    BY <2>1, <2>2, <1>1, <1>4 DEF Follows
<1>5. CASE i \in 1..Len(es)
  <2>1. es[i].is = "toolResult" /\ i \in DOMAIN es
    BY <1>1, <1>2, <1>5
  <2>2. i > 1 /\ i - 1 \in 1..Len(es)
    BY <2>1, <1>1, <1>5 DEF Paired
  <2>3. fs[i] = es[i] /\ fs[i - 1] = es[i - 1]
    BY <2>2, <1>1, <1>5
  <2> QED
    BY <2>1, <2>2, <2>3 DEF Paired
<1> QED
  BY <1>1, <1>4, <1>5

(* The results of commands behind a sequence.                               *)
LEMMA Flushed ==
  ASSUME NEW es \in Seq(SessionMessage), NEW bash \in Seq(BashMsg), NEW cs, MaxRetries \in Nat
  PROVE  /\ es \o bash \in Seq(SessionMessage)
         /\ bash = <<>> => es \o bash = es
         /\ bash # <<>> => Fine(es \o bash, cs, 0)
         /\ Bounded(es, cs) => Bounded(es \o bash, cs)
         /\ Paired(es) => Paired(es \o bash)
         /\ Sound(es) => Sound(es \o bash)
         /\ Len(es) <= Len(es \o bash)
         /\ \A i \in 1..Len(es) : (es \o bash)[i] = es[i]
<1> DEFINE fs == es \o bash
<1>0. bash \in Seq(SessionMessage) /\ \A i \in 1..Len(bash) : bash[i].is = "bash" /\ bash[i].ended = ""
  <2>1. \A i \in 1..Len(bash) : bash[i] \in BashMsg
    OBVIOUS
  <2> QED
    BY <2>1, Said
<1>1. /\ fs \in Seq(SessionMessage) /\ Len(fs) = Len(es) + Len(bash) /\ Len(es) \in Nat /\ Len(bash) \in Nat
      /\ \A i \in 1..Len(es) : fs[i] = es[i]
      /\ \A i \in (Len(es) + 1)..Len(fs) : fs[i] = bash[i - Len(es)]
  <2>1. /\ es \o bash \in Seq(SessionMessage)
        /\ Len(es \o bash) = Len(es) + Len(bash)
        /\ \A i \in 1 .. Len(es) + Len(bash) : (es \o bash)[i] =
                     IF i <= Len(es) THEN es[i] ELSE bash[i - Len(es)]
    BY <1>0, ConcatProperties
  <2>2. Len(es) \in Nat /\ Len(bash) \in Nat
    OBVIOUS
  <2> HIDE DEF fs
  <2> QED
    BY <2>1, <2>2 DEF fs
<1>2. \A i \in (Len(es) + 1)..Len(fs) : fs[i].is = "bash" /\ fs[i].ended = ""
  <2> SUFFICES ASSUME NEW i \in (Len(es) + 1)..Len(fs) PROVE fs[i].is = "bash" /\ fs[i].ended = ""
    OBVIOUS
  <2>1. i - Len(es) \in 1..Len(bash)
    BY <1>1
  <2> QED
    BY <2>1, <1>0, <1>1
<1>3. DOMAIN es = 1..Len(es) /\ DOMAIN fs = 1..Len(fs)
  BY <1>1
<1>4. bash = <<>> => fs = es
  BY <1>0
<1>5. bash # <<>> => Len(bash) > 0
  <2>1. bash # <<>> => Len(bash) \in Nat \ {0}
    BY EmptySeq
  <2> QED
    BY <2>1
<1> HIDE DEF fs
<1>6. ASSUME bash # <<>> PROVE Fine(fs, cs, 0)
  <2>0. Len(fs) \in (Len(es) + 1)..Len(fs)
    BY <1>1, <1>5, <1>6
  <2>1. fs[Len(fs)].ended # "error"
    BY <1>2, <2>0
  <2> SUFFICES ASSUME NEW i \in 1..Len(fs) PROVE \E j \in i..Len(fs) : fs[j].ended # "error" \/ j \in cs
    BY <1>3 DEF Fine
  <2>2. Len(fs) \in i..Len(fs)
    BY <1>1
  <2> QED
    BY <2>1, <2>2
<1>7. ASSUME Bounded(es, cs) PROVE Bounded(fs, cs)
  <2> SUFFICES ASSUME NEW i \in 1..Len(fs), i + MaxRetries + 1 <= Len(fs)
               PROVE  \/ \E j \in i..(i + MaxRetries + 1) : fs[j].ended # "error"
                      \/ \E j \in i..(i + MaxRetries) : j \in cs
    BY <1>3 DEF Bounded
  <2>1. CASE i + MaxRetries + 1 > Len(es)
    <3>1. i + MaxRetries + 1 \in (Len(es) + 1)..Len(fs) /\ i + MaxRetries + 1 \in i..(i + MaxRetries + 1)
      BY <2>1, <1>1
    <3> QED
      BY <3>1, <1>2
  <2>2. CASE i + MaxRetries + 1 <= Len(es)
    <3>1. i \in 1..Len(es)
      BY <2>2, <1>1
    <3>2. \A j \in i..(i + MaxRetries + 1) : fs[j] = es[j]
      <4> SUFFICES ASSUME NEW j \in i..(i + MaxRetries + 1) PROVE fs[j] = es[j]
        OBVIOUS
      <4>1. j \in 1..Len(es)
        BY <2>2, <3>1, <1>1
      <4> QED
        BY <4>1, <1>1
    <3> QED
      BY <3>1, <3>2, <2>2, <1>3, <1>7 DEF Bounded
  <2> QED
    BY <2>1, <2>2, <1>1
<1>8. ASSUME Paired(es) PROVE Paired(fs)
  <2> SUFFICES ASSUME NEW i \in 1..Len(fs), fs[i].is = "toolResult"
               PROVE  /\ i > 1
                      /\ \/ fs[i - 1].is = "toolResult" /\ fs[i - 1].n = fs[i].n - 1
                         \/ fs[i - 1].is = "assistant" /\ fs[i].n = 1 /\ fs[i - 1].n > 0
    BY <1>3 DEF Paired
  <2>1. i \in 1..Len(es)
    <3>1. i \notin (Len(es) + 1)..Len(fs)
      BY <1>2
    <3> QED
      BY <3>1, <1>1
  <2>2. es[i].is = "toolResult" /\ i \in DOMAIN es
    BY <2>1, <1>1, <1>3
  <2>3. i > 1 /\ i - 1 \in 1..Len(es)
    BY <2>1, <2>2, <1>1, <1>8 DEF Paired
  <2>4. fs[i] = es[i] /\ fs[i - 1] = es[i - 1]
    BY <2>1, <2>3, <1>1
  <2> QED
    BY <2>2, <2>3, <2>4, <1>8 DEF Paired
<1>9. ASSUME Sound(es) PROVE Sound(fs)
  <2> SUFFICES ASSUME NEW i \in 1..Len(fs), fs[i].is = "compaction" PROVE fs[i].n \in 1..Len(fs)
    BY <1>3 DEF Sound
  <2>1. i \in 1..Len(es)
    <3>1. i \notin (Len(es) + 1)..Len(fs)
      BY <1>2
    <3> QED
      BY <3>1, <1>1
  <2>2. es[i].n \in 1..Len(es) /\ fs[i] = es[i]
    BY <2>1, <1>1, <1>3, <1>9 DEF Sound
  <2> QED
    BY <2>2, <1>1
<1>10. Len(es) <= Len(fs)
  BY <1>1
<1> QED
  BY <1>1, <1>4, <1>6, <1>7, <1>8, <1>9, <1>10 DEF fs

(* The transcript without its last reply.                                   *)
LEMMA Shortened ==
  ASSUME NEW ms \in Seq(SessionMessage)
  PROVE  /\ WithoutReply(ms) \in Seq(SessionMessage) /\ (Paired(ms) => Paired(WithoutReply(ms)))
         /\ WithoutError(ms) \in Seq(SessionMessage) /\ (Paired(ms) => Paired(WithoutError(ms)))
         /\ ~EndsWithReply(ms) => WithoutReply(ms) = ms
<1>1. ASSUME ms # <<>> PROVE Front(ms) \in Seq(SessionMessage) /\ (Paired(ms) => Paired(Front(ms)))
  <2>1. Len(ms) \in Nat \ {0} /\ DOMAIN ms = 1..Len(ms)
    BY <1>1, EmptySeq
  <2>0. Len(ms) - 1 \in Nat
    BY <2>1
  <2>2. PICK k \in Nat : k = Len(ms) - 1
    BY <2>0
  <2>3. k \in 0..Len(ms) /\ Front(ms) = SubSeq(ms, 1, k)
    BY <2>1, <2>2 DEF Front
  <2>4. SubSeq(ms, 1, k) \in Seq(SessionMessage) /\ Len(SubSeq(ms, 1, k)) = k
        /\ \A i \in 1..k : SubSeq(ms, 1, k)[i] = ms[i]
    BY <2>1, <2>3
  <2>5. PICK fs \in Seq(SessionMessage) : fs = Front(ms) /\ Len(fs) = k /\ \A i \in 1..k : fs[i] = ms[i]
    BY <2>3, <2>4
  <2>6. DOMAIN fs = 1..k
    BY <2>5
  <2>7. ASSUME Paired(ms) PROVE Paired(fs)
    <3> SUFFICES ASSUME NEW i \in 1..k, fs[i].is = "toolResult"
                 PROVE  /\ i > 1
                        /\ \/ fs[i - 1].is = "toolResult" /\ fs[i - 1].n = fs[i].n - 1
                           \/ fs[i - 1].is = "assistant" /\ fs[i].n = 1 /\ fs[i - 1].n > 0
      BY <2>6 DEF Paired
    <3>1. i \in DOMAIN ms /\ ms[i].is = "toolResult"
      BY <2>1, <2>2, <2>5
    <3>2. i > 1 /\ i - 1 \in 1..k
      BY <3>1, <2>2, <2>7 DEF Paired
    <3>3. fs[i] = ms[i] /\ fs[i - 1] = ms[i - 1]
      BY <3>2, <2>5
    <3> QED
      BY <3>1, <3>2, <3>3, <2>7 DEF Paired
  <2> QED
    BY <2>5, <2>7
<1> QED
  BY <1>1 DEF WithoutReply, WithoutError, EndsWithReply

----------------------------------------------------------------------------
(* Compaction *)

(* The newest compaction is one, and later than the others.                 *)
LEMMA NewestIs ==
  ASSUME NEW es \in Seq(SessionMessage), Compactions(es) # {}
  PROVE  /\ Newest(es) \in 1..Len(es) /\ es[Newest(es)].is = "compaction"
         /\ \A j \in Compactions(es) : j <= Newest(es)
<1>1. Compactions(es) \in SUBSET (1..Len(es)) /\ Len(es) \in Nat
  BY DEF Compactions
<1>2. Newest(es) = Max(Compactions(es))
  <2>1. Newest(es) = CHOOSE i \in Compactions(es) : \A j \in Compactions(es) : i >= j
    BY <1>1 DEF Newest
  <2> QED
    BY <2>1 DEF Max
<1>3. Max(Compactions(es)) \in Compactions(es) /\ \A i \in Compactions(es) : Max(Compactions(es)) >= i
  BY <1>1, Greatest
<1>4. Newest(es) \in Compactions(es) /\ \A j \in Compactions(es) : j <= Newest(es)
  BY <1>1, <1>2, <1>3
<1> QED
  BY <1>1, <1>4 DEF Compactions

(* A finite set of numbers has a least one.                                 *)
LEMMA Least ==
  ASSUME NEW S, S \subseteq Nat, S # {}
  PROVE  Min(S) \in S
<1>1. PICK m \in S : \A k \in S : m <= k
  BY LeastFailure
<1> QED
  BY <1>1 DEF Min

(* What prepareCompaction() keeps from is an entry from which a compaction   *)
(* may keep.                                                                *)
LEMMA KeepsFrom ==
  ASSUME NEW es \in Seq(SessionMessage), Sound(es), FirstKept(es) # 0
  PROVE  MayKeep(es, FirstKept(es))
<1>1. Boundary(es) \in Nat /\ Boundary(es) >= 1
  <2>1. CASE Compactions(es) = {}
    BY <2>1 DEF Boundary
  <2>2. CASE Compactions(es) # {}
    <3>1. Newest(es) \in DOMAIN es /\ es[Newest(es)].is = "compaction" /\ Len(es) \in Nat
      BY <2>2, NewestIs
    <3>2. es[Newest(es)].n \in 1..Len(es)
      BY <3>1 DEF Sound
    <3> QED
      BY <2>2, <3>1, <3>2 DEF Boundary
  <2> QED
    BY <2>1, <2>2
<1> DEFINE valid == {i \in Boundary(es)..Len(es) : es[i].is \in {"user", "assistant", "bash"}}
           recent == {i \in valid : Cardinality(MessagesFrom(es, i)) <= KeepRecent}
           enough == Cardinality(MessagesFrom(es, Boundary(es))) >= KeepRecent
<1>2. CutPoint(es) = IF valid = {} THEN Boundary(es)
                     ELSE IF enough /\ recent # {} THEN Min(recent) ELSE Min(valid)
  BY DEF CutPoint
<1>3. FirstKept(es) = CutPoint(es) /\ MessagesFrom(es, Boundary(es)) # MessagesFrom(es, CutPoint(es))
  BY DEF FirstKept
<1>4. \A i \in valid : i \in 1..Len(es) /\ es[i].is # "toolResult"
  <2>1. Len(es) \in Nat
    OBVIOUS
  <2>2. \A i \in valid : i \in Boundary(es)..Len(es) /\ es[i].is # "toolResult"
    OBVIOUS
  <2> HIDE DEF valid
  <2> QED
    BY <1>1, <2>1, <2>2
<1>5. valid \subseteq Nat /\ recent \subseteq valid
  BY <1>4
<1>6. recent # {} => Min(recent) \in valid
  BY <1>5, Least
<1>7. valid # {} => Min(valid) \in valid
  BY <1>5, Least
<1> HIDE DEF valid, recent, enough
<1>8. CutPoint(es) \in valid
  BY <1>2, <1>3, <1>6, <1>7
<1> QED
  BY <1>3, <1>4, <1>8 DEF MayKeep

(* The transcript after a compaction: its summary, and what it keeps.       *)
LEMMA Rebuilt ==
  ASSUME NEW es \in Seq(SessionMessage), NEW m \in SessionMessage, m.is = "compaction", MayKeep(es, m.n)
  PROVE  /\ Context(Append(es, m)) \in Seq(SessionMessage)
         /\ Paired(es) => Paired(Context(Append(es, m)))
<1> DEFINE fs == Append(es, m)
<1>1. fs \in Seq(SessionMessage) /\ Len(fs) = Len(es) + 1 /\ Len(es) \in Nat /\ fs[Len(es) + 1] = m
      /\ \A i \in 1..Len(es) : fs[i] = es[i]
  BY Appended
<1>2. m.n \in 1..Len(es) /\ es[m.n].is # "toolResult"
  BY DEF MayKeep
<1> HIDE DEF fs
<1>3. Newest(fs) = Len(es) + 1 /\ Compactions(fs) # {}
  <2>1. Len(es) + 1 \in Compactions(fs)
    BY <1>1 DEF Compactions
  <2>2. Newest(fs) \in 1..Len(fs) /\ \A j \in Compactions(fs) : j <= Newest(fs)
    BY <1>1, <2>1, NewestIs
  <2> QED
    BY <1>1, <2>1, <2>2
<1>4. Context(fs) = (<<m>> \o SubSeq(fs, m.n, Len(es))) \o SubSeq(fs, Len(es) + 2, Len(es) + 1)
  <2>1. Context(fs) = <<fs[Newest(fs)]>> \o SubSeq(fs, fs[Newest(fs)].n, Newest(fs) - 1)
                                        \o SubSeq(fs, Newest(fs) + 1, Len(fs))
    BY <1>3 DEF Context
  <2>2. Newest(fs) - 1 = Len(es) /\ Newest(fs) + 1 = Len(es) + 2 /\ fs[Newest(fs)] = m
    BY <1>1, <1>3
  <2> QED
    BY <2>1, <2>2, <1>1
<1>5. PICK kept \in Seq(SessionMessage) :
        /\ kept = SubSeq(fs, m.n, Len(es)) /\ Len(kept) = Len(es) - m.n + 1
        /\ \A i \in 1..Len(kept) : kept[i] = es[m.n + i - 1]
  <2>1. /\ SubSeq(fs, m.n, Len(es)) \in Seq(SessionMessage)
        /\ Len(SubSeq(fs, m.n, Len(es))) = IF m.n <= Len(es) THEN Len(es) - m.n + 1 ELSE 0
        /\ \A i \in 1..(Len(es) - m.n + 1) : SubSeq(fs, m.n, Len(es))[i] = fs[m.n + i - 1]
    <3>1. \A i \in m.n..Len(es) : fs[i] \in SessionMessage
      BY <1>1, <1>2
    <3>2. m.n \in Int /\ Len(es) \in Int
      BY <1>1, <1>2
    <3> QED
      BY <3>1, <3>2, SubSeqProperties
  <2>2. PICK kept \in Seq(SessionMessage) : kept = SubSeq(fs, m.n, Len(es))
    BY <2>1
  <2>3. Len(kept) = Len(es) - m.n + 1 /\ \A i \in 1..Len(kept) : kept[i] = fs[m.n + i - 1]
    BY <2>1, <2>2, <1>1, <1>2
  <2>4. \A i \in 1..Len(kept) : m.n + i - 1 \in 1..Len(es)
    BY <2>3, <1>1, <1>2
  <2>5. \A i \in 1..Len(kept) : kept[i] = es[m.n + i - 1]
    BY <2>3, <2>4, <1>1
  <2> QED
    BY <2>2, <2>3, <2>5
<1>6. SubSeq(fs, Len(es) + 2, Len(es) + 1) = <<>>
  <2>1. Len(es) + 2 \in Int /\ Len(es) + 1 \in Int /\ Len(es) + 1 < Len(es) + 2
    BY <1>1
  <2> QED
    BY <2>1, SubSeqEmpty
<1>7. PICK head \in Seq(SessionMessage) : head = <<m>> /\ Len(head) = 1 /\ head[1] = m
  <2>1. <<m>> \in Seq(SessionMessage) /\ Len(<<m>>) = 1 /\ <<m>>[1] = m
    OBVIOUS
  <2> QED
    BY <2>1
<1>8. PICK cs \in Seq(SessionMessage) :
        /\ cs = head \o kept /\ Len(cs) = 1 + Len(kept) /\ cs[1] = m
        /\ \A i \in 2..Len(cs) : cs[i] = kept[i - 1]
  <2>1. /\ head \o kept \in Seq(SessionMessage)
        /\ Len(head \o kept) = Len(head) + Len(kept)
        /\ \A i \in 1 .. Len(head) + Len(kept) : (head \o kept)[i] =
                     IF i <= Len(head) THEN head[i] ELSE kept[i - Len(head)]
    BY ConcatProperties
  <2>2. PICK cs \in Seq(SessionMessage) : cs = head \o kept
    BY <2>1
  <2>3. Len(kept) \in Nat
    OBVIOUS
  <2>4. Len(cs) = 1 + Len(kept) /\ \A i \in 1..(1 + Len(kept)) : cs[i] = IF i <= 1 THEN head[i] ELSE kept[i - 1]
    BY <2>1, <2>2, <1>7
  <2>5. 1 \in 1..(1 + Len(kept)) /\ \A i \in 2..Len(cs) : i \in 1..(1 + Len(kept)) /\ ~(i <= 1)
    BY <2>3, <2>4
  <2>6. cs[1] = m
    BY <2>4, <2>5, <1>7
  <2>7. \A i \in 2..Len(cs) : cs[i] = kept[i - 1]
    BY <2>4, <2>5
  <2> QED
    BY <2>2, <2>4, <2>6, <2>7
<1>9. Context(fs) = cs
  <2>1. cs \o <<>> = cs
    BY ConcatEmptySeq
  <2> QED
    BY <2>1, <1>4, <1>5, <1>6, <1>7, <1>8
<1>10. ASSUME Paired(es) PROVE Paired(cs)
  <2>1. Len(kept) \in Nat /\ DOMAIN cs = 1..Len(cs) /\ DOMAIN es = 1..Len(es)
    BY <1>8
  <2> SUFFICES ASSUME NEW i \in 1..Len(cs), cs[i].is = "toolResult"
               PROVE  /\ i > 1
                      /\ \/ cs[i - 1].is = "toolResult" /\ cs[i - 1].n = cs[i].n - 1
                         \/ cs[i - 1].is = "assistant" /\ cs[i].n = 1 /\ cs[i - 1].n > 0
    BY <2>1 DEF Paired
  <2>2. i \in 2..Len(cs)
    BY <2>1, <1>8
  <2>3. PICK k \in 1..Len(es) : k = m.n + i - 2 /\ cs[i] = es[k]
    <3>1. i - 1 \in 1..Len(kept) /\ m.n + (i - 1) - 1 = m.n + i - 2
      BY <2>1, <2>2, <1>2, <1>8
    <3>2. cs[i] = es[m.n + i - 2]
      BY <2>2, <3>1, <1>5, <1>8
    <3>3. m.n + i - 2 \in 1..Len(es)
      BY <3>1, <1>1, <1>2, <1>5
    <3> QED
      BY <3>2, <3>3
  <2>4. i # 2
    <3>1. i = 2 => k = m.n
      BY <1>2, <2>3
    <3> QED
      BY <3>1, <1>2, <2>3
  <2>5. i - 1 \in 2..Len(cs) /\ (i - 1) - 1 \in 1..Len(kept)
    BY <2>1, <2>2, <2>4, <1>8
  <2>6. cs[i - 1] = es[k - 1]
    <3>1. m.n + ((i - 1) - 1) - 1 = k - 1
      BY <2>1, <2>2, <2>3, <1>2
    <3> QED
      BY <2>5, <3>1, <1>5, <1>8
  <2>7. /\ k > 1
        /\ \/ es[k - 1].is = "toolResult" /\ es[k - 1].n = es[k].n - 1
           \/ es[k - 1].is = "assistant" /\ es[k].n = 1 /\ es[k - 1].n > 0
    BY <2>1, <2>3, <1>10 DEF Paired
  <2> QED
    BY <2>2, <2>3, <2>6, <2>7
<1> QED
  BY <1>9, <1>10 DEF fs

----------------------------------------------------------------------------
(* The invariant *)

Run ==
  [by : Caller \cup {NoCaller}, pc : {"off", "turn", "stream", "answered", "tools", "end"},
   inbox : Seq(UserMsg), poll : BOOLEAN, aborted : BOOLEAN, calls : Nat, prepared : Nat,
   open : SUBSET Nat, sent : Nat, cut : BOOLEAN]
Driver ==
  [pc : {"idle", "starting", "running", "post", "backoff", "cancelled", "compacting", "again"},
   holds : Seq(UserMsg), retry : BOOLEAN, kept : Nat]

(* What is queued and what is on the branch.                                *)
QueuesOK == steering \in Seq(UserMsg) /\ followUp \in Seq(UserMsg)
BranchOK ==
  /\ messages \in Seq(SessionMessage) /\ entries \in Seq(SessionMessage)
  /\ pendingBash \in Seq(BashMsg)
  /\ Sound(entries) /\ cancelled \subseteq 0..Len(entries)

(* A run has a caller, who waits for it; nothing is announced outside of one*)
(* or while a request is out.                                               *)
RunOK ==
  /\ run \in Run /\ (run.by = NoCaller <=> run.pc = "off")
  /\ run.pc # "off" => driver[run.by].pc = "running"
EventOK ==
  /\ event \in [kind : {"none", "start", "end"}, message : SessionMessage, heard : BOOLEAN]
  /\ event.message.is # "compaction" /\ (event.kind = "none" => event = NoEvent)
  /\ event.kind = "start" => event.message \in UserMsg /\ run.pc = "turn"
  /\ run.pc \in {"off", "stream"} => event = NoEvent

(* Callers: who starts a run holds a message, who compacts knows from where.*)
CallerOK(w, es) ==
  /\ w \in Driver
  /\ w.pc = "starting" => w.holds # <<>>
  /\ w.pc = "compacting" => MayKeep(es, w.kept)
DriverOK ==
  /\ driver \in [Caller -> Driver]
  /\ \A d \in Caller : CallerOK(driver[d], entries)
  /\ sleeper \in Caller \cup {NoCaller}
  /\ sleeper \in Caller => driver[sleeper].pc \in {"backoff", "cancelled"}
CompactionOK ==
  /\ compaction \in [pc : {"none", "stopping", "summarizing"}, kept : Nat]
  /\ subscribed \in BOOLEAN /\ (compaction.pc = "none" <=> subscribed)
  /\ compaction.kept # 0 => MayKeep(entries, compaction.kept)

CountsOK ==
  /\ lastAssistant \in SessionMessage
  /\ retryAttempt \in 0..MaxRetries /\ overflowTried \in BOOLEAN /\ astray \in BOOLEAN
HistoryOK ==
  /\ shown \subseteq Msg /\ unheard \subseteq Msg
  /\ fate \in [Msg -> {"unsaid", "sent", "refused", "cleared"}] /\ ran \subseteq Bash

Types ==
  QueuesOK /\ BranchOK /\ RunOK /\ EventOK /\ DriverOK /\ CompactionOK /\ CountsOK /\ HistoryOK

(* What holds of the branch as long as no event goes unheard and no call of  *)
(* prompt() goes on during another's run.                                   *)
InOrder == Paired(messages) /\ Paired(entries) /\ Bounded(entries, cancelled)

(* The reply m that the session has heard last, until its caller looks at it*)
(* after n retries.                                                         *)
Counted(m, ms, es, cs, n) ==
  /\ m.ended = "error" => Fine(es, cs, n + 1) /\ Settled(ms, es, cs, 0)
  /\ m # NoMessage /\ m.ended # "error" => Fine(es, cs, 0)
ReplyCounted == Counted(lastAssistant, messages, entries, cancelled, retryAttempt)

(* A failure that was heard last has ended the run, or its caller is about  *)
(* to look at it.                                                           *)
ReplyWaits == lastAssistant.ended = "error" => run.pc = "end" \/ At("post") # {}

(* What has been announced is heard, and a failure ends the run.            *)
EventCounted ==
  /\ event # NoEvent => event.heard /\ compaction.pc # "summarizing"
  /\ event.kind = "end" =>
       Follows(entries, event.message) /\ messages # <<>> /\ event.message = Last(messages)
  /\ event.kind = "end" /\ event.message.ended = "error" =>
       /\ run.pc = "end" /\ FailedLast(messages)
       /\ Fine(entries, cancelled, retryAttempt)

(* What comes next: a request that is counted, or none without a message.   *)
RunCounted ==
  /\ run.pc = "off" => Settled(messages, entries, cancelled, retryAttempt)
  /\ run.pc = "turn" /\ run.inbox = <<>> /\ event = NoEvent => Fine(entries, cancelled, retryAttempt)
  /\ run.pc = "stream" => Fine(entries, cancelled, retryAttempt)
  /\ run.pc \in {"tools", "answered"} =>
       /\ compaction.pc # "summarizing"
       /\ event = NoEvent => Fine(entries, cancelled, 0)
  /\ run.pc = "end" /\ event = NoEvent => Settled(messages, entries, cancelled, retryAttempt)

(* The next result of a batch has its place, in the transcript and, once    *)
(* the last is persisted, on the branch.                                    *)
BatchPaired ==
  run.pc = "tools" =>
    /\ Follows(messages, ToolResult(run.sent + 1))
    /\ event = NoEvent => Follows(entries, ToolResult(run.sent + 1))

Orderly == InOrder /\ ReplyCounted /\ ReplyWaits /\ EventCounted /\ RunCounted /\ BatchPaired

Inv == Types /\ (~astray => Orderly)

Watched == astray' = (astray \/ Strays)

(* The branch grows.                                                        *)
Grown ==
  /\ entries' \in Seq(SessionMessage) /\ Len(entries) <= Len(entries')
  /\ \A i \in 1..Len(entries) : entries'[i] = entries[i]

----------------------------------------------------------------------------
(* Steps of callers *)

(* Where a caller is after its step: its place, and what it has flushed.    *)
Flushes(ms, es, bash) == State(ms, es, bash) \/ State(ms \o bash, es \o bash, <<>>)
Leaves(d, ms, es, bash) ==
  /\ \E w \in Driver :
       /\ CallerOK(w, es) /\ w.pc \in {"idle", "starting", "again", "compacting"}
       /\ driver' = [driver EXCEPT ![d] = w]
  /\ Flushes(ms, es, bash)

(* A caller that has returned.                                              *)
LEMMA IdleType == Idle \in Driver /\ Idle.pc = "idle"
<1>1. <<>> \in Seq(UserMsg)
  BY EmptySeq
<1> QED
  BY <1>1 DEF Idle, Driver

(* After _checkCompaction() a caller waits, starts, goes on or has returned.*)
LEMMA GoOnLeaves ==
  ASSUME NEW d \in Caller, NEW holds \in Seq(UserMsg), NEW ms, NEW es, NEW bash, GoOn(d, holds, ms, es, bash)
  PROVE  Leaves(d, ms, es, bash)
<1>1. CASE Continues(holds)
  <2>1. PICK pc \in {"again", "starting"} :
          /\ pc = IF holds = <<>> THEN "again" ELSE "starting"
          /\ Goto(d, pc, holds) /\ State(ms, es, bash)
    BY <1>1 DEF GoOn
  <2>0. /\ [Idle EXCEPT !.pc = pc, !.holds = holds] \in Driver
        /\ [Idle EXCEPT !.pc = pc, !.holds = holds].pc = pc
        /\ [Idle EXCEPT !.pc = pc, !.holds = holds].holds = holds
    <3>1. <<>> \in Seq(UserMsg)
      BY EmptySeq
    <3>2. [Idle EXCEPT !.pc = pc, !.holds = holds] \in Driver
      BY <3>1 DEF Idle, Driver
    <3>3. /\ [Idle EXCEPT !.pc = pc, !.holds = holds].pc = pc
          /\ [Idle EXCEPT !.pc = pc, !.holds = holds].holds = holds
      BY DEF Idle
    <3> QED
      BY <3>2, <3>3
  <2>2. PICK w \in Driver : /\ w = [Idle EXCEPT !.pc = pc, !.holds = holds]
                            /\ w.pc = pc /\ w.holds = holds
    BY <2>0
  <2>3. CallerOK(w, es) /\ driver' = [driver EXCEPT ![d] = w]
    BY <2>1, <2>2 DEF CallerOK, Goto
  <2> QED
    BY <2>1, <2>2, <2>3 DEF Leaves, Flushes
<1>2. CASE ~Continues(holds)
  <2>1. driver' = [driver EXCEPT ![d] = Idle] /\ State(ms \o bash, es \o bash, <<>>)
    BY <1>2 DEF GoOn, Return
  <2>2. Idle \in Driver /\ Idle.pc = "idle"
    BY IdleType
  <2>3. CallerOK(Idle, es)
    BY <2>2 DEF CallerOK
  <2> QED
    BY <2>1, <2>2, <2>3 DEF Leaves, Flushes
<1> QED
  BY <1>1, <1>2

(* So has one whose prompt() returns or throws.                             *)
LEMMA ReturnLeaves ==
  ASSUME NEW d \in Caller, NEW ms, NEW es, NEW bash, Return(d, ms, es, bash)
  PROVE  Leaves(d, ms, es, bash)
<1>2. Idle \in Driver /\ Idle.pc = "idle"
  BY IdleType
<1>3. CallerOK(Idle, es)
  BY <1>2 DEF CallerOK
<1> QED
  BY <1>2, <1>3 DEF Return, Leaves, Flushes

(* An automatic compaction is begun, or there is nothing to compact.        *)
LEMMA AutoLeaves ==
  ASSUME NEW d \in Caller, NEW holds \in Seq(UserMsg), NEW retry \in BOOLEAN, NEW ms,
         NEW es \in Seq(SessionMessage), Sound(es), NEW bash, AutoCompact(d, holds, retry, ms, es, bash)
  PROVE  Leaves(d, ms, es, bash)
<1>1. CASE FirstKept(es) = 0
  BY <1>1, GoOnLeaves DEF AutoCompact
<1>2. CASE FirstKept(es) # 0
  <2>1. PICK k : k = FirstKept(es) /\ MayKeep(es, k) /\ k \in Nat
    BY <1>2, KeepsFrom DEF MayKeep
  <2>2. PICK w \in Driver : w = [pc |-> "compacting", holds |-> holds, retry |-> retry, kept |-> k]
    <3>1. [pc |-> "compacting", holds |-> holds, retry |-> retry, kept |-> k] \in Driver
      BY <2>1 DEF Driver
    <3> QED
      BY <3>1
  <2>3. driver' = [driver EXCEPT ![d] = w] /\ State(ms, es, bash)
    BY <1>2, <2>1, <2>2 DEF AutoCompact
  <2>4. CallerOK(w, es) /\ w.pc = "compacting"
    BY <2>1, <2>2 DEF CallerOK
  <2> QED
    BY <2>3, <2>4 DEF Leaves, Flushes
<1> QED
  BY <1>1, <1>2

(* _checkCompaction() drops no reply but one that overflowed.               *)
LEMMA CheckLeaves ==
  ASSUME NEW d \in Caller, NEW m, NEW holds \in Seq(UserMsg), NEW ms,
         NEW es \in Seq(SessionMessage), Sound(es), NEW bash, CheckCompaction(d, m, holds, ms, es, bash),
         overflowTried \in BOOLEAN
  PROVE  /\ overflowTried' \in BOOLEAN
         /\ \/ Leaves(d, ms, es, bash)
            \/ m.ended \in {"overflow", "length"} /\ Leaves(d, WithoutReply(ms), es, bash)
<1>1. \/ GoOn(d, holds, ms, es, bash) /\ UNCHANGED overflowTried
      \/ AutoCompact(d, holds, FALSE, ms, es, bash) /\ UNCHANGED overflowTried
      \/ /\ m.ended \in {"overflow", "length"} /\ overflowTried' = TRUE
         /\ AutoCompact(d, holds, TRUE, WithoutReply(ms), es, bash)
  BY DEF CheckCompaction
<1>2. CASE GoOn(d, holds, ms, es, bash) /\ UNCHANGED overflowTried
  BY <1>2, GoOnLeaves
<1>3. CASE AutoCompact(d, holds, FALSE, ms, es, bash) /\ UNCHANGED overflowTried
  BY <1>3, AutoLeaves
<1>4. CASE /\ m.ended \in {"overflow", "length"} /\ overflowTried' = TRUE
           /\ AutoCompact(d, holds, TRUE, WithoutReply(ms), es, bash)
  BY <1>4, AutoLeaves
<1> QED
  BY <1>1, <1>2, <1>3, <1>4

(* Nor do they disturb what has been counted.                               *)
LEMMA FlushedCounts ==
  ASSUME NEW ms \in Seq(SessionMessage), NEW es \in Seq(SessionMessage), NEW bash \in Seq(BashMsg),
         NEW cs, NEW n \in Nat, MaxRetries \in Nat
  PROVE  /\ Fine(es, cs, n) => Fine(es \o bash, cs, n)
         /\ Settled(ms, es, cs, n) => Settled(ms \o bash, es \o bash, cs, n)
         /\ \A m : Counted(m, ms, es, cs, n) => Counted(m, ms \o bash, es \o bash, cs, n)
<1>1. CASE bash = <<>>
  <2>1. ms \o bash = ms /\ es \o bash = es
    BY <1>1, Flushed
  <2> QED
    BY <2>1
<1>2. CASE bash # <<>>
  <2>1. PICK fs \in Seq(SessionMessage) : fs = es \o bash /\ Fine(fs, cs, 0)
    BY <1>2, Flushed
  <2>2. 0 \in Nat /\ n + 1 \in Nat /\ 0 <= n /\ 0 <= n + 1 /\ cs \subseteq cs
    OBVIOUS
  <2>3. Fine(fs, cs, n) /\ Fine(fs, cs, n + 1)
    BY <2>1, <2>2, FineMore
  <2> QED
    BY <2>1, <2>3 DEF Settled, Counted
<1> QED
  BY <1>1, <1>2

(* What has been flushed leaves the rest in its order.                      *)
LEMMA FlushSettles ==
  ASSUME NEW ms \in Seq(SessionMessage), NEW es \in Seq(SessionMessage), NEW bash \in Seq(BashMsg),
         Sound(es), Flushes(ms, es, bash), MaxRetries \in Nat
  PROVE  /\ messages' \in Seq(SessionMessage) /\ entries' \in Seq(SessionMessage)
         /\ pendingBash' \in Seq(BashMsg) /\ Sound(entries')
         /\ Len(es) <= Len(entries') /\ \A i \in 1..Len(es) : entries'[i] = es[i]
         /\ Paired(ms) => Paired(messages')
         /\ Paired(es) => Paired(entries')
         /\ \A cs :
              /\ Bounded(es, cs) => Bounded(entries', cs)
              /\ \A n \in Nat : /\ Fine(es, cs, n) => Fine(entries', cs, n)
                                /\ Settled(ms, es, cs, n) => Settled(messages', entries', cs, n)
                                /\ \A m : Counted(m, ms, es, cs, n) => Counted(m, messages', entries', cs, n)
<1>0. <<>> \in Seq(BashMsg) /\ Len(es) \in Nat
  BY EmptySeq
<1>1. CASE State(ms, es, bash)
  BY <1>0, <1>1 DEF State
<1>2. CASE State(ms \o bash, es \o bash, <<>>)
  <2>0. messages' = ms \o bash /\ entries' = es \o bash /\ pendingBash' = <<>>
    BY <1>2 DEF State
  <2>1. /\ messages' \in Seq(SessionMessage) /\ entries' \in Seq(SessionMessage)
        /\ Sound(entries') /\ Len(es) <= Len(entries') /\ \A i \in 1..Len(es) : entries'[i] = es[i]
        /\ Paired(ms) => Paired(messages')
        /\ Paired(es) => Paired(entries')
    BY <2>0, Flushed
  <2>2. \A cs : Bounded(es, cs) => Bounded(entries', cs)
    BY <2>0, Flushed
  <2>3. \A cs : \A n \in Nat :
          /\ Fine(es, cs, n) => Fine(entries', cs, n)
          /\ Settled(ms, es, cs, n) => Settled(messages', entries', cs, n)
          /\ \A m : Counted(m, ms, es, cs, n) => Counted(m, messages', entries', cs, n)
    BY <2>0, FlushedCounts
  <2> QED
    BY <1>0, <2>0, <2>1, <2>2, <2>3
<1> QED
  BY <1>1, <1>2 DEF Flushes

(* What callers keep from stays where it was.                               *)
LEMMA GrownKeeps ==
  ASSUME Grown, NEW k, MayKeep(entries, k), entries \in Seq(SessionMessage)
  PROVE  MayKeep(entries', k)
<1>1. Len(entries) \in Nat /\ Len(entries') \in Nat /\ k \in 1..Len(entries)
  BY DEF Grown, MayKeep
<1>2. entries'[k] = entries[k] /\ k \in 1..Len(entries')
  BY <1>1 DEF Grown
<1> QED
  BY <1>2 DEF MayKeep

(* Callers stay where they are, on a branch that grows.                     *)
LEMMA DriverStays ==
  ASSUME Types, Grown, UNCHANGED driver, sleeper' \in {sleeper, NoCaller}
  PROVE  DriverOK'
<1>1. \A d \in Caller : CallerOK(driver[d], entries')
  BY GrownKeeps DEF Types, BranchOK, DriverOK, CallerOK
<1>2. NoCaller \notin Caller
  BY AgentAssumption DEF AgentAssumption
<1> QED
  BY <1>1, <1>2 DEF Types, DriverOK

(* One of them moves.                                                       *)
LEMMA DriverMoves ==
  ASSUME Types, Grown, NEW d \in Caller, NEW w, CallerOK(w, entries'),
         driver' = [driver EXCEPT ![d] = w],
         \/ sleeper' \in {sleeper, NoCaller} /\ sleeper' # d
         \/ sleeper' = d /\ w.pc \in {"backoff", "cancelled"}
  PROVE  DriverOK'
<1>1. driver \in [Caller -> Driver] /\ w \in Driver
  BY DEF Types, DriverOK, CallerOK
<1>2. driver' \in [Caller -> Driver] /\ driver'[d] = w /\ \A e \in Caller : e # d => driver'[e] = driver[e]
  BY <1>1
<1>3. \A e \in Caller : CallerOK(driver[e], entries')
  BY GrownKeeps DEF Types, BranchOK, DriverOK, CallerOK
<1>4. \A e \in Caller : CallerOK(driver'[e], entries')
  BY <1>2, <1>3
<1>5. NoCaller \notin Caller
  BY AgentAssumption DEF AgentAssumption
<1>6. sleeper' \in Caller \cup {NoCaller} /\ (sleeper' \in Caller => driver'[sleeper'].pc \in {"backoff", "cancelled"})
  BY <1>2, <1>5 DEF Types, DriverOK
<1> QED
  BY <1>2, <1>4, <1>6 DEF DriverOK

(* The run's caller does not move.                                          *)
LEMMA RunStays ==
  ASSUME Types, UNCHANGED run,
         \/ UNCHANGED driver
         \/ \E d, w : d \in Caller /\ driver[d].pc # "running" /\ driver' = [driver EXCEPT ![d] = w]
  PROVE  RunOK'
<1>1. driver \in [Caller -> Driver]
  BY DEF Types, DriverOK
<1>2. ASSUME run.pc # "off" PROVE driver'[run.by] = driver[run.by]
  <2>1. run.by \in Caller /\ driver[run.by].pc = "running"
    BY <1>2 DEF Types, RunOK, Run
  <2>2. CASE UNCHANGED driver
    BY <2>2
  <2>3. CASE \E d, w : d \in Caller /\ driver[d].pc # "running" /\ driver' = [driver EXCEPT ![d] = w]
    <3>1. PICK d, w : d \in Caller /\ driver[d].pc # "running" /\ driver' = [driver EXCEPT ![d] = w]
      BY <2>3
    <3>2. d # run.by
      BY <2>1, <3>1
    <3> QED
      BY <1>1, <2>1, <3>1, <3>2
  <2> QED
    BY <2>2, <2>3
<1> QED
  BY <1>2 DEF Types, RunOK

(* The summary that is waited for may still keep what it was to.            *)
LEMMA CompactionStays ==
  ASSUME Types, Grown, UNCHANGED <<compaction, subscribed>>
  PROVE  CompactionOK'
  BY GrownKeeps DEF Types, BranchOK, CompactionOK

(* Whoever moves while another runs goes astray.                            *)
LEMMA Alone ==
  ASSUME Types, NEW d \in Caller, driver[d].pc \notin {"idle", "running"}, driver'[d] # driver[d], ~Strays
  PROVE  run.pc = "off"
<1>1. Idle.pc = "idle"
  BY DEF Idle
<1>2. run.pc # "off" => driver[run.by].pc = "running"
  BY DEF Types, RunOK
<1> QED
  BY <1>1, <1>2 DEF Strays, isStreaming

(* What the history of a step says.                                         *)
LEMMA Watching ==
  ASSUME Inv, Watched
  PROVE  astray' \in BOOLEAN /\ (~astray' => ~astray /\ ~Strays)
<1>1. astray \in BOOLEAN
  BY DEF Inv, Types, CountsOK
<1>2. astray' \in BOOLEAN
  BY <1>1 DEF Watched
<1>3. ~astray' => ~astray /\ ~Strays
  BY DEF Watched
<1> QED
  BY <1>2, <1>3

(* Outside of a run only the transcript, the branch and the last reply are  *)
(* to be in order.                                                          *)
LEMMA RestOrder ==
  ASSUME Types', run'.pc = "off", InOrder', ReplyCounted', ReplyWaits',
         Settled(messages', entries', cancelled', retryAttempt')
  PROVE  Orderly'
<1>1. event' = NoEvent
  BY DEF Types, EventOK
<1>2. event'.kind = "none"
  BY <1>1 DEF NoEvent
<1> QED
  BY <1>1, <1>2 DEF Orderly, EventCounted, RunCounted, BatchPaired

(* A caller leaves its place for another, outside of the run.               *)
LEMMA LeftTypes ==
  ASSUME Types, NEW d \in Caller, driver[d].pc # "running",
         NEW ms \in Seq(SessionMessage), NEW es \in Seq(SessionMessage), NEW bash \in Seq(BashMsg),
         Sound(es), Len(entries) <= Len(es), \A i \in 1..Len(entries) : es[i] = entries[i],
         Leaves(d, ms, es, bash), cancelled' \subseteq 0..Len(es),
         UNCHANGED <<steering, followUp, run, event, subscribed, compaction>>,
         sleeper' \in {sleeper, NoCaller} /\ sleeper' # d,
         CountsOK', HistoryOK'
  PROVE  Types' /\ Grown
<1>0. MaxRetries \in Nat
  BY SessionAssumption DEF SessionAssumption
<1>1. Flushes(ms, es, bash)
  BY DEF Leaves
<1>2. /\ messages' \in Seq(SessionMessage) /\ entries' \in Seq(SessionMessage)
      /\ pendingBash' \in Seq(BashMsg) /\ Sound(entries')
      /\ Len(es) <= Len(entries') /\ \A i \in 1..Len(es) : entries'[i] = es[i]
  BY <1>0, <1>1, FlushSettles
<1>3. Len(entries) \in Nat /\ Len(es) \in Nat /\ Len(entries') \in Nat
  BY <1>2 DEF Types, BranchOK
<1>4. Grown
  BY <1>2, <1>3 DEF Grown
<1>5. BranchOK'
  BY <1>2, <1>3 DEF BranchOK
<1>6. PICK w : /\ CallerOK(w, es) /\ driver' = [driver EXCEPT ![d] = w]
               /\ w.pc \in {"idle", "starting", "again", "compacting"}
  BY DEF Leaves
<1>7. CallerOK(w, entries')
  <2>1. ASSUME NEW k, MayKeep(es, k) PROVE MayKeep(entries', k)
    <3>1. k \in 1..Len(es) /\ es[k].is # "toolResult"
      BY <2>1 DEF MayKeep
    <3>2. entries'[k] = es[k] /\ k \in 1..Len(entries')
      BY <3>1, <1>2, <1>3
    <3> QED
      BY <3>1, <3>2 DEF MayKeep
  <2> QED
    BY <2>1, <1>6 DEF CallerOK
<1>8. DriverOK'
  BY <1>4, <1>6, <1>7, DriverMoves
<1>9. RunOK'
  BY <1>6, RunStays
<1>10. CompactionOK'
  BY <1>4, CompactionStays
<1>11. EventOK' /\ QueuesOK'
  BY DEF Types, EventOK, QueuesOK, NoEvent
<1> QED
  BY <1>4, <1>5, <1>8, <1>9, <1>10, <1>11 DEF Types

(* The order it leaves behind.                                              *)
LEMMA LeftOrder ==
  ASSUME Types', run'.pc = "off",
         NEW ms \in Seq(SessionMessage), NEW es \in Seq(SessionMessage), NEW bash \in Seq(BashMsg),
         Sound(es), Flushes(ms, es, bash),
         Paired(ms), Paired(es), Bounded(es, cancelled'), Settled(ms, es, cancelled', retryAttempt'),
         Counted(lastAssistant', ms, es, cancelled', retryAttempt'), ReplyWaits'
  PROVE  Orderly'
<1>0. MaxRetries \in Nat
  BY SessionAssumption DEF SessionAssumption
<1>1. PICK n \in Nat : n = retryAttempt'
  BY <1>0 DEF Types, CountsOK
<1>2. PICK cs : cs = cancelled'
  OBVIOUS
<1>3. PICK m : m = lastAssistant'
  OBVIOUS
<1>4. Bounded(es, cs) /\ Settled(ms, es, cs, n) /\ Counted(m, ms, es, cs, n)
  BY <1>1, <1>2, <1>3
<1>5. /\ Paired(messages') /\ Paired(entries') /\ Bounded(entries', cs)
      /\ Settled(messages', entries', cs, n) /\ Counted(m, messages', entries', cs, n)
  BY <1>0, <1>4, FlushSettles
<1>6. InOrder' /\ ReplyCounted' /\ Settled(messages', entries', cancelled', retryAttempt')
  BY <1>1, <1>2, <1>3, <1>5 DEF InOrder, ReplyCounted
<1> QED
  BY <1>6, RestOrder

(* The branch has not changed.                                              *)
LEMMA SameBranch ==
  ASSUME Types, UNCHANGED entries
  PROVE  Grown
  BY DEF Types, BranchOK, Grown

(* A caller that is to look at the last reply is still there.               *)
LEMMA PostStays ==
  ASSUME Types, At("post") # {},
         \/ UNCHANGED driver
         \/ \E d, w : d \in Caller /\ driver[d].pc # "post" /\ driver' = [driver EXCEPT ![d] = w]
  PROVE  At("post")' # {}
<1> SUFFICES ASSUME NEW e \in Caller, driver[e].pc = "post" PROVE driver'[e].pc = "post"
  BY DEF At
<1>1. driver \in [Caller -> Driver]
  BY DEF Types, DriverOK
<1>2. CASE UNCHANGED driver
  BY <1>2
<1>3. CASE \E d, w : d \in Caller /\ driver[d].pc # "post" /\ driver' = [driver EXCEPT ![d] = w]
  <2>1. PICK d, w : d \in Caller /\ driver[d].pc # "post" /\ driver' = [driver EXCEPT ![d] = w]
    BY <1>3
  <2>2. e # d
    BY <2>1
  <2> QED
    BY <1>1, <2>1, <2>2
<1> QED
  BY <1>2, <1>3

(* So does the reply wait for it.                                           *)
LEMMA StillWaits ==
  ASSUME Types, ReplyWaits, run.pc = "end" => run'.pc = "end", UNCHANGED lastAssistant,
         \/ UNCHANGED driver
         \/ \E d, w : d \in Caller /\ driver[d].pc # "post" /\ driver' = [driver EXCEPT ![d] = w]
  PROVE  ReplyWaits'
  BY PostStays DEF ReplyWaits

(* A caller begins a run.                                                   *)
LEMMA StartRun ==
  ASSUME Inv, Watched, NEW d \in Caller, run.pc = "off", driver[d].pc \notin {"post", "backoff", "cancelled"},
         NEW inbox \in Seq(UserMsg), NEW poll \in BOOLEAN, Begin(d, inbox, poll),
         Goto(d, "running", <<>>), State(messages, entries, pendingBash),
         QueuesOK', HistoryOK',
         UNCHANGED <<event, subscribed, compaction, lastAssistant, retryAttempt, sleeper,
                     overflowTried, cancelled>>,
         ~astray /\ inbox = <<>> => Fine(entries, cancelled, retryAttempt)
  PROVE  Inv'
<1>0. Types
  BY DEF Inv
<1>1. /\ run' \in Run /\ run'.by = d /\ run'.pc = "turn" /\ run'.inbox = inbox
  <2>1. <<>> \in Seq(UserMsg)
    BY EmptySeq
  <2> QED
    BY <2>1 DEF Begin, NoRun, Run
<1>2. UNCHANGED <<messages, entries, pendingBash>>
  BY DEF State
<1>3. PICK w \in Driver : w = [Idle EXCEPT !.pc = "running", !.holds = <<>>] /\ w.pc = "running"
  <2>1. <<>> \in Seq(UserMsg)
    BY EmptySeq
  <2>2. [Idle EXCEPT !.pc = "running", !.holds = <<>>] \in Driver
    BY <2>1 DEF Idle, Driver
  <2>3. [Idle EXCEPT !.pc = "running", !.holds = <<>>].pc = "running"
    BY DEF Idle
  <2> QED
    BY <2>2, <2>3
<1>4. driver' = [driver EXCEPT ![d] = w] /\ CallerOK(w, entries')
  BY <1>3 DEF Goto, CallerOK
<1>5. Grown
  BY <1>0, <1>2, SameBranch
<1>6. DriverOK'
  <2>1. sleeper' # d
    BY <1>0 DEF Types, DriverOK
  <2> QED
    BY <1>0, <1>4, <1>5, <2>1, DriverMoves
<1>7. RunOK'
  <2>1. driver'[d] = w
    BY <1>0, <1>4 DEF Types, DriverOK
  <2>2. NoCaller \notin Caller
    BY AgentAssumption DEF AgentAssumption
  <2> QED
    BY <1>1, <1>3, <2>1, <2>2 DEF RunOK
<1>8. event' = NoEvent /\ event'.kind = "none"
  BY <1>0 DEF Types, EventOK, NoEvent
<1>9. EventOK'
  BY <1>0, <1>1, <1>8 DEF Types, EventOK
<1>10. BranchOK' /\ CompactionOK'
  BY <1>0, <1>2, <1>5, CompactionStays DEF Types, BranchOK
<1>11. CountsOK'
  BY <1>0, Watching DEF Types, CountsOK
<1>12. Types'
  BY <1>6, <1>7, <1>9, <1>10, <1>11 DEF Types
<1>13. ASSUME ~astray' PROVE Orderly'
  <2>1. ~astray /\ Orderly
    BY <1>13, Watching DEF Inv
  <2>2. InOrder' /\ ReplyCounted'
    BY <1>2, <2>1 DEF Orderly, InOrder, ReplyCounted
  <2>3. EventCounted' /\ BatchPaired'
    BY <1>1, <1>8 DEF EventCounted, BatchPaired
  <2>4. RunCounted'
    BY <1>1, <1>2, <2>1 DEF RunCounted
  <2>5. ReplyWaits'
    BY <1>0, <1>4, <2>1, StillWaits DEF Orderly
  <2> QED
    BY <2>2, <2>3, <2>4, <2>5 DEF Orderly
<1> QED
  BY <1>12, <1>13 DEF Inv

(* The caller of a run that could not begin, or after one, stays in order.  *)
LEMMA LeftStep ==
  ASSUME Inv, Watched, NEW d \in Caller, driver[d].pc # "running",
         NEW ms \in Seq(SessionMessage), NEW es \in Seq(SessionMessage), NEW bash \in Seq(BashMsg),
         Sound(es), Len(entries) <= Len(es), \A i \in 1..Len(entries) : es[i] = entries[i],
         Leaves(d, ms, es, bash), cancelled' \subseteq 0..Len(es),
         UNCHANGED <<steering, followUp, run, event, subscribed, compaction>>,
         sleeper' \in {sleeper, NoCaller} /\ sleeper' # d,
         lastAssistant' = NoMessage \/ (UNCHANGED lastAssistant /\ driver[d].pc # "post"),
         retryAttempt' \in 0..MaxRetries, overflowTried' \in BOOLEAN, HistoryOK',
         ~astray' => /\ run.pc = "off"
                     /\ Paired(ms) /\ Paired(es) /\ Bounded(es, cancelled')
                     /\ Settled(ms, es, cancelled', retryAttempt')
                     /\ Counted(lastAssistant', ms, es, cancelled', retryAttempt')
  PROVE  Inv'
<1>0. Types /\ NoMessage \in SessionMessage /\ NoMessage.ended # "error"
  BY DEF Inv, NoMessage, Message, SessionMessage
<1>1. CountsOK'
  BY <1>0, Watching DEF Types, CountsOK
<1>2. Types'
  BY <1>0, <1>1, LeftTypes
<1>3. ASSUME ~astray' PROVE Orderly'
  <2>1. Flushes(ms, es, bash) /\ run'.pc = "off"
    BY <1>3 DEF Leaves
  <2>2. /\ Paired(ms) /\ Paired(es) /\ Bounded(es, cancelled')
        /\ Settled(ms, es, cancelled', retryAttempt')
        /\ Counted(lastAssistant', ms, es, cancelled', retryAttempt')
    BY <1>3
  <2>3. ReplyWaits'
    <3>1. CASE lastAssistant' = NoMessage
      BY <1>0, <3>1 DEF ReplyWaits
    <3>2. CASE UNCHANGED lastAssistant /\ driver[d].pc # "post"
      <4>1. \E w : driver' = [driver EXCEPT ![d] = w]
        BY DEF Leaves
      <4>2. ReplyWaits
        BY <1>3, Watching DEF Inv, Orderly
      <4> QED
        BY <1>0, <3>2, <4>1, <4>2, StillWaits
    <3> QED
      BY <3>1, <3>2
  <2> QED
    BY <1>2, <2>1, <2>2, <2>3, LeftOrder
<1> QED
  BY <1>2, <1>3 DEF Inv

(* The same, when the caller has only flushed.                              *)
LEMMA LeftSame ==
  ASSUME Inv, Watched, NEW d \in Caller, driver[d].pc # "running",
         Leaves(d, messages, entries, pendingBash),
         UNCHANGED <<steering, followUp, run, event, subscribed, compaction, cancelled, lastAssistant,
                     retryAttempt, overflowTried>>,
         sleeper' \in {sleeper, NoCaller} /\ sleeper' # d,
         driver[d].pc # "post" \/ lastAssistant = NoMessage,
         HistoryOK', ~astray' => run.pc = "off"
  PROVE  Inv'
<1>1. /\ messages \in Seq(SessionMessage) /\ entries \in Seq(SessionMessage) /\ pendingBash \in Seq(BashMsg)
      /\ Sound(entries) /\ cancelled' \subseteq 0..Len(entries) /\ Len(entries) \in Nat
      /\ retryAttempt' \in 0..MaxRetries /\ overflowTried' \in BOOLEAN
      /\ lastAssistant' = NoMessage \/ (UNCHANGED lastAssistant /\ driver[d].pc # "post")
  BY DEF Inv, Types, BranchOK, CountsOK
<1>2. ASSUME ~astray'
      PROVE  /\ run.pc = "off"
             /\ Paired(messages) /\ Paired(entries) /\ Bounded(entries, cancelled')
             /\ Settled(messages, entries, cancelled', retryAttempt')
             /\ Counted(lastAssistant', messages, entries, cancelled', retryAttempt')
  <2>1. ~astray /\ Orderly /\ run.pc = "off"
    BY <1>2, Watching DEF Inv
  <2> QED
    BY <2>1 DEF Orderly, InOrder, RunCounted, ReplyCounted
<1>3. Len(entries) <= Len(entries)
  BY <1>1
<1> QED
  BY <1>1, <1>2, <1>3, LeftStep

(* Its place after the steps of prompt().                                   *)
LEMMA PlacesAfter ==
  ASSUME Types, NEW d \in Caller
  PROVE  /\ \A ms, es, bash : Leaves(d, ms, es, bash) =>
              driver'[d].pc \in {"idle", "starting", "again", "compacting"}
         /\ \A ms, es, bash : Return(d, ms, es, bash) => driver'[d].pc = "idle"
         /\ \A holds, ms, es, bash : GoOn(d, holds, ms, es, bash) =>
              driver'[d].pc \in {"idle", "starting", "again"}
<1>1. driver \in [Caller -> Driver] /\ Idle.pc = "idle"
  BY DEF Types, DriverOK, Idle
<1>2. ASSUME NEW ms, NEW es, NEW bash, Leaves(d, ms, es, bash)
      PROVE  driver'[d].pc \in {"idle", "starting", "again", "compacting"}
  <2>1. PICK w \in Driver :
          /\ CallerOK(w, es) /\ w.pc \in {"idle", "starting", "again", "compacting"}
          /\ driver' = [driver EXCEPT ![d] = w]
    BY <1>2 DEF Leaves
  <2> QED
    BY <1>1, <2>1
<1>3. ASSUME NEW ms, NEW es, NEW bash, Return(d, ms, es, bash) PROVE driver'[d].pc = "idle"
  <2>1. driver' = [driver EXCEPT ![d] = Idle]
    BY <1>3 DEF Return
  <2> QED
    BY <1>1, <2>1
<1>4. ASSUME NEW pc \in {"again", "starting"}, NEW holds, Goto(d, pc, holds) PROVE driver'[d].pc = pc
  <2>1. driver'[d] = [Idle EXCEPT !.pc = pc, !.holds = holds]
    BY <1>1, <1>4 DEF Goto
  <2>2. [Idle EXCEPT !.pc = pc, !.holds = holds].pc = pc
    BY DEF Idle
  <2> QED
    BY <2>1, <2>2
<1>5. ASSUME NEW holds, NEW ms, NEW es, NEW bash, GoOn(d, holds, ms, es, bash)
      PROVE  driver'[d].pc \in {"idle", "starting", "again"}
  <2>1. \/ Return(d, ms, es, bash)
        \/ Goto(d, "again", holds)
        \/ Goto(d, "starting", holds)
    BY <1>5 DEF GoOn
  <2> QED
    BY <2>1, <1>3, <1>4
<1> QED
  BY <1>2, <1>3, <1>5

----------------------------------------------------------------------------
(* The invariant is kept by the steps of prompt() *)

(* The backoff ends.                                                        *)
LEMMA RetryStep == ASSUME Inv, Watched, NEW d \in Caller, Retry(d) PROVE Inv'
<1>0. Types
  BY DEF Inv
<1>1. PICK w \in Driver : w = [Idle EXCEPT !.pc = "again", !.holds = <<>>] /\ w.pc = "again"
  <2>1. <<>> \in Seq(UserMsg)
    BY EmptySeq
  <2>2. [Idle EXCEPT !.pc = "again", !.holds = <<>>] \in Driver
    BY <2>1 DEF Idle, Driver
  <2>3. [Idle EXCEPT !.pc = "again", !.holds = <<>>].pc = "again"
    BY DEF Idle
  <2> QED
    BY <2>2, <2>3
<1>2. driver' = [driver EXCEPT ![d] = w] /\ driver[d].pc = "backoff" /\ sleeper' = NoCaller
  BY <1>1 DEF Retry, Goto
<1>3. CallerOK(w, entries)
  BY <1>1 DEF CallerOK
<1>4. UNCHANGED <<steering, followUp, run, event, subscribed, compaction, cancelled, lastAssistant,
                  retryAttempt, overflowTried, messages, entries, pendingBash>>
  BY DEF Retry, agentVars, history
<1>5. Leaves(d, messages, entries, pendingBash)
  BY <1>1, <1>2, <1>3, <1>4 DEF Leaves, Flushes, State
<1>6. HistoryOK'
  BY <1>0 DEF Types, HistoryOK, Retry, history
<1>7. driver'[d] # driver[d]
  BY <1>0, <1>1, <1>2 DEF Types, DriverOK
<1>8. ~astray' => run.pc = "off"
  BY <1>0, <1>2, <1>7, Alone, Watching
<1>9. sleeper' # d
  BY <1>2, AgentAssumption DEF AgentAssumption
<1> QED
  BY <1>2, <1>4, <1>5, <1>6, <1>8, <1>9, LeftSame

(* A run is begun, or cannot be.                                           *)
LEMMA StartStep == ASSUME Inv, Watched, NEW d \in Caller, Start(d) PROVE Inv'
<1>0. Types
  BY DEF Inv
<1>1. driver[d].pc = "starting" /\ sleeper # d
  BY <1>0 DEF Start, Types, DriverOK
<1>2. UNCHANGED <<steering, followUp, event, subscribed, compaction, cancelled, lastAssistant,
                  retryAttempt, sleeper, overflowTried, shown, ran, unheard>>
  BY DEF Start
<1>3. CASE isStreaming
  <2>1. Return(d, messages, entries, pendingBash) /\ UNCHANGED run
        /\ fate' = [u \in Msg |-> IF User(u) \in ToSet(driver[d].holds) THEN "refused" ELSE fate[u]]
    BY <1>3 DEF Start
  <2>2. HistoryOK'
    BY <1>0, <1>2, <2>1 DEF Types, HistoryOK
  <2>3. Leaves(d, messages, entries, pendingBash)
    BY <2>1, ReturnLeaves
  <2>4. driver'[d].pc = "idle"
    BY <1>0, <2>1, PlacesAfter
  <2>5. ~astray' => run.pc = "off"
    BY <1>0, <1>1, <2>4, Alone, Watching
  <2> QED
    BY <1>1, <1>2, <2>1, <2>2, <2>3, <2>5, LeftSame
<1>4. CASE ~isStreaming
  <2>1. PICK inbox : inbox = driver[d].holds
    OBVIOUS
  <2>2. inbox \in Seq(UserMsg) /\ inbox # <<>>
    BY <1>0, <1>1, <2>1 DEF Types, DriverOK, CallerOK, Driver
  <2>3. /\ Begin(d, inbox, TRUE) /\ Goto(d, "running", <<>>)
        /\ State(messages, entries, pendingBash) /\ UNCHANGED fate
    BY <1>4, <2>1 DEF Start
  <2>4. QueuesOK' /\ HistoryOK'
    BY <1>0, <1>2, <2>3 DEF Types, QueuesOK, HistoryOK
  <2>5. run.pc = "off"
    BY <1>4 DEF isStreaming
  <2>6. driver[d].pc \notin {"post", "backoff", "cancelled"} /\ TRUE \in BOOLEAN
    BY <1>1
  <2>7. ~astray /\ inbox = <<>> => Fine(entries, cancelled, retryAttempt)
    BY <2>2
  <2>8. UNCHANGED <<event, subscribed, compaction, lastAssistant, retryAttempt, sleeper,
                     overflowTried, cancelled>>
    BY <1>2
  <2> QED
    BY <2>2, <2>3, <2>4, <2>5, <2>6, <2>7, <2>8, StartRun
<1> QED
  BY <1>3, <1>4

(* What is drawn from a queue and what stays there.                         *)
LEMMA Drawn ==
  ASSUME NEW q \in Seq(UserMsg)
  PROVE  Drained(q) \in Seq(UserMsg) /\ Kept(q) \in Seq(UserMsg) /\ (q # <<>> => Drained(q) # <<>>)
<1>1. <<>> \in Seq(UserMsg)
  BY EmptySeq
<1>2. ASSUME q # <<>>
      PROVE  <<Head(q)>> \in Seq(UserMsg) /\ <<Head(q)>> # <<>> /\ Tail(q) \in Seq(UserMsg)
  <2>1. Head(q) \in UserMsg /\ Tail(q) \in Seq(UserMsg)
    BY <1>2, HeadTailProperties
  <2>2. PICK m \in UserMsg : m = Head(q)
    BY <2>1
  <2>3. <<m>> \in Seq(UserMsg) /\ <<m>> # <<>>
    OBVIOUS
  <2> QED
    BY <2>1, <2>2, <2>3
<1> QED
  BY <1>1, <1>2 DEF Drained, Kept

(* A run is continued, or cannot be.                                        *)
LEMMA AgainStep == ASSUME Inv, Watched, NEW d \in Caller, Again(d) PROVE Inv'
<1>0. Types
  BY DEF Inv
<1>1. driver[d].pc = "again" /\ sleeper # d
  BY <1>0 DEF Again, Types, DriverOK
<1>2. UNCHANGED <<event, subscribed, compaction, lastAssistant, retryAttempt, sleeper, overflowTried,
                  shown, ran, fate, unheard, cancelled>>
  BY DEF Again, history
<1>3. HistoryOK'
  BY <1>0, <1>2 DEF Types, HistoryOK
<1>4. CASE ContinueThrows /\ Return(d, messages, entries, pendingBash) /\ UNCHANGED <<steering, followUp, run>>
  <2>1. Leaves(d, messages, entries, pendingBash)
    BY <1>4, ReturnLeaves
  <2>2. driver'[d].pc = "idle"
    BY <1>0, <1>4, PlacesAfter
  <2>3. ~astray' => run.pc = "off"
    BY <1>0, <1>1, <2>2, Alone, Watching
  <2> QED
    BY <1>1, <1>2, <1>3, <1>4, <2>1, <2>3, LeftSame
<1>5. CASE ContinueRun(d) /\ Goto(d, "running", <<>>) /\ State(messages, entries, pendingBash)
  <2>1. run.pc = "off"
    BY <1>5 DEF ContinueRun, isStreaming
  <2>2. PICK inbox \in Seq(UserMsg), poll \in BOOLEAN :
          /\ Begin(d, inbox, poll) /\ QueuesOK'
          /\ inbox = <<>> => ~EndsWithReply(messages)
    <3>1. CASE ~EndsWithReply(messages)
      <4>1. Begin(d, <<>>, TRUE) /\ UNCHANGED <<steering, followUp>>
        BY <1>5, <3>1 DEF ContinueRun
      <4>2. <<>> \in Seq(UserMsg) /\ QueuesOK'
        BY <1>0, <4>1, EmptySeq DEF Types, QueuesOK
      <4> QED
        BY <3>1, <4>1, <4>2
    <3>2. CASE EndsWithReply(messages) /\ steering # <<>>
      <4>1. Begin(d, Drained(steering), FALSE) /\ steering' = Kept(steering) /\ UNCHANGED followUp
        BY <1>5, <3>2 DEF ContinueRun
      <4>2. steering \in Seq(UserMsg) /\ followUp \in Seq(UserMsg)
        BY <1>0 DEF Types, QueuesOK
      <4>3. Drained(steering) \in Seq(UserMsg) /\ Kept(steering) \in Seq(UserMsg) /\ Drained(steering) # <<>>
        BY <3>2, <4>2, Drawn
      <4>4. QueuesOK'
        BY <4>1, <4>2, <4>3 DEF QueuesOK
      <4> QED
        BY <4>1, <4>3, <4>4
    <3>3. CASE EndsWithReply(messages) /\ steering = <<>>
      <4>1. Begin(d, Drained(followUp), TRUE) /\ followUp' = Kept(followUp) /\ UNCHANGED steering /\ followUp # <<>>
        BY <1>5, <3>3 DEF ContinueRun, hasQueuedMessages
      <4>2. steering \in Seq(UserMsg) /\ followUp \in Seq(UserMsg)
        BY <1>0 DEF Types, QueuesOK
      <4>3. Drained(followUp) \in Seq(UserMsg) /\ Kept(followUp) \in Seq(UserMsg) /\ Drained(followUp) # <<>>
        BY <4>1, <4>2, Drawn
      <4>4. QueuesOK'
        BY <4>1, <4>2, <4>3 DEF QueuesOK
      <4> QED
        BY <4>1, <4>3, <4>4
    <3> QED
      BY <3>1, <3>2, <3>3
  <2>3. ~astray /\ inbox = <<>> => Fine(entries, cancelled, retryAttempt)
    BY <2>1, <2>2 DEF Inv, Orderly, RunCounted, Settled, FailedLast
  <2>4. Goto(d, "running", <<>>) /\ State(messages, entries, pendingBash)
    BY <1>5
  <2>5. driver[d].pc \notin {"post", "backoff", "cancelled"}
    BY <1>1
  <2>6. UNCHANGED <<event, subscribed, compaction, lastAssistant, retryAttempt, sleeper,
                    overflowTried, cancelled>>
    BY <1>2
  <2> QED
    BY <1>3, <2>1, <2>2, <2>3, <2>4, <2>5, <2>6, StartRun
<1> QED
  BY <1>4, <1>5 DEF Again

(* A cancelled retry leaves nothing to count.                               *)
LEMMA RetryCancelledStep == ASSUME Inv, Watched, NEW d \in Caller, RetryCancelled(d) PROVE Inv'
<1>0. Types /\ MaxRetries \in Nat
  BY SessionAssumption DEF Inv, SessionAssumption
<1>1. /\ driver[d].pc = "cancelled" /\ retryAttempt' = 0 /\ sleeper' = NoCaller
      /\ cancelled' = cancelled \cup {Len(entries)}
      /\ CheckCompaction(d, Reply("error", 0), <<>>, messages, entries, pendingBash)
      /\ UNCHANGED <<steering, followUp, run, event, subscribed, compaction, lastAssistant,
                     shown, ran, fate, unheard>>
  BY DEF RetryCancelled
<1>2. /\ messages \in Seq(SessionMessage) /\ entries \in Seq(SessionMessage) /\ pendingBash \in Seq(BashMsg)
      /\ Sound(entries) /\ cancelled \subseteq 0..Len(entries) /\ Len(entries) \in Nat
  BY <1>0 DEF Types, BranchOK
<1>3. Leaves(d, messages, entries, pendingBash) /\ overflowTried' \in BOOLEAN
  <2>1. <<>> \in Seq(UserMsg) /\ overflowTried \in BOOLEAN
    BY <1>0, EmptySeq DEF Types, CountsOK
  <2>2. Reply("error", 0).ended = "error"
    BY DEF Reply, Message
  <2> QED
    BY <1>1, <1>2, <2>1, <2>2, CheckLeaves
<1>4. driver'[d].pc # "cancelled"
  BY <1>0, <1>3, PlacesAfter
<1>5. ASSUME ~astray'
      PROVE  /\ run.pc = "off"
             /\ Paired(messages) /\ Paired(entries) /\ Bounded(entries, cancelled')
             /\ Settled(messages, entries, cancelled', retryAttempt')
             /\ Counted(lastAssistant', messages, entries, cancelled', retryAttempt')
  <2>1. ~astray /\ ~Strays /\ Orderly
    BY <1>5, Watching DEF Inv
  <2>2. run.pc = "off"
    BY <1>0, <1>1, <1>4, <2>1, Alone
  <2>3. Bounded(entries, cancelled') /\ Fine(entries, cancelled', 0)
    <3>1. PICK ds : ds = cancelled' /\ cancelled \subseteq ds /\ Len(entries) \in ds
      BY <1>1
    <3>2. Bounded(entries, ds) /\ Fine(entries, ds, 0)
      BY <1>0, <1>2, <2>1, <3>1, FineMore DEF Orderly, InOrder
    <3> QED
      BY <3>1, <3>2
  <2>4. Fine(entries, cancelled', 1)
    <3>1. PICK ds : ds = cancelled'
      OBVIOUS
    <3>2. 0 \in Nat /\ 1 \in Nat /\ 0 <= 1 /\ ds \subseteq ds
      OBVIOUS
    <3>3. Fine(entries, ds, 1)
      BY <1>0, <1>2, <2>3, <3>1, <3>2, FineMore
    <3> QED
      BY <3>1, <3>3
  <2>5. retryAttempt' + 1 = 1
    BY <1>1
  <2> QED
    BY <1>1, <2>1, <2>2, <2>3, <2>4, <2>5 DEF Orderly, InOrder, Settled, Counted
<1>6. HistoryOK'
  BY <1>0, <1>1 DEF Types, HistoryOK
<1>7. cancelled' \subseteq 0..Len(entries)
  <2>1. Len(entries) \in 0..Len(entries)
    BY <1>2
  <2> QED
    BY <1>1, <1>2, <2>1
<1>8. /\ lastAssistant' = NoMessage \/ (UNCHANGED lastAssistant /\ driver[d].pc # "post")
      /\ retryAttempt' \in 0..MaxRetries
  BY <1>0, <1>1
<1>9. sleeper' \in {sleeper, NoCaller} /\ sleeper' # d /\ driver[d].pc # "running"
  BY <1>1, AgentAssumption DEF AgentAssumption
<1>10. UNCHANGED <<steering, followUp, run, event, subscribed, compaction>>
  BY <1>1
<1>11. Len(entries) <= Len(entries)
  BY <1>2
<1> QED
  BY <1>2, <1>3, <1>5, <1>6, <1>7, <1>8, <1>9, <1>10, <1>11, LeftStep

Summary(k) == Message("compaction", NoId, "", k)

(* The branch with a summary behind it, and the transcript that is rebuilt. *)
LEMMA Summarized ==
  ASSUME Types, NEW k, MayKeep(entries, k), NEW es, es = Append(entries, Summary(k))
  PROVE  /\ es \in Seq(SessionMessage) /\ Context(es) \in Seq(SessionMessage) /\ Sound(es)
         /\ Len(entries) <= Len(es) /\ \A i \in 1..Len(entries) : es[i] = entries[i]
         /\ cancelled \subseteq 0..Len(es)
         /\ \A n \in Nat : Fine(es, cancelled, n)
         /\ InOrder => Paired(es) /\ Paired(Context(es)) /\ Bounded(es, cancelled)
<1>0. MaxRetries \in Nat
  BY SessionAssumption DEF SessionAssumption
<1>1. entries \in Seq(SessionMessage) /\ Len(entries) \in Nat /\ DOMAIN entries = 1..Len(entries)
      /\ Sound(entries) /\ cancelled \subseteq 0..Len(entries)
  BY DEF Types, BranchOK
<1>2. PICK m \in SessionMessage :
        /\ m = Summary(k)
        /\ m.is = "compaction" /\ m.ended = "" /\ m.n = k
  <2>1. k \in Nat
    BY <1>1 DEF MayKeep
  <2>2. Summary(k) \in SessionMessage
    BY <2>1 DEF Summary, Message, SessionMessage
  <2>3. /\ Summary(k).is = "compaction"
        /\ Summary(k).ended = ""
        /\ Summary(k).n = k
    BY DEF Summary, Message
  <2> QED
    BY <2>2, <2>3
<1>3. es = Append(entries, m)
  BY <1>2
<1>4. /\ es \in Seq(SessionMessage) /\ Len(es) = Len(entries) + 1 /\ es[Len(entries) + 1] = m
      /\ \A i \in 1..Len(entries) : es[i] = entries[i]
  BY <1>1, <1>3, Appended
<1>5. Sound(es)
  <2> SUFFICES ASSUME NEW i \in 1..(Len(entries) + 1), es[i].is = "compaction" PROVE es[i].n \in 1..Len(es)
    BY <1>4 DEF Sound
  <2>1. CASE i = Len(entries) + 1
    <3>1. k \in 1..Len(entries)
      BY DEF MayKeep
    <3>2. es[i].n = k
      BY <2>1, <1>2, <1>4
    <3> QED
      BY <3>1, <3>2, <1>1, <1>4
  <2>2. CASE i \in 1..Len(entries)
    <3>1. entries[i].n \in 1..Len(entries)
      BY <2>2, <1>1, <1>4 DEF Sound
    <3> QED
      BY <2>2, <3>1, <1>1, <1>4
  <2> QED
    BY <2>1, <2>2, <1>1
<1>6. Fine(es, cancelled, 0) /\ (Bounded(entries, cancelled) => Bounded(es, cancelled))
  BY <1>0, <1>1, <1>2, <1>3, FineAfter
<1>7. \A n \in Nat : Fine(es, cancelled, n)
  <2>1. \A n \in Nat : 0 \in Nat /\ 0 <= n
    OBVIOUS
  <2> QED
    BY <2>1, <1>0, <1>4, <1>6, FineMore
<1>8. Context(es) \in Seq(SessionMessage) /\ (Paired(entries) => Paired(Context(es)))
  BY <1>1, <1>2, <1>3, Rebuilt
<1>9. Paired(entries) => Paired(es)
  <2>1. Follows(entries, m)
    BY <1>2 DEF Follows
  <2> QED
    BY <2>1, <1>1, <1>3, PairedAfter
<1>10. Len(entries) <= Len(es) /\ cancelled \subseteq 0..Len(es)
  BY <1>1, <1>4
<1> QED
  BY <1>4, <1>5, <1>6, <1>7, <1>8, <1>9, <1>10 DEF InOrder

(* An automatic compaction has its summary, or has failed.                  *)
LEMMA CompactedStep ==
  ASSUME Inv, Watched, NEW d \in Caller, NEW ok \in BOOLEAN, Compacted(d, ok)
  PROVE  Inv'
<1>0. Types
  BY DEF Inv
<1>1. /\ driver[d].pc = "compacting" /\ driver[d] \in Driver /\ MayKeep(entries, driver[d].kept)
      /\ sleeper # d
  BY <1>0 DEF Compacted, Types, DriverOK, CallerOK
<1>2. PICK holds, k : holds \in Seq(UserMsg) /\ holds = driver[d].holds /\ k = driver[d].kept /\ MayKeep(entries, k)
  BY <1>1 DEF Driver
<1>3. PICK es : es = Append(entries, Summary(k))
  OBVIOUS
<1>4. UNCHANGED <<steering, followUp, run, event, subscribed, compaction, shown, lastAssistant,
                  retryAttempt, sleeper, overflowTried, ran, fate, unheard, cancelled>>
  BY DEF Compacted, history
<1>5. HistoryOK'
  BY <1>0, <1>4 DEF Types, HistoryOK
<1>6. CASE ~ok
  <2>1. GoOn(d, holds, messages, entries, pendingBash)
    BY <1>2, <1>6 DEF Compacted
  <2>2. Leaves(d, messages, entries, pendingBash)
    BY <1>2, <2>1, GoOnLeaves
  <2>3. driver'[d].pc # "compacting"
    BY <1>0, <2>1, PlacesAfter
  <2>4. ~astray' => run.pc = "off"
    BY <1>0, <1>1, <2>3, Alone, Watching
  <2> QED
    BY <1>1, <1>4, <1>5, <2>2, <2>4, LeftSame
<1>7. CASE ok
  <2>1. /\ es \in Seq(SessionMessage) /\ Context(es) \in Seq(SessionMessage) /\ Sound(es)
        /\ Len(entries) <= Len(es) /\ \A i \in 1..Len(entries) : es[i] = entries[i]
        /\ cancelled \subseteq 0..Len(es)
        /\ \A n \in Nat : Fine(es, cancelled, n)
        /\ InOrder => Paired(es) /\ Paired(Context(es)) /\ Bounded(es, cancelled)
    BY <1>0, <1>2, <1>3, Summarized
  <2>2. PICK ms \in Seq(SessionMessage) :
          /\ Paired(Context(es)) => Paired(ms)
          /\ \/ GoOn(d, holds, ms, es, pendingBash)
             \/ Goto(d, "again", <<>>) /\ State(ms, es, pendingBash)
    <3>1. \/ Goto(d, "again", <<>>) /\ State(WithoutError(Context(es)), es, pendingBash)
          \/ GoOn(d, holds, WithoutError(Context(es)), es, pendingBash)
          \/ GoOn(d, holds, Context(es), es, pendingBash)
      BY <1>2, <1>3, <1>7 DEF Compacted, Summary
    <3>2. WithoutError(Context(es)) \in Seq(SessionMessage)
          /\ (Paired(Context(es)) => Paired(WithoutError(Context(es))))
      BY <2>1, Shortened
    <3> QED
      BY <2>1, <3>1, <3>2
  <2>3. Leaves(d, ms, es, pendingBash) /\ driver'[d].pc # "compacting"
    <3>1. CASE GoOn(d, holds, ms, es, pendingBash)
      BY <1>0, <1>2, <3>1, GoOnLeaves, PlacesAfter
    <3>2. CASE Goto(d, "again", <<>>) /\ State(ms, es, pendingBash)
      <4>1. PICK w \in Driver : w = [Idle EXCEPT !.pc = "again", !.holds = <<>>] /\ w.pc = "again"
        <5>1. <<>> \in Seq(UserMsg)
          BY EmptySeq
        <5>2. [Idle EXCEPT !.pc = "again", !.holds = <<>>] \in Driver
          BY <5>1 DEF Idle, Driver
        <5>3. [Idle EXCEPT !.pc = "again", !.holds = <<>>].pc = "again"
          BY DEF Idle
        <5> QED
          BY <5>2, <5>3
      <4>2. driver' = [driver EXCEPT ![d] = w] /\ CallerOK(w, es)
        BY <3>2, <4>1 DEF Goto, CallerOK
      <4>3. Leaves(d, ms, es, pendingBash)
        BY <3>2, <4>1, <4>2 DEF Leaves, Flushes
      <4> QED
        BY <1>0, <4>1, <4>2, <4>3 DEF Types, DriverOK
    <3> QED
      BY <2>2, <3>1, <3>2
  <2>4. ASSUME ~astray'
        PROVE  /\ run.pc = "off"
               /\ Paired(ms) /\ Paired(es) /\ Bounded(es, cancelled')
               /\ Settled(ms, es, cancelled', retryAttempt')
               /\ Counted(lastAssistant', ms, es, cancelled', retryAttempt')
    <3>1. ~astray /\ ~Strays /\ InOrder
      BY <2>4, Watching DEF Inv, Orderly
    <3>2. run.pc = "off"
      BY <1>0, <1>1, <2>3, <3>1, Alone
    <3>3. cancelled' = cancelled /\ retryAttempt' \in Nat /\ retryAttempt' + 1 \in Nat /\ 0 \in Nat
      BY <1>0, <1>4, SessionAssumption DEF Types, CountsOK, SessionAssumption
    <3>4. /\ Fine(es, cancelled', retryAttempt') /\ Fine(es, cancelled', retryAttempt' + 1)
          /\ Fine(es, cancelled', 0)
      BY <2>1, <3>3
    <3> QED
      BY <2>1, <2>2, <3>1, <3>2, <3>3, <3>4 DEF Settled, Counted
  <2>5. /\ lastAssistant' = NoMessage \/ (UNCHANGED lastAssistant /\ driver[d].pc # "post")
        /\ retryAttempt' \in 0..MaxRetries /\ overflowTried' \in BOOLEAN
    BY <1>0, <1>1, <1>4 DEF Types, CountsOK
  <2>6. pendingBash \in Seq(BashMsg)
    BY <1>0 DEF Types, BranchOK
  <2>7. driver[d].pc # "running" /\ sleeper' \in {sleeper, NoCaller} /\ sleeper' # d
    BY <1>1, <1>4
  <2>8. UNCHANGED <<steering, followUp, run, event, subscribed, compaction>> /\ cancelled' \subseteq 0..Len(es)
    BY <1>4, <2>1
  <2> QED
    BY <1>5, <2>1, <2>3, <2>4, <2>5, <2>6, <2>7, <2>8, LeftStep
<1> QED
  BY <1>6, <1>7

(* Whatever has been counted remains so when more retries have.             *)
LEMMA SettledFor ==
  ASSUME NEW ms, NEW es \in Seq(SessionMessage), NEW cs, NEW n \in Nat, Settled(ms, es, cs, 0)
  PROVE  Settled(ms, es, cs, n)
<1>1. 0 \in Nat /\ 0 <= n /\ cs \subseteq cs /\ MaxRetries \in Nat
  BY SessionAssumption DEF SessionAssumption
<1>2. Fine(es, cs, 0) => Fine(es, cs, n)
  BY <1>1, FineMore
<1> QED
  BY <1>2 DEF Settled

(* After a run: the reply is looked at.                                     *)
LEMMA PostStep == ASSUME Inv, Watched, NEW d \in Caller, Post(d) PROVE Inv'
<1>0. Types /\ MaxRetries \in Nat
  BY SessionAssumption DEF Inv, SessionAssumption
<1>1. /\ driver[d].pc = "post" /\ lastAssistant' = NoMessage /\ sleeper # d
      /\ UNCHANGED <<steering, followUp, run, event, subscribed, compaction, shown, ran,
                     fate, unheard, cancelled>>
  BY <1>0 DEF Post, history, Types, DriverOK
<1>2. /\ messages \in Seq(SessionMessage) /\ entries \in Seq(SessionMessage) /\ pendingBash \in Seq(BashMsg)
      /\ Sound(entries) /\ cancelled' \subseteq 0..Len(entries) /\ Len(entries) <= Len(entries)
      /\ lastAssistant \in SessionMessage /\ retryAttempt \in 0..MaxRetries /\ overflowTried \in BOOLEAN
  BY <1>0, <1>1 DEF Types, BranchOK, CountsOK
<1>3. HistoryOK'
  BY <1>0, <1>1 DEF Types, HistoryOK
<1>4. NoMessage \in SessionMessage /\ NoMessage.ended # "error"
  BY DEF NoMessage, Message, SessionMessage
<1>5. \A ms, es, cs, n : Counted(NoMessage, ms, es, cs, n)
  BY <1>4 DEF Counted
<1>6. <<>> \in Seq(UserMsg)
  BY EmptySeq
<1>7. CASE /\ lastAssistant = NoMessage /\ Return(d, messages, entries, pendingBash)
           /\ UNCHANGED <<retryAttempt, sleeper, overflowTried>>
  <2>1. Leaves(d, messages, entries, pendingBash)
    BY <1>7, ReturnLeaves
  <2>2. driver'[d].pc = "idle"
    BY <1>0, <1>7, PlacesAfter
  <2>3. ~astray' => run.pc = "off"
    BY <1>0, <1>1, <2>2, Alone, Watching
  <2>4. UNCHANGED <<steering, followUp, run, event, subscribed, compaction, cancelled, lastAssistant,
                    retryAttempt, overflowTried>>
    BY <1>1, <1>7
  <2>5. /\ driver[d].pc # "running" /\ sleeper' \in {sleeper, NoCaller} /\ sleeper' # d
        /\ driver[d].pc # "post" \/ lastAssistant = NoMessage
    BY <1>1, <1>7
  <2> QED
    BY <1>3, <2>1, <2>3, <2>4, <2>5, LeftSame
<1>8. CASE /\ Retries(lastAssistant) /\ retryAttempt' = retryAttempt + 1 /\ sleeper' = d
           /\ Goto(d, "backoff", <<>>) /\ State(WithoutReply(messages), entries, pendingBash)
           /\ UNCHANGED overflowTried
  <2>1. lastAssistant.ended = "error" /\ retryAttempt' \in 0..MaxRetries
    BY <1>0, <1>2, <1>8 DEF Retries
  <2>2. PICK w \in Driver : w = [Idle EXCEPT !.pc = "backoff", !.holds = <<>>] /\ w.pc = "backoff"
    <3>1. [Idle EXCEPT !.pc = "backoff", !.holds = <<>>] \in Driver
      BY <1>6 DEF Idle, Driver
    <3>2. [Idle EXCEPT !.pc = "backoff", !.holds = <<>>].pc = "backoff"
      BY DEF Idle
    <3> QED
      BY <3>1, <3>2
  <2>3. driver' = [driver EXCEPT ![d] = w] /\ CallerOK(w, entries')
    BY <1>8, <2>2 DEF Goto, CallerOK
  <2>4. /\ messages' = WithoutReply(messages) /\ entries' = entries /\ pendingBash' = pendingBash
        /\ messages' \in Seq(SessionMessage) /\ (Paired(messages) => Paired(messages'))
    BY <1>2, <1>8, Shortened DEF State
  <2>5. Grown
    BY <1>0, <2>4, SameBranch
  <2>6. DriverOK'
    BY <1>0, <1>8, <2>2, <2>3, <2>5, DriverMoves
  <2>7. RunOK'
    BY <1>0, <1>1, <2>3, RunStays
  <2>8. CompactionOK' /\ BranchOK'
    BY <1>0, <1>1, <1>2, <2>4, <2>5, CompactionStays DEF BranchOK
  <2>9. QueuesOK' /\ EventOK'
    BY <1>0, <1>1 DEF Types, QueuesOK, EventOK, NoEvent
  <2>10. CountsOK'
    BY <1>1, <1>2, <1>4, <1>8, <2>1, Watching DEF CountsOK
  <2>11. Types'
    BY <1>3, <2>6, <2>7, <2>8, <2>9, <2>10 DEF Types
  <2>12. ASSUME ~astray' PROVE Orderly'
    <3>1. ~astray /\ ~Strays /\ Orderly
      BY <2>12, Watching DEF Inv
    <3>2. driver'[d].pc = "backoff"
      BY <1>0, <2>2, <2>3 DEF Types, DriverOK
    <3>3. run'.pc = "off"
      BY <1>0, <1>1, <3>1, <3>2, Alone
    <3>4. InOrder'
      BY <1>1, <2>4, <3>1 DEF Orderly, InOrder
    <3>5. Fine(entries, cancelled, retryAttempt + 1)
      BY <2>1, <3>1 DEF Orderly, ReplyCounted, Counted
    <3>6. Settled(messages', entries', cancelled', retryAttempt')
      BY <1>1, <1>8, <2>4, <3>5 DEF Settled
    <3>7. ReplyCounted' /\ ReplyWaits'
      BY <1>1, <1>4, <1>5 DEF ReplyCounted, ReplyWaits
    <3> QED
      BY <2>11, <3>3, <3>4, <3>6, <3>7, RestOrder
  <2> QED
    BY <2>11, <2>12 DEF Inv
<1>9. CASE /\ lastAssistant # NoMessage
           /\ retryAttempt' = IF lastAssistant.ended \in {"error", "overflow"} THEN 0 ELSE retryAttempt
           /\ CheckCompaction(d, lastAssistant, <<>>, messages, entries, pendingBash)
           /\ UNCHANGED sleeper
  <2>0. retryAttempt' \in 0..MaxRetries
    BY <1>0, <1>2, <1>9
  <2>1. overflowTried' \in BOOLEAN
    BY <1>2, <1>6, <1>9, CheckLeaves
  <2>2. PICK ms \in Seq(SessionMessage) :
          /\ Leaves(d, ms, entries, pendingBash) /\ (Paired(messages) => Paired(ms))
          /\ lastAssistant.ended = "error" => ms = messages
    <3>1. \/ Leaves(d, messages, entries, pendingBash)
          \/ /\ lastAssistant.ended \in {"overflow", "length"}
             /\ Leaves(d, WithoutReply(messages), entries, pendingBash)
      BY <1>2, <1>6, <1>9, CheckLeaves
    <3>2. WithoutReply(messages) \in Seq(SessionMessage) /\ (Paired(messages) => Paired(WithoutReply(messages)))
      BY <1>2, Shortened
    <3>3. CASE Leaves(d, messages, entries, pendingBash)
      BY <1>2, <3>3
    <3>4. CASE /\ lastAssistant.ended \in {"overflow", "length"}
               /\ Leaves(d, WithoutReply(messages), entries, pendingBash)
      BY <3>2, <3>4
    <3> QED
      BY <3>1, <3>3, <3>4
  <2>3. driver'[d].pc # "post"
    BY <1>0, <2>2, PlacesAfter
  <2>4. ASSUME ~astray'
        PROVE  /\ run.pc = "off"
               /\ Paired(ms) /\ Paired(entries) /\ Bounded(entries, cancelled')
               /\ Settled(ms, entries, cancelled', retryAttempt')
               /\ Counted(lastAssistant', ms, entries, cancelled', retryAttempt')
    <3>1. ~astray /\ ~Strays /\ Orderly
      BY <2>4, Watching DEF Inv
    <3>2. run.pc = "off"
      BY <1>0, <1>1, <2>3, <3>1, Alone
    <3>3. Settled(ms, entries, cancelled, 0)
      <4>1. CASE lastAssistant.ended = "error"
        BY <4>1, <2>2, <3>1 DEF Orderly, ReplyCounted, Counted
      <4>2. CASE lastAssistant.ended # "error"
        BY <4>2, <1>9, <3>1 DEF Orderly, ReplyCounted, Counted, Settled
      <4> QED
        BY <4>1, <4>2
    <3>4. PICK n \in Nat : n = retryAttempt'
      BY <1>0, <2>0
    <3>5. Settled(ms, entries, cancelled, n)
      BY <1>2, <3>3, SettledFor
    <3> QED
      BY <1>1, <1>5, <2>2, <3>1, <3>2, <3>4, <3>5 DEF Orderly, InOrder
  <2>5. lastAssistant' = NoMessage \/ (UNCHANGED lastAssistant /\ driver[d].pc # "post")
    BY <1>1
  <2>6. driver[d].pc # "running" /\ sleeper' \in {sleeper, NoCaller} /\ sleeper' # d
    BY <1>1, <1>9
  <2>7. UNCHANGED <<steering, followUp, run, event, subscribed, compaction>>
    BY <1>1
  <2> QED
    BY <1>2, <1>3, <2>0, <2>1, <2>2, <2>4, <2>5, <2>6, <2>7, LeftStep
<1> QED
  BY <1>7, <1>8, <1>9 DEF Post

(* A prompt: what is deferred is flushed, and the last reply looked at.     *)
LEMMA PromptCallStep == ASSUME Inv, Watched, NEW u \in Msg, Prompt(u) PROVE Inv'
<1>0. Types /\ MaxRetries \in Nat
  BY SessionAssumption DEF Inv, SessionAssumption
<1>1. /\ messages \in Seq(SessionMessage) /\ entries \in Seq(SessionMessage) /\ pendingBash \in Seq(BashMsg)
      /\ Sound(entries) /\ cancelled \subseteq 0..Len(entries) /\ Len(entries) \in Nat
      /\ lastAssistant \in SessionMessage /\ retryAttempt \in 0..MaxRetries /\ overflowTried \in BOOLEAN
  BY <1>0 DEF Types, BranchOK, CountsOK
<1>2. PICK ms, es : ms = messages \o pendingBash /\ es = entries \o pendingBash
  OBVIOUS
<1>3. PICK d : d = CHOOSE c \in At("idle") : \A e \in At("idle") : c <= e
  OBVIOUS
<1>4. PICK holds : holds = <<User(u)>>
  OBVIOUS
<1>5. holds \in Seq(UserMsg) /\ <<>> \in Seq(BashMsg)
  <2>1. PICK m \in UserMsg : m = User(u)
    BY DEF UserMsg
  <2>2. <<m>> \in Seq(UserMsg)
    OBVIOUS
  <2> QED
    BY <1>4, <2>1, <2>2, EmptySeq
<1>6. /\ At("idle") # {} /\ run.pc = "off"
      /\ UNCHANGED <<steering, followUp, run, event, subscribed, compaction, shown, lastAssistant,
                     retryAttempt, sleeper, ran, unheard, cancelled>>
      /\ fate' = [fate EXCEPT ![u] = "sent"]
  BY DEF Prompt, isStreaming
<1>7. d \in Caller /\ driver[d].pc = "idle"
  <2>1. At("idle") \subseteq Caller /\ Caller \subseteq Nat
    BY AgentAssumption DEF At, AgentAssumption
  <2>2. PICK c \in At("idle") : \A e \in At("idle") : c <= e
    <3>1. At("idle") \subseteq Nat
      BY <2>1
    <3> QED
      BY <1>6, <3>1, LeastFailure
  <2>3. d \in At("idle")
    BY <1>3, <2>2, Zenon
  <2> QED
    BY <2>1, <2>3 DEF At
<1>8. /\ ms \in Seq(SessionMessage) /\ es \in Seq(SessionMessage) /\ Sound(es)
      /\ Len(entries) <= Len(es) /\ Len(es) \in Nat /\ \A i \in 1..Len(entries) : es[i] = entries[i]
  <2>1. /\ ms \in Seq(SessionMessage) /\ es \in Seq(SessionMessage) /\ Sound(es)
        /\ Len(entries) <= Len(es) /\ \A i \in 1..Len(entries) : es[i] = entries[i]
    BY <1>0, <1>1, <1>2, Flushed
  <2> QED
    BY <2>1
<1>9. HistoryOK'
  BY <1>0, <1>6 DEF Types, HistoryOK
<1>10. sleeper' \in {sleeper, NoCaller} /\ sleeper' # d
  BY <1>0, <1>6, <1>7 DEF Types, DriverOK
<1>11. cancelled' \subseteq 0..Len(es)
  BY <1>1, <1>6, <1>8
<1>12. ASSUME ~astray'
       PROVE  /\ Paired(ms) /\ Paired(es) /\ Bounded(es, cancelled)
              /\ \A k \in {0, retryAttempt} : Settled(messages, entries, cancelled, k) => Settled(ms, es, cancelled, k)
              /\ Settled(ms, es, cancelled, retryAttempt)
              /\ Counted(lastAssistant, ms, es, cancelled, retryAttempt)
  <2>1. Orderly
    BY <1>12, Watching DEF Inv
  <2>2. Paired(ms) /\ Paired(es) /\ Bounded(es, cancelled)
    BY <1>0, <1>1, <1>2, <2>1, Flushed DEF Orderly, InOrder
  <2>3. retryAttempt \in Nat /\ 0 \in Nat
    BY <1>0, <1>1
  <2>4. \A k \in {0, retryAttempt} : Settled(messages, entries, cancelled, k) => Settled(ms, es, cancelled, k)
    BY <1>0, <1>1, <1>2, <2>3, FlushedCounts
  <2>5. Counted(lastAssistant, ms, es, cancelled, retryAttempt)
    BY <1>0, <1>1, <1>2, <2>1, <2>3, FlushedCounts DEF Orderly, ReplyCounted
  <2>6. Settled(ms, es, cancelled, retryAttempt)
    BY <1>6, <2>1, <2>4 DEF Orderly, RunCounted
  <2> QED
    BY <2>2, <2>4, <2>5, <2>6
<1>13. PICK left \in Seq(SessionMessage) :
         /\ Leaves(d, left, es, <<>>) /\ (Paired(ms) => Paired(left)) /\ overflowTried' \in BOOLEAN
         /\ left = ms \/ ~FailedLast(ms)
  <2>1. CASE Replied(ms) = {}
    <3>1. GoOn(d, holds, ms, es, <<>>) /\ UNCHANGED overflowTried
      BY <1>2, <1>3, <1>4, <2>1 DEF Prompt
    <3> QED
      BY <1>1, <1>5, <1>7, <1>8, <3>1, GoOnLeaves
  <2>2. CASE Replied(ms) # {}
    <3>1. PICK k : k = CHOOSE i \in Replied(ms) : \A j \in Replied(ms) : j <= i
      OBVIOUS
    <3>2. CheckCompaction(d, ms[k], holds, ms, es, <<>>)
      BY <1>2, <1>3, <1>4, <2>2, <3>1 DEF Prompt
    <3>3. Replied(ms) \in SUBSET (1..Len(ms)) /\ Len(ms) \in Nat
      BY <1>8 DEF Replied
    <3>4. k \in Replied(ms) /\ \A j \in Replied(ms) : j <= k
      <4>1. Max(Replied(ms)) \in Replied(ms) /\ \A i \in Replied(ms) : Max(Replied(ms)) >= i
        BY <2>2, <3>3, Greatest
      <4>2. PICK i \in Replied(ms) : \A j \in Replied(ms) : j <= i
        BY <3>3, <4>1
      <4> QED
        BY <3>1, <4>2, Zenon
    <3>5. /\ overflowTried' \in BOOLEAN
          /\ \/ Leaves(d, ms, es, <<>>)
             \/ ms[k].ended \in {"overflow", "length"} /\ Leaves(d, WithoutReply(ms), es, <<>>)
      BY <1>1, <1>5, <1>7, <1>8, <3>2, CheckLeaves
    <3>6. CASE Leaves(d, ms, es, <<>>)
      BY <1>8, <3>5, <3>6
    <3>7. CASE ms[k].ended \in {"overflow", "length"} /\ Leaves(d, WithoutReply(ms), es, <<>>)
      <4>1. ~FailedLast(ms)
        <5> SUFFICES ASSUME FailedLast(ms) PROVE FALSE
          OBVIOUS
        <5>1. ms # <<>> /\ Last(ms).is = "assistant" /\ Last(ms).ended = "error" /\ Last(ms) = ms[Len(ms)]
          BY DEF FailedLast, EndsWithReply, Last
        <5>2. Len(ms) \in 1..Len(ms)
          BY <1>8, <5>1, EmptySeq
        <5>3. Len(ms) \in Replied(ms)
          BY <1>8, <5>1, <5>2 DEF Replied
        <5>4. k = Len(ms)
          BY <3>3, <3>4, <5>3
        <5> QED
          BY <3>7, <5>1, <5>4
      <4>2. WithoutReply(ms) \in Seq(SessionMessage) /\ (Paired(ms) => Paired(WithoutReply(ms)))
        BY <1>8, Shortened
      <4> QED
        BY <3>5, <3>7, <4>1, <4>2
    <3> QED
      BY <3>5, <3>6, <3>7
  <2> QED
    BY <2>1, <2>2
<1>14. ASSUME ~astray'
       PROVE  /\ run.pc = "off"
              /\ Paired(left) /\ Paired(es) /\ Bounded(es, cancelled')
              /\ Settled(left, es, cancelled', retryAttempt')
              /\ Counted(lastAssistant', left, es, cancelled', retryAttempt')
  <2>1. cancelled' = cancelled /\ retryAttempt' = retryAttempt /\ lastAssistant' = lastAssistant
    BY <1>6
  <2>2. \A k : Settled(ms, es, cancelled, k) => Settled(left, es, cancelled, k)
    BY <1>13 DEF Settled
  <2>3. /\ Paired(ms) /\ Paired(es) /\ Bounded(es, cancelled)
        /\ Settled(ms, es, cancelled, retryAttempt)
        /\ Counted(lastAssistant, ms, es, cancelled, retryAttempt)
    BY <1>12, <1>14
  <2>4. Counted(lastAssistant, left, es, cancelled, retryAttempt)
    BY <2>2, <2>3 DEF Counted
  <2>5. Settled(left, es, cancelled, retryAttempt) /\ Paired(left)
    BY <1>13, <2>2, <2>3
  <2> QED
    BY <1>6, <2>1, <2>3, <2>4, <2>5
<1>15. /\ lastAssistant' = NoMessage \/ (UNCHANGED lastAssistant /\ driver[d].pc # "post")
       /\ retryAttempt' \in 0..MaxRetries
  BY <1>1, <1>6, <1>7
<1>16. UNCHANGED <<steering, followUp, run, event, subscribed, compaction>> /\ driver[d].pc # "running"
  BY <1>6, <1>7
<1> QED
  BY <1>5, <1>7, <1>8, <1>9, <1>10, <1>11, <1>13, <1>14, <1>15, <1>16, LeftStep

----------------------------------------------------------------------------
(* The invariant is kept by the steps of the loop *)

(* Neither callers nor the branch change.                                   *)
LEMMA StillTypes ==
  ASSUME Types, UNCHANGED <<entries, driver, sleeper, compaction, subscribed, pendingBash, cancelled>>,
         messages' \in Seq(SessionMessage), run' \in Run, run'.by = run.by,
         run'.pc = "off" <=> run.pc = "off", QueuesOK', EventOK', CountsOK', HistoryOK'
  PROVE  Types'
<1>1. BranchOK' /\ DriverOK' /\ CompactionOK'
  BY DEF Types, BranchOK, DriverOK, CompactionOK
<1>2. RunOK'
  BY DEF Types, RunOK
<1> QED
  BY <1>1, <1>2 DEF Types

(* What the session hears of only later leaves it as it is.                 *)
LEMMA Untouched ==
  ASSUME Inv, Watched, UNCHANGED <<session, history>>
  PROVE  /\ CountsOK' /\ HistoryOK'
         /\ UNCHANGED <<entries, driver, sleeper, compaction, pendingBash, cancelled, lastAssistant, retryAttempt>>
<1>1. UNCHANGED <<entries, driver, compaction, shown, lastAssistant, retryAttempt, sleeper, overflowTried,
                  pendingBash, ran, fate, unheard, cancelled>>
  BY DEF session, history
<1>2. CountsOK'
  BY <1>1, Watching DEF Inv, Types, CountsOK
<1>3. HistoryOK'
  BY <1>1 DEF Inv, Types, HistoryOK
<1> QED
  BY <1>1, <1>2, <1>3

(* An event that is announced is heard, or the session goes astray.         *)
LEMMA Heard ==
  ASSUME Inv, Watched, NEW kind \in {"start", "end"}, NEW m, event.kind # kind, event' = Emit(kind, m)
  PROVE  /\ event'.kind = kind /\ event'.message = m /\ event'.heard = subscribed /\ event' # NoEvent
         /\ ~astray' => event'.heard /\ compaction.pc # "summarizing" /\ ~astray /\ Orderly
<1>1. event'.kind = kind /\ event'.message = m /\ event'.heard = subscribed
  BY DEF Emit
<1>2. event' # NoEvent /\ event' # event
  BY <1>1 DEF NoEvent
<1>3. ASSUME ~astray' PROVE event'.heard /\ compaction.pc # "summarizing" /\ ~astray /\ Orderly
  <2>1. ~astray /\ ~Strays /\ Orderly
    BY <1>3, Watching DEF Inv
  <2>2. event'.heard
    BY <1>1, <1>2, <2>1 DEF Strays
  <2>3. compaction.pc # "summarizing"
    BY <1>1, <2>2 DEF Inv, Types, CompactionOK
  <2> QED
    BY <2>1, <2>2, <2>3
<1> QED
  BY <1>1, <1>2, <1>3

(* While the run goes on the reply heard last is no failure.                *)
LEMMA NoFailure ==
  ASSUME ReplyWaits, Urgent = {}, run.pc # "end"
  PROVE  lastAssistant.ended # "error"
  BY DEF ReplyWaits, Urgent

(* A message is put into the transcript, and announced.                     *)
LEMMA StoredOrder ==
  ASSUME Inv, Watched, Urgent = {}, NEW m \in SessionMessage,
         event.kind # "end", run.pc # "end", run.pc # "off", event' = Emit("end", m),
         messages' = Append(messages, m), Orderly => Follows(messages, m) /\ Follows(entries, m),
         UNCHANGED <<session, history>>, run'.pc # "off"
  PROVE  ~astray' => /\ Orderly /\ InOrder' /\ ReplyCounted' /\ ReplyWaits' /\ event' # NoEvent
                     /\ compaction'.pc # "summarizing"
                     /\ m.ended # "error" => EventCounted'
                     /\ m = Last(messages') /\ messages' # <<>>
<1>0. Types /\ messages \in Seq(SessionMessage)
  BY DEF Inv, Types, BranchOK
<1>1. UNCHANGED <<entries, driver, compaction, cancelled, lastAssistant, retryAttempt>>
  BY Untouched
<1>2. event'.kind = "end" /\ event'.message = m /\ event' # NoEvent
  BY Heard
<1>3. m = Last(messages') /\ messages' # <<>>
  BY <1>0, Appended
<1> SUFFICES ASSUME ~astray'
             PROVE  /\ Orderly /\ InOrder' /\ ReplyCounted' /\ ReplyWaits'
                    /\ compaction'.pc # "summarizing"
                    /\ m.ended # "error" => EventCounted'
  BY <1>2, <1>3
<1>4. Orderly /\ event'.heard /\ compaction.pc # "summarizing"
  BY Heard
<1>5. InOrder'
  <2>1. Paired(Append(messages, m))
    BY <1>0, <1>4, PairedAfter DEF Orderly, InOrder
  <2> QED
    BY <1>1, <1>4, <2>1 DEF Orderly, InOrder
<1>6. lastAssistant.ended # "error"
  BY <1>4, NoFailure DEF Orderly
<1>7. ReplyCounted' /\ ReplyWaits'
  BY <1>1, <1>4, <1>6 DEF Orderly, ReplyCounted, ReplyWaits, Counted
<1>8. m.ended # "error" => EventCounted'
  BY <1>1, <1>2, <1>3, <1>4 DEF Orderly, EventCounted, Follows
<1> QED
  BY <1>1, <1>4, <1>5, <1>7, <1>8

(* A message of the client is stored.                                       *)
LEMMA StoreMessageStep ==
  ASSUME Inv, Watched, Urgent = {}, StoreMessage, UNCHANGED <<session, history>>
  PROVE  Inv'
<1>0. Types
  BY DEF Inv
<1>1. PICK m \in UserMsg : m = event.message /\ run.pc = "turn"
  BY <1>0 DEF StoreMessage, Types, EventOK
<1>2. m \in SessionMessage /\ m.is = "user" /\ m.ended = ""
  BY Said
<1>3. /\ event.kind = "start" /\ event' = Emit("end", m) /\ messages' = Append(messages, m)
      /\ UNCHANGED <<steering, followUp, run, subscribed>>
  BY <1>1 DEF StoreMessage
<1>4. /\ CountsOK' /\ HistoryOK'
      /\ UNCHANGED <<entries, driver, sleeper, compaction, pendingBash, cancelled>>
  BY Untouched
<1>5. event'.kind = "end" /\ event'.message = m /\ event'.heard = subscribed
  BY <1>3, Heard
<1>6. Types'
  <2>1. EventOK'
    <3>1. subscribed \in BOOLEAN
      BY <1>0 DEF Types, CompactionOK
    <3>2. event' \in [kind : {"none", "start", "end"}, message : SessionMessage, heard : BOOLEAN]
      BY <1>2, <1>3, <3>1 DEF Emit
    <3> QED
      BY <1>1, <1>2, <1>3, <1>5, <3>2 DEF EventOK
  <2>2. QueuesOK' /\ run' \in Run
    BY <1>0, <1>3 DEF Types, QueuesOK, RunOK
  <2>3. messages' \in Seq(SessionMessage)
    BY <1>0, <1>2, <1>3, Appended DEF Types, BranchOK
  <2> QED
    BY <1>0, <1>3, <1>4, <2>1, <2>2, <2>3, StillTypes
<1>7. ASSUME ~astray' PROVE Orderly'
  <2>1. Follows(messages, m) /\ Follows(entries, m)
    BY <1>2 DEF Follows
  <2>2. InOrder' /\ ReplyCounted' /\ ReplyWaits' /\ event' # NoEvent /\ EventCounted'
    BY <1>1, <1>2, <1>3, <1>7, <2>1, StoredOrder
  <2>3. RunCounted' /\ BatchPaired'
    BY <1>1, <1>3, <2>2 DEF RunCounted, BatchPaired
  <2> QED
    BY <2>2, <2>3 DEF Orderly
<1> QED
  BY <1>6, <1>7 DEF Inv

(* A message of the client is announced.                                    *)
LEMMA StartedStep == ASSUME Inv, Watched, Started PROVE Inv'
<1>0. Types /\ run \in Run
  BY DEF Inv, Types, RunOK
<1>1. /\ run.pc = "turn" /\ event = NoEvent /\ event.kind = "none" /\ run.inbox # <<>>
      /\ event' = Emit("start", Head(run.inbox)) /\ run' = [run EXCEPT !.inbox = Tail(@)]
      /\ UNCHANGED <<messages, steering, followUp, subscribed, entries, driver, compaction, lastAssistant,
                     retryAttempt, sleeper, pendingBash, ran, fate, cancelled>>
  BY DEF Started, StartMessage, Ready, NoEvent
<1>2. Head(run.inbox) \in UserMsg /\ Tail(run.inbox) \in Seq(UserMsg)
  <2>1. run.inbox \in Seq(UserMsg)
    BY <1>0 DEF Run
  <2> QED
    BY <1>1, <2>1, HeadTailProperties
<1>3. PICK m \in UserMsg : m = Head(run.inbox)
  BY <1>2
<1>4. m \in SessionMessage /\ m.is = "user" /\ m.id \in Msg
  BY Said
<1>5. event'.kind = "start" /\ event'.message = m /\ event' # NoEvent
  BY <1>1, <1>3, Heard
<1>6. run' \in Run /\ run'.by = run.by /\ run'.pc = "turn"
  BY <1>0, <1>1, <1>2 DEF Run
<1>7. Types'
  <2>1. EventOK'
    <3>1. subscribed \in BOOLEAN
      BY <1>0 DEF Types, CompactionOK
    <3>2. event' \in [kind : {"none", "start", "end"}, message : SessionMessage, heard : BOOLEAN]
      BY <1>1, <1>3, <1>4, <3>1 DEF Emit
    <3> QED
      BY <1>4, <1>5, <1>6, <3>2 DEF EventOK
  <2>2. QueuesOK' /\ messages' \in Seq(SessionMessage)
    BY <1>0, <1>1 DEF Types, QueuesOK, BranchOK
  <2>3. CountsOK'
    <3>1. overflowTried' \in BOOLEAN
      BY <1>0 DEF Started, Types, CountsOK
    <3> QED
      BY <1>0, <1>1, <3>1, Watching DEF Types, CountsOK
  <2>4. HistoryOK'
    <3>1. shown' \subseteq Msg /\ unheard' \subseteq Msg
      BY <1>0, <1>4, <1>5 DEF Started, Types, HistoryOK
    <3> QED
      BY <1>0, <1>1, <3>1 DEF Types, HistoryOK
  <2> QED
    BY <1>0, <1>1, <1>6, <2>1, <2>2, <2>3, <2>4, StillTypes
<1>8. ASSUME ~astray' PROVE Orderly'
  <2>1. Orderly /\ event'.heard /\ compaction.pc # "summarizing"
    BY <1>1, <1>3, <1>8, Heard
  <2>2. InOrder' /\ ReplyCounted'
    BY <1>1, <2>1 DEF Orderly, InOrder, ReplyCounted
  <2>3. ReplyWaits'
    BY <1>0, <1>1, <1>6, <2>1, StillWaits DEF Orderly
  <2>4. EventCounted'
    BY <1>1, <1>5, <2>1 DEF EventCounted
  <2>5. RunCounted' /\ BatchPaired'
    BY <1>5, <1>6 DEF RunCounted, BatchPaired
  <2> QED
    BY <2>2, <2>3, <2>4, <2>5 DEF Orderly
<1> QED
  BY <1>7, <1>8 DEF Inv

(* An entry that is no compaction is put on the branch.                     *)
LEMMA GrownBy ==
  ASSUME Types, NEW m \in SessionMessage, m.is # "compaction", entries' = Append(entries, m), UNCHANGED cancelled
  PROVE  Grown /\ Sound(entries') /\ cancelled' \subseteq 0..Len(entries')
<1>1. /\ entries \in Seq(SessionMessage) /\ Len(entries) \in Nat /\ Sound(entries)
      /\ cancelled \subseteq 0..Len(entries) /\ DOMAIN entries = 1..Len(entries)
  BY DEF Types, BranchOK
<1>2. PICK es : es = Append(entries, m)
  OBVIOUS
<1>3. /\ es \in Seq(SessionMessage) /\ Len(es) = Len(entries) + 1 /\ es[Len(entries) + 1] = m
      /\ \A i \in 1..Len(entries) : es[i] = entries[i]
  BY <1>1, <1>2, Appended
<1>4. Grown
  BY <1>1, <1>2, <1>3 DEF Grown
<1>5. Sound(es)
  <2> SUFFICES ASSUME NEW i \in 1..(Len(entries) + 1), es[i].is = "compaction" PROVE es[i].n \in 1..Len(es)
    BY <1>3 DEF Sound
  <2>1. i \in 1..Len(entries)
    BY <1>1, <1>3
  <2>2. entries[i].n \in 1..Len(entries)
    BY <2>1, <1>1, <1>3 DEF Sound
  <2> QED
    BY <2>1, <2>2, <1>1, <1>3
<1>6. cancelled' \subseteq 0..Len(es)
  BY <1>1, <1>3
<1> QED
  BY <1>2, <1>4, <1>5, <1>6

(* A message that has ended is persisted.                                   *)
LEMMA PersistStep == ASSUME Inv, Watched, Persist PROVE Inv'
<1>0. Types /\ MaxRetries \in Nat
  BY SessionAssumption DEF Inv, SessionAssumption
<1>1. PICK m \in SessionMessage : m = event.message /\ m.is # "compaction"
  BY <1>0 DEF Types, EventOK
<1>2. /\ event.kind = "end" /\ event' = NoEvent /\ event # NoEvent /\ event'.kind = "none"
      /\ UNCHANGED <<messages, steering, followUp, run, subscribed, driver, compaction, shown, sleeper,
                     pendingBash, ran, fate, cancelled>>
  BY DEF Persist, NoEvent
<1>4. /\ entries \in Seq(SessionMessage) /\ Len(entries) \in Nat /\ Sound(entries)
      /\ cancelled \subseteq 0..Len(entries)
      /\ lastAssistant \in SessionMessage /\ retryAttempt \in 0..MaxRetries /\ overflowTried \in BOOLEAN
  BY <1>0 DEF Types, BranchOK, CountsOK
<1>5. PICK es : es = Append(entries, m)
  OBVIOUS
<1>6. /\ es \in Seq(SessionMessage) /\ Len(es) = Len(entries) + 1 /\ es[Len(entries) + 1] = m
      /\ Last(es) = m /\ es # <<>> /\ \A i \in 1..Len(entries) : es[i] = entries[i]
  BY <1>4, <1>5, Appended
<1>7. \/ entries' = es /\ event.heard
      \/ entries' = entries /\ ~event.heard
  BY <1>1, <1>5 DEF Persist
<1>8. Grown /\ Sound(entries') /\ cancelled' \subseteq 0..Len(entries')
  <2>1. CASE entries' = entries
    <3>1. Grown
      BY <1>0, <2>1, SameBranch
    <3> QED
      BY <1>2, <1>4, <2>1, <3>1
  <2>2. CASE entries' = es
    BY <1>0, <1>1, <1>2, <1>5, <2>2, GrownBy
  <2> QED
    BY <1>7, <2>1, <2>2
<1>9. Types'
  <2>1. BranchOK' /\ QueuesOK'
    BY <1>0, <1>2, <1>8 DEF Types, BranchOK, QueuesOK, Grown
  <2>2. RunOK' /\ DriverOK' /\ CompactionOK'
    BY <1>0, <1>2, <1>8, RunStays, DriverStays, CompactionStays
  <2>3. EventOK'
    <3>1. NoEvent \in [kind : {"none", "start", "end"}, message : SessionMessage, heard : BOOLEAN]
          /\ NoEvent.message.is # "compaction"
      BY DEF NoEvent, NoMessage, Message, SessionMessage
    <3> QED
      BY <1>2, <3>1 DEF EventOK
  <2>4. CountsOK'
    <3>1. lastAssistant' \in SessionMessage
      BY <1>1, <1>4 DEF Persist
    <3>2. retryAttempt' \in 0..MaxRetries
      BY <1>0, <1>4 DEF Persist
    <3>3. overflowTried' \in BOOLEAN
      BY <1>4 DEF Persist
    <3> QED
      BY <3>1, <3>2, <3>3, Watching DEF CountsOK
  <2>5. HistoryOK'
    <3>1. unheard' \subseteq Msg
      BY <1>0 DEF Persist, Types, HistoryOK
    <3> QED
      BY <1>0, <1>2, <3>1 DEF Types, HistoryOK
  <2> QED
    BY <2>1, <2>2, <2>3, <2>4, <2>5 DEF Types
<1>10. ASSUME ~astray' PROVE Orderly'
  <2>1. Orderly
    BY <1>10, Watching DEF Inv
  <2>2. /\ event.heard /\ compaction.pc # "summarizing"
        /\ Follows(entries, m) /\ messages # <<>> /\ m = Last(messages)
        /\ m.ended = "error" => /\ run.pc = "end" /\ FailedLast(messages)
                                /\ Fine(entries, cancelled, retryAttempt)
    BY <1>1, <1>2, <2>1 DEF Orderly, EventCounted
  <2>3. /\ entries' = es /\ lastAssistant' = (IF m.is = "assistant" THEN m ELSE lastAssistant)
        /\ retryAttempt' = IF Succeeds(m) THEN 0 ELSE retryAttempt
    BY <1>1, <1>5, <2>2 DEF Persist
  <2>4. Paired(es)
    BY <1>4, <1>5, <2>1, <2>2, PairedAfter DEF Orderly, InOrder
  <2>5. EventCounted'
    BY <1>2 DEF EventCounted
  <2>6. BatchPaired'
    <3>1. run.pc = "tools" => Follows(es, ToolResult(run.sent + 1))
      BY <1>6, <2>1, <2>2 DEF Orderly, BatchPaired, Follows
    <3> QED
      BY <1>2, <2>1, <2>3, <3>1 DEF Orderly, BatchPaired
  <2>7. CASE m.ended = "error"
    <3>1. m.is = "assistant" /\ lastAssistant' = m /\ retryAttempt' = retryAttempt
      BY <2>2, <2>3, <2>7 DEF FailedLast, EndsWithReply, Succeeds
    <3>2. Fine(es, cancelled, retryAttempt + 1) /\ Bounded(es, cancelled)
      BY <1>0, <1>4, <1>5, <2>1, <2>2, <2>7, FineAfterFailure DEF Orderly, InOrder
    <3>3. InOrder'
      BY <1>2, <2>1, <2>3, <2>4, <3>2 DEF Orderly, InOrder
    <3>4. \A k : Settled(messages', entries', cancelled', k)
      BY <1>2, <2>2, <2>7 DEF Settled
    <3>5. ReplyCounted'
      BY <1>2, <2>3, <2>7, <3>1, <3>2, <3>4 DEF ReplyCounted, Counted
    <3>6. ReplyWaits'
      BY <1>2, <2>2, <2>7 DEF ReplyWaits
    <3>7. RunCounted'
      BY <1>2, <2>2, <2>7, <3>4 DEF RunCounted
    <3> QED
      BY <2>5, <2>6, <3>3, <3>5, <3>6, <3>7 DEF Orderly
  <2>8. CASE m.ended # "error"
    <3>1. Fine(es, cancelled, 0) /\ Bounded(es, cancelled)
      BY <1>0, <1>4, <1>5, <2>1, <2>8, FineAfter DEF Orderly, InOrder
    <3>2. InOrder'
      BY <1>2, <2>1, <2>3, <2>4, <3>1 DEF Orderly, InOrder
    <3>3. PICK n \in Nat : n = retryAttempt'
      BY <1>0, <1>4, <2>3
    <3>4. Fine(es, cancelled, n) /\ Fine(es, cancelled, n + 1)
      <4>1. 0 \in Nat /\ n + 1 \in Nat /\ 0 <= n /\ 0 <= n + 1 /\ cancelled \subseteq cancelled
        OBVIOUS
      <4> QED
        BY <1>0, <1>6, <3>1, <4>1, FineMore
    <3>5. ReplyCounted'
      BY <1>2, <2>3, <3>1, <3>3, <3>4 DEF ReplyCounted, Counted, Settled
    <3>6. ReplyWaits'
      <4>1. CASE m.is = "assistant"
        BY <2>3, <2>8, <4>1 DEF ReplyWaits
      <4>2. CASE m.is # "assistant"
        BY <1>0, <1>2, <2>1, <2>3, <4>2, StillWaits DEF Orderly
      <4> QED
        BY <4>1, <4>2
    <3>7. RunCounted'
      BY <1>2, <2>2, <2>3, <3>1, <3>3, <3>4 DEF RunCounted, Settled
    <3> QED
      BY <2>5, <2>6, <3>2, <3>5, <3>6, <3>7 DEF Orderly
  <2> QED
    BY <2>7, <2>8
<1> QED
  BY <1>9, <1>10 DEF Inv

(* The run ends.                                                            *)
LEMMA FinishStep == ASSUME Inv, Watched, Finish PROVE Inv'
<1>0. Types
  BY DEF Inv
<1>1. /\ run.pc = "end" /\ event = NoEvent /\ run' = NoRun /\ Goto(run.by, "post", <<>>)
      /\ UNCHANGED <<messages, steering, followUp, event, subscribed, entries, shown, lastAssistant,
                     retryAttempt, sleeper, overflowTried, pendingBash, ran, fate, unheard, cancelled>>
  BY DEF Finish, FinishRun, Ready, history
<1>2. PICK d \in Caller : d = run.by /\ driver[d].pc = "running"
  BY <1>0, <1>1 DEF Types, RunOK, Run
<1>3. PICK w \in Driver : w = [Idle EXCEPT !.pc = "post", !.holds = <<>>] /\ w.pc = "post"
  <2>1. <<>> \in Seq(UserMsg)
    BY EmptySeq
  <2>2. [Idle EXCEPT !.pc = "post", !.holds = <<>>] \in Driver
    BY <2>1 DEF Idle, Driver
  <2>3. [Idle EXCEPT !.pc = "post", !.holds = <<>>].pc = "post"
    BY DEF Idle
  <2> QED
    BY <2>2, <2>3
<1>4. driver' = [driver EXCEPT ![d] = w] /\ CallerOK(w, entries') /\ driver'[d] = w
  BY <1>0, <1>1, <1>2, <1>3 DEF Goto, CallerOK, Types, DriverOK
<1>5. Grown
  BY <1>0, <1>1, SameBranch
<1>6. DriverOK'
  <2>1. sleeper # d
    BY <1>0, <1>2 DEF Types, DriverOK
  <2> QED
    BY <1>0, <1>1, <1>4, <1>5, <2>1, DriverMoves
<1>7. RunOK' /\ run'.pc = "off"
  <2>1. NoRun \in Run /\ NoRun.by = NoCaller /\ NoRun.pc = "off"
    <3>1. <<>> \in Seq(UserMsg)
      BY EmptySeq
    <3> QED
      BY <3>1 DEF NoRun, Run
  <2> QED
    BY <1>1, <2>1 DEF RunOK
<1>8. CompactionOK'
  <2>1. CASE compaction.pc = "stopping"
    <3>1. compaction' = [pc |-> "summarizing", kept |-> FirstKept(entries)]
      BY <2>1 DEF Finish
    <3>2. PICK k : k = FirstKept(entries)
      OBVIOUS
    <3>3. k # 0 => MayKeep(entries, k)
      BY <1>0, <3>2, KeepsFrom DEF Types, BranchOK
    <3>4. k \in Nat
      BY <1>0, <3>3 DEF MayKeep, Types, BranchOK
    <3>5. compaction' = [pc |-> "summarizing", kept |-> k]
      BY <3>1, <3>2
    <3> QED
      BY <1>0, <1>1, <2>1, <3>3, <3>4, <3>5 DEF Types, CompactionOK
  <2>2. CASE compaction.pc # "stopping"
    <3>1. UNCHANGED compaction
      BY <2>2 DEF Finish
    <3> QED
      BY <1>0, <1>1, <1>5, <3>1, CompactionStays
  <2> QED
    BY <2>1, <2>2
<1>9. Types'
  <2>1. QueuesOK' /\ BranchOK' /\ HistoryOK'
    BY <1>0, <1>1 DEF Types, QueuesOK, BranchOK, HistoryOK
  <2>2. EventOK'
    BY <1>0, <1>1, <1>7 DEF Types, EventOK, NoEvent
  <2>3. CountsOK'
    BY <1>0, <1>1, Watching DEF Types, CountsOK
  <2> QED
    BY <1>6, <1>7, <1>8, <2>1, <2>2, <2>3 DEF Types
<1>10. ASSUME ~astray' PROVE Orderly'
  <2>1. Orderly
    BY <1>10, Watching DEF Inv
  <2>2. InOrder' /\ ReplyCounted' /\ Settled(messages', entries', cancelled', retryAttempt')
    BY <1>1, <2>1 DEF Orderly, InOrder, ReplyCounted, RunCounted
  <2>3. ReplyWaits'
    BY <1>3, <1>4 DEF ReplyWaits, At
  <2> QED
    BY <1>7, <1>9, <2>2, <2>3, RestOrder
<1> QED
  BY <1>9, <1>10 DEF Inv

(* A step within a turn.                                                    *)
LEMMA SameTurn ==
  ASSUME Inv, Watched, UNCHANGED <<session, history, messages, steering, followUp, event, subscribed>>,
         run' \in Run, run'.by = run.by, run'.pc = run.pc, run'.inbox = run.inbox, run'.sent = run.sent
  PROVE  Inv'
<1>0. Types
  BY DEF Inv
<1>1. /\ CountsOK' /\ HistoryOK'
      /\ UNCHANGED <<entries, driver, sleeper, compaction, pendingBash, cancelled, lastAssistant, retryAttempt>>
  BY Untouched
<1>2. Types'
  <2>1. EventOK'
    BY <1>0 DEF Types, EventOK, NoEvent
  <2>2. QueuesOK' /\ messages' \in Seq(SessionMessage)
    BY <1>0 DEF Types, QueuesOK, BranchOK
  <2> QED
    BY <1>0, <1>1, <2>1, <2>2, StillTypes
<1>3. ASSUME ~astray' PROVE Orderly'
  <2>1. Orderly
    BY <1>3, Watching DEF Inv
  <2>2. InOrder' /\ ReplyCounted' /\ RunCounted' /\ BatchPaired'
    BY <1>1, <2>1 DEF Orderly, InOrder, ReplyCounted, RunCounted, BatchPaired
  <2>3. EventCounted'
    BY <1>1, <2>1 DEF Orderly, EventCounted
  <2>4. ReplyWaits'
    BY <1>0, <1>1, <2>1, StillWaits DEF Orderly
  <2> QED
    BY <2>2, <2>3, <2>4 DEF Orderly
<1> QED
  BY <1>2, <1>3 DEF Inv

(* A call is prepared.                                                      *)
LEMMA PrepareStep ==
  ASSUME Inv, Watched, Prepare, UNCHANGED <<session, history>>
  PROVE  Inv'
<1>1. run \in Run
  BY DEF Inv, Types, RunOK
<1>2. PICK opened, p : /\ opened = IF run.aborted THEN run.open ELSE run.open \cup {run.prepared + 1}
                       /\ p = run.prepared + 1
                       /\ run' = [run EXCEPT !.prepared = p, !.cut = run.aborted, !.open = opened]
  BY DEF Prepare
<1>5. opened \in SUBSET Nat /\ p \in Nat
  BY <1>1, <1>2 DEF Run
<1>3. run' \in Run /\ run'.by = run.by /\ run'.pc = run.pc /\ run'.inbox = run.inbox /\ run'.sent = run.sent
  BY <1>1, <1>2, <1>5 DEF Run
<1>4. UNCHANGED <<session, history, messages, steering, followUp, event, subscribed>>
  BY DEF Prepare
<1> QED
  BY <1>3, <1>4, SameTurn

(* A tool has a result.                                                     *)
LEMMA ExecuteStep ==
  ASSUME Inv, Watched, NEW c, Execute(c), UNCHANGED <<session, history>>
  PROVE  Inv'
<1>1. run \in Run
  BY DEF Inv, Types, RunOK
<1>2. run' = [run EXCEPT !.open = @ \ {c}]
  BY DEF Execute
<1>3. run' \in Run /\ run'.by = run.by /\ run'.pc = run.pc /\ run'.inbox = run.inbox /\ run'.sent = run.sent
  BY <1>1, <1>2 DEF Run
<1>4. UNCHANGED <<session, history, messages, steering, followUp, event, subscribed>>
  BY DEF Execute
<1> QED
  BY <1>3, <1>4, SameTurn

(* The steering queue is polled, or a request is sent.                      *)
LEMMA RequestStep ==
  ASSUME Inv, Watched, Request, UNCHANGED <<session, history>>
  PROVE  Inv'
<1>0. Types /\ run \in Run /\ steering \in Seq(UserMsg) /\ <<>> \in Seq(UserMsg)
  BY EmptySeq DEF Inv, Types, RunOK, QueuesOK
<1>1. /\ run.pc = "turn" /\ run.inbox = <<>> /\ event = NoEvent
      /\ UNCHANGED <<messages, followUp, event, subscribed>>
  BY DEF Request, Ready
<1>2. PICK polled, pc :
        /\ polled = (IF run.poll THEN Drained(steering) ELSE <<>>)
        /\ pc = (IF polled = <<>> THEN "stream" ELSE "turn")
        /\ run' = [run EXCEPT !.inbox = polled, !.poll = FALSE, !.pc = pc]
        /\ steering' = IF run.poll THEN Kept(steering) ELSE steering
  BY DEF Request
<1>3. polled \in Seq(UserMsg) /\ pc \in {"stream", "turn"} /\ steering' \in Seq(UserMsg)
  BY <1>0, <1>2, Drawn
<1>4. run' \in Run /\ run'.by = run.by /\ run'.pc = pc /\ run'.inbox = polled
  BY <1>0, <1>2, <1>3 DEF Run
<1>5. /\ CountsOK' /\ HistoryOK'
      /\ UNCHANGED <<entries, driver, sleeper, compaction, pendingBash, cancelled, lastAssistant, retryAttempt>>
  BY Untouched
<1>6. Types'
  <2>1. EventOK'
    BY <1>0, <1>1 DEF Types, EventOK, NoEvent
  <2>2. QueuesOK' /\ messages' \in Seq(SessionMessage)
    BY <1>0, <1>1, <1>3 DEF Types, QueuesOK, BranchOK
  <2>3. run'.pc = "off" <=> run.pc = "off"
    BY <1>1, <1>3, <1>4
  <2> QED
    BY <1>0, <1>1, <1>4, <1>5, <2>1, <2>2, <2>3, StillTypes
<1>7. ASSUME ~astray' PROVE Orderly'
  <2>1. Orderly
    BY <1>7, Watching DEF Inv
  <2>2. InOrder' /\ ReplyCounted'
    BY <1>1, <1>5, <2>1 DEF Orderly, InOrder, ReplyCounted
  <2>3. RunCounted'
    BY <1>1, <1>2, <1>3, <1>4, <1>5, <2>1 DEF Orderly, RunCounted
  <2>4. BatchPaired'
    BY <1>3, <1>4 DEF BatchPaired
  <2>5. EventCounted'
    BY <1>1 DEF EventCounted, NoEvent
  <2>6. ReplyWaits'
    BY <1>0, <1>1, <1>5, <2>1, StillWaits DEF Orderly
  <2> QED
    BY <2>1, <2>2, <2>3, <2>4, <2>5, <2>6 DEF Orderly
<1> QED
  BY <1>6, <1>7 DEF Inv

(* The reply is complete.                                                   *)
LEMMA RespondStep ==
  ASSUME Inv, Watched, Urgent = {}, NEW m \in Replies, Respond(m), UNCHANGED <<session, history>>
  PROVE  Inv'
<1>0. Types /\ run \in Run
  BY DEF Inv, Types, RunOK
<1>1. /\ run.pc = "stream" /\ event = NoEvent /\ event.kind = "none"
      /\ messages' = Append(messages, m) /\ event' = Emit("end", m)
      /\ UNCHANGED <<steering, followUp, subscribed>>
  BY DEF Respond, Ready, NoEvent
<1>2. /\ m \in SessionMessage /\ m.is = "assistant" /\ m.n \in Nat
      /\ m.n > 0 => m.ended \notin {"error", "overflow", "aborted"}
  <2>1. m \in {Reply(e, 0) : e \in Endings} \/ m = Reply("aborted", 0) \/ m \in {Reply("toolUse", n) : n \in 1..MaxCalls}
    BY DEF Replies
  <2>2. \A e \in Endings \cup {"aborted", "toolUse"}, n \in Nat :
          /\ Reply(e, n) \in SessionMessage /\ Reply(e, n).is = "assistant" /\ Reply(e, n).n = n
          /\ Reply(e, n).ended = e
    BY AgentAssumption DEF AgentAssumption, Reply, Message, SessionMessage
  <2>3. CASE m \in {Reply(e, 0) : e \in Endings}
    BY <2>2, <2>3
  <2>4. CASE m = Reply("aborted", 0)
    BY <2>2, <2>4
  <2>5. CASE m \in {Reply("toolUse", n) : n \in 1..MaxCalls}
    BY <2>2, <2>5
  <2> QED
    BY <2>1, <2>3, <2>4, <2>5
<1>3. PICK pc : /\ pc = CASE m.ended \in {"error", "overflow", "aborted"} -> "end"
                          [] m.n > 0 -> "tools"
                          [] OTHER -> "answered"
                /\ run' = [run EXCEPT !.calls = m.n, !.prepared = 0, !.sent = 0, !.cut = FALSE, !.pc = pc]
  BY DEF Respond
<1>4. /\ pc \in {"end", "tools", "answered"}
      /\ m.ended = "error" => pc = "end"
      /\ pc = "tools" => m.n > 0
  <2>1. CASE m.ended \in {"error", "overflow", "aborted"}
    <3>1. ~(m.n > 0)
      BY <1>2, <2>1
    <3> QED
      BY <1>3, <2>1, <3>1
  <2>2. CASE m.ended \notin {"error", "overflow", "aborted"} /\ m.n > 0
    BY <1>3, <2>2
  <2>3. CASE m.ended \notin {"error", "overflow", "aborted"} /\ ~(m.n > 0)
    BY <1>3, <2>3
  <2> QED
    BY <2>1, <2>2, <2>3
<1>5. run' \in Run /\ run'.by = run.by /\ run'.pc = pc /\ run'.sent = 0
  BY <1>0, <1>2, <1>3, <1>4 DEF Run
<1>6. /\ CountsOK' /\ HistoryOK'
      /\ UNCHANGED <<entries, driver, sleeper, compaction, pendingBash, cancelled, lastAssistant, retryAttempt>>
  BY Untouched
<1>7. event'.kind = "end" /\ event'.message = m /\ event' # NoEvent
  BY <1>1, <1>2, Heard
<1>8. Types'
  <2>1. EventOK'
    <3>1. subscribed \in BOOLEAN
      BY <1>0 DEF Types, CompactionOK
    <3>2. event' \in [kind : {"none", "start", "end"}, message : SessionMessage, heard : BOOLEAN]
      BY <1>1, <1>2, <3>1 DEF Emit
    <3> QED
      BY <1>2, <1>4, <1>5, <1>7, <3>2 DEF EventOK
  <2>2. QueuesOK' /\ messages' \in Seq(SessionMessage)
    BY <1>0, <1>1, <1>2, Appended DEF Types, QueuesOK, BranchOK
  <2>3. run'.pc = "off" <=> run.pc = "off"
    BY <1>1, <1>4, <1>5
  <2> QED
    BY <1>0, <1>1, <1>5, <1>6, <2>1, <2>2, <2>3, StillTypes
<1>9. ASSUME ~astray' PROVE Orderly'
  <2>1. Follows(messages, m) /\ Follows(entries, m)
    BY <1>2 DEF Follows
  <2>2. /\ event.kind # "end" /\ run.pc # "end" /\ run.pc # "off" /\ run'.pc # "off"
    BY <1>1, <1>4, <1>5
  <2>3. /\ Orderly /\ InOrder' /\ ReplyCounted' /\ ReplyWaits' /\ event' # NoEvent
        /\ compaction'.pc # "summarizing"
        /\ m.ended # "error" => EventCounted'
        /\ m = Last(messages') /\ messages' # <<>>
    BY <1>1, <1>2, <1>9, <2>1, <2>2, StoredOrder
  <2>4. EventCounted'
    <3>1. CASE m.ended = "error"
      <4>1. FailedLast(messages')
        BY <1>2, <2>3, <3>1 DEF FailedLast, EndsWithReply
      <4>2. Fine(entries, cancelled, retryAttempt)
        BY <1>1, <2>3 DEF Orderly, RunCounted
      <4>3. event'.heard /\ Follows(entries', m)
        BY <1>1, <1>2, <1>9, Heard DEF Follows
      <4> QED
        BY <1>4, <1>5, <1>6, <1>7, <2>3, <3>1, <4>1, <4>2, <4>3 DEF EventCounted
    <3> QED
      BY <2>3, <3>1
  <2>5. RunCounted'
    BY <1>4, <1>5, <2>3 DEF RunCounted
  <2>6. BatchPaired'
    <3>1. ASSUME pc = "tools" PROVE Follows(messages', ToolResult(0 + 1))
      <4>1. ToolResult(0 + 1).n = 1
        BY DEF ToolResult, Message
      <4>2. Last(messages').is = "assistant" /\ Last(messages').n > 0
        BY <1>2, <1>4, <2>3, <3>1
      <4> QED
        BY <2>3, <4>1, <4>2 DEF Follows
    <3> QED
      BY <1>5, <2>3, <3>1 DEF BatchPaired
  <2> QED
    BY <2>3, <2>4, <2>5, <2>6 DEF Orderly
<1> QED
  BY <1>8, <1>9 DEF Inv

(* A call is answered.                                                      *)
LEMMA AnswerStep ==
  ASSUME Inv, Watched, Urgent = {}, Answer, UNCHANGED <<session, history>>
  PROVE  Inv'
<1>0. Types /\ run \in Run /\ run.sent \in Nat
  BY DEF Inv, Types, RunOK, Run
<1>1. PICK m : m = ToolResult(run.sent + 1)
  OBVIOUS
<1>2. m \in SessionMessage /\ m.is = "toolResult" /\ m.n = run.sent + 1 /\ m.ended = ""
  <2>1. run.sent + 1 \in Nat
    BY <1>0
  <2> QED
    BY <1>1, <2>1 DEF ToolResult, Message, SessionMessage
<1>3. /\ run.pc = "tools" /\ event = NoEvent /\ event.kind = "none"
      /\ messages' = Append(messages, m) /\ event' = Emit("end", m)
      /\ run' = [run EXCEPT !.sent = @ + 1]
      /\ UNCHANGED <<steering, followUp, subscribed>>
  BY <1>1 DEF Answer, Ready, NoEvent
<1>4. run' \in Run /\ run'.by = run.by /\ run'.pc = "tools" /\ run'.sent = run.sent + 1
  <2>1. PICK r : r = run
    OBVIOUS
  <2>2. PICK n : n = run.sent + 1
    OBVIOUS
  <2>3. r \in Run /\ n \in Nat /\ run' = [r EXCEPT !.sent = n] /\ r.pc = "tools"
    BY <1>0, <1>3, <2>1, <2>2
  <2>4. [r EXCEPT !.sent = n] \in Run
    BY <2>3 DEF Run
  <2>5. [r EXCEPT !.sent = n].by = r.by /\ [r EXCEPT !.sent = n].pc = r.pc /\ [r EXCEPT !.sent = n].sent = n
    BY <2>3 DEF Run
  <2> QED
    BY <2>1, <2>2, <2>3, <2>4, <2>5
<1>5. /\ CountsOK' /\ HistoryOK'
      /\ UNCHANGED <<entries, driver, sleeper, compaction, pendingBash, cancelled, lastAssistant, retryAttempt>>
  BY Untouched
<1>6. event'.kind = "end" /\ event'.message = m /\ event' # NoEvent
  BY <1>2, <1>3, Heard
<1>7. Types'
  <2>1. EventOK'
    <3>1. subscribed \in BOOLEAN
      BY <1>0 DEF Types, CompactionOK
    <3>2. event' \in [kind : {"none", "start", "end"}, message : SessionMessage, heard : BOOLEAN]
      BY <1>2, <1>3, <3>1 DEF Emit
    <3> QED
      BY <1>2, <1>4, <1>6, <3>2 DEF EventOK
  <2>2. QueuesOK' /\ messages' \in Seq(SessionMessage)
    BY <1>0, <1>2, <1>3, Appended DEF Types, QueuesOK, BranchOK
  <2>3. run'.pc = "off" <=> run.pc = "off"
    BY <1>3, <1>4
  <2> QED
    BY <1>0, <1>3, <1>4, <1>5, <2>1, <2>2, <2>3, StillTypes
<1>8. ASSUME ~astray' PROVE Orderly'
  <2>1. Orderly => Follows(messages, m) /\ Follows(entries, m)
    BY <1>1, <1>3 DEF Orderly, BatchPaired
  <2>2. event.kind # "end" /\ run.pc # "end" /\ run.pc # "off" /\ run'.pc # "off"
    BY <1>3, <1>4
  <2>3. /\ Orderly /\ InOrder' /\ ReplyCounted' /\ ReplyWaits' /\ event' # NoEvent
        /\ compaction'.pc # "summarizing" /\ EventCounted'
        /\ m = Last(messages') /\ messages' # <<>>
    BY <1>2, <1>3, <1>8, <2>1, <2>2, StoredOrder
  <2>4. RunCounted'
    BY <1>4, <2>3 DEF RunCounted
  <2>5. BatchPaired'
    <3>1. ToolResult(run.sent + 1 + 1).n = run.sent + 1 + 1
      BY DEF ToolResult, Message
    <3>2. Last(messages').n = ToolResult(run.sent + 1 + 1).n - 1
      <4>1. (run.sent + 1 + 1) - 1 = run.sent + 1
        BY <1>0
      <4> QED
        BY <1>2, <2>3, <3>1, <4>1
    <3>3. Follows(messages', ToolResult(run.sent + 1 + 1))
      BY <1>2, <2>3, <3>2 DEF Follows
    <3> QED
      BY <1>4, <2>3, <3>3 DEF BatchPaired
  <2> QED
    BY <2>3, <2>4, <2>5 DEF Orderly
<1> QED
  BY <1>7, <1>8 DEF Inv

(* A turn ends.                                                             *)
LEMMA EndTurnStep ==
  ASSUME Inv, Watched, NEW terminate \in BOOLEAN, EndTurn(terminate), UNCHANGED <<session, history>>
  PROVE  Inv'
<1>0. Types /\ run \in Run /\ steering \in Seq(UserMsg) /\ followUp \in Seq(UserMsg) /\ <<>> \in Seq(UserMsg)
  BY EmptySeq DEF Inv, Types, RunOK, QueuesOK
<1>1. /\ run.pc \in {"answered", "tools"} /\ event = NoEvent
      /\ UNCHANGED <<messages, event, subscribed>>
  BY DEF EndTurn, Ready
<1>2. PICK steered, stops, followed, inbox, pc :
        /\ steered = Drained(steering)
        /\ stops = (steered = <<>> /\ (run.pc = "answered" \/ terminate))
        /\ followed = (IF stops THEN Drained(followUp) ELSE <<>>)
        /\ inbox = steered \o followed
        /\ pc = (IF stops /\ followed = <<>> THEN "end" ELSE "turn")
        /\ run' = [run EXCEPT !.inbox = inbox, !.calls = 0, !.prepared = 0, !.sent = 0, !.cut = FALSE, !.pc = pc]
        /\ steering' = Kept(steering)
        /\ followUp' = IF stops THEN Kept(followUp) ELSE followUp
  BY DEF EndTurn
<1>3. /\ steered \in Seq(UserMsg) /\ followed \in Seq(UserMsg)
      /\ steering' \in Seq(UserMsg) /\ followUp' \in Seq(UserMsg)
  BY <1>0, <1>2, Drawn
<1>4. inbox \in Seq(UserMsg)
  BY <1>2, <1>3, ConcatProperties
<1>5. pc \in {"end", "turn"}
  BY <1>2
<1>6. run' \in Run /\ run'.by = run.by /\ run'.pc = pc
  BY <1>0, <1>2, <1>4, <1>5 DEF Run
<1>7. /\ CountsOK' /\ HistoryOK'
      /\ UNCHANGED <<entries, driver, sleeper, compaction, pendingBash, cancelled, lastAssistant, retryAttempt>>
  BY Untouched
<1>8. Types'
  <2>1. EventOK'
    BY <1>0, <1>1 DEF Types, EventOK, NoEvent
  <2>2. QueuesOK' /\ messages' \in Seq(SessionMessage)
    BY <1>0, <1>1, <1>3 DEF Types, QueuesOK, BranchOK
  <2>3. run'.pc = "off" <=> run.pc = "off"
    BY <1>1, <1>5, <1>6
  <2> QED
    BY <1>0, <1>1, <1>6, <1>7, <2>1, <2>2, <2>3, StillTypes
<1>9. ASSUME ~astray' PROVE Orderly'
  <2>1. Orderly
    BY <1>9, Watching DEF Inv
  <2>2. InOrder' /\ ReplyCounted'
    BY <1>1, <1>7, <2>1 DEF Orderly, InOrder, ReplyCounted
  <2>3. Fine(entries, cancelled, retryAttempt)
    <3>1. Fine(entries, cancelled, 0)
      BY <1>1, <2>1 DEF Orderly, RunCounted
    <3>2. 0 \in Nat /\ retryAttempt \in Nat /\ 0 <= retryAttempt /\ cancelled \subseteq cancelled /\ MaxRetries \in Nat
      BY <1>0, SessionAssumption DEF Types, CountsOK, SessionAssumption
    <3>3. entries \in Seq(SessionMessage)
      BY <1>0 DEF Types, BranchOK
    <3> QED
      BY <3>1, <3>2, <3>3, FineMore
  <2>4. RunCounted'
    BY <1>1, <1>5, <1>6, <1>7, <2>3 DEF RunCounted, Settled
  <2>5. BatchPaired'
    BY <1>5, <1>6 DEF BatchPaired
  <2>6. EventCounted'
    BY <1>1 DEF EventCounted, NoEvent
  <2>7. ReplyWaits'
    BY <1>0, <1>1, <1>7, <2>1, StillWaits DEF Orderly
  <2> QED
    BY <2>2, <2>4, <2>5, <2>6, <2>7 DEF Orderly
<1> QED
  BY <1>8, <1>9 DEF Inv

----------------------------------------------------------------------------
(* The invariant is kept by the client *)

(* Nothing that the order is about changes.                                 *)
LEMMA SameOrder ==
  ASSUME Inv, Watched, run'.pc = run.pc, run'.inbox = run.inbox, run'.sent = run.sent,
         \/ UNCHANGED driver
         \/ \E d, w : d \in Caller /\ driver[d].pc # "post" /\ driver' = [driver EXCEPT ![d] = w],
         UNCHANGED <<messages, event, entries, cancelled, lastAssistant, retryAttempt>>,
         compaction'.pc = "summarizing" => compaction.pc = "summarizing" \/ run.pc = "off"
  PROVE  ~astray' => Orderly'
<1> SUFFICES ASSUME ~astray' PROVE Orderly'
  OBVIOUS
<1>1. Orderly /\ Types
  BY Watching DEF Inv
<1>2. InOrder' /\ ReplyCounted' /\ BatchPaired'
  BY <1>1 DEF Orderly, InOrder, ReplyCounted, BatchPaired
<1>3. RunCounted'
  BY <1>1 DEF Orderly, RunCounted
<1>4. EventCounted'
  <2>1. run.pc = "off" => event = NoEvent
    BY <1>1 DEF Types, EventOK
  <2> QED
    BY <1>1, <2>1 DEF Orderly, EventCounted
<1>5. ReplyWaits'
  BY <1>1, StillWaits DEF Orderly
<1> QED
  BY <1>2, <1>3, <1>4, <1>5 DEF Orderly

(* A message is queued.                                                     *)
LEMMA QueueStep ==
  ASSUME Inv, Watched, NEW u \in Msg, NEW how \in {"steer", "followUp"}, Queue(u, how)
  PROVE  Inv'
<1>0. Types
  BY DEF Inv
<1>1. /\ fate' = [fate EXCEPT ![u] = "sent"] /\ shown' = shown \cup {u}
      /\ \/ steering' = Append(steering, User(u)) /\ UNCHANGED followUp
         \/ followUp' = Append(followUp, User(u)) /\ UNCHANGED steering
      /\ UNCHANGED <<messages, run, event, subscribed, entries, driver, compaction,
                     lastAssistant, retryAttempt, sleeper, overflowTried, pendingBash, ran,
                     unheard, cancelled>>
  BY DEF Queue
<1>2. QueuesOK'
  <2>1. PICK m \in UserMsg : m = User(u)
    BY DEF UserMsg
  <2>2. steering \in Seq(UserMsg) /\ followUp \in Seq(UserMsg)
    BY <1>0 DEF Types, QueuesOK
  <2>3. Append(steering, m) \in Seq(UserMsg) /\ Append(followUp, m) \in Seq(UserMsg)
    BY <2>2
  <2> QED
    BY <1>1, <2>1, <2>2, <2>3 DEF QueuesOK
<1>3. HistoryOK'
  BY <1>0, <1>1 DEF Types, HistoryOK
<1>4. CountsOK'
  BY <1>0, <1>1, Watching DEF Types, CountsOK
<1>5. EventOK' /\ messages' \in Seq(SessionMessage) /\ run' \in Run
  BY <1>0, <1>1 DEF Types, EventOK, NoEvent, BranchOK, RunOK
<1>6. Types'
  BY <1>0, <1>1, <1>2, <1>3, <1>4, <1>5, StillTypes
<1>7. ~astray' => Orderly'
  BY <1>1, SameOrder
<1> QED
  BY <1>6, <1>7 DEF Inv

(* The queues are cleared.                                                  *)
LEMMA ClearQueueStep == ASSUME Inv, Watched, ClearQueue PROVE Inv'
<1>0. Types
  BY DEF Inv
<1>1. /\ shown' = {}
      /\ steering' = <<>> /\ followUp' = <<>>
      /\ fate' = [u \in Msg |-> IF User(u) \in Queued THEN "cleared" ELSE fate[u]]
      /\ UNCHANGED <<messages, run, event, subscribed, entries, driver, compaction,
                     lastAssistant, retryAttempt, sleeper, overflowTried, pendingBash, ran, unheard, cancelled>>
  BY DEF ClearQueue, clearAllQueues
<1>2. QueuesOK'
  BY <1>1, EmptySeq DEF QueuesOK
<1>3. HistoryOK'
  <2>1. fate' \in [Msg -> {"unsaid", "sent", "refused", "cleared"}]
    <3>1. \A u \in Msg : (IF User(u) \in Queued THEN "cleared" ELSE fate[u]) \in {"unsaid", "sent", "refused", "cleared"}
      BY <1>0 DEF Types, HistoryOK
    <3> QED
      BY <1>1, <3>1
  <2> QED
    BY <1>0, <1>1, <2>1 DEF Types, HistoryOK
<1>4. CountsOK'
  BY <1>0, <1>1, Watching DEF Types, CountsOK
<1>5. EventOK' /\ messages' \in Seq(SessionMessage) /\ run' \in Run
  BY <1>0, <1>1 DEF Types, EventOK, NoEvent, BranchOK, RunOK
<1>6. Types'
  BY <1>0, <1>1, <1>2, <1>3, <1>4, <1>5, StillTypes
<1>7. ~astray' => Orderly'
  BY <1>1, SameOrder
<1> QED
  BY <1>6, <1>7 DEF Inv

(* The run and the backoff are aborted, by abort() or by compact().         *)
LEMMA InterruptStep ==
  ASSUME Inv, Watched, Interrupt,
         UNCHANGED <<messages, steering, followUp, event, entries, shown, lastAssistant, retryAttempt,
                     sleeper, overflowTried, pendingBash, ran, fate, unheard, cancelled>>,
         CompactionOK',
         compaction'.pc = "summarizing" => compaction.pc = "summarizing" \/ run.pc = "off"
  PROVE  Inv'
<1>0. Types /\ run \in Run
  BY DEF Inv, Types, RunOK
<1>1. PICK b \in BOOLEAN : run' = [run EXCEPT !.aborted = b]
  <2>1. isStreaming \in BOOLEAN
    BY DEF isStreaming
  <2> QED
    BY <2>1 DEF Interrupt, AbortRun
<1>2. run' \in Run /\ run'.by = run.by /\ run'.pc = run.pc /\ run'.inbox = run.inbox /\ run'.sent = run.sent
  BY <1>0, <1>1 DEF Run
<1>3. Grown
  BY <1>0, SameBranch
<1>4. \/ UNCHANGED driver
      \/ \E d, w : /\ d \in Caller /\ d = sleeper /\ driver[d].pc \in {"backoff", "cancelled"}
                   /\ CallerOK(w, entries') /\ w.pc = "cancelled"
                   /\ driver' = [driver EXCEPT ![d] = w]
  <2>1. CASE sleeper \in Caller
    <3>1. PICK w \in Driver : w = [Idle EXCEPT !.pc = "cancelled", !.holds = <<>>] /\ w.pc = "cancelled"
      <4>1. <<>> \in Seq(UserMsg)
        BY EmptySeq
      <4>2. [Idle EXCEPT !.pc = "cancelled", !.holds = <<>>] \in Driver
        BY <4>1 DEF Idle, Driver
      <4>3. [Idle EXCEPT !.pc = "cancelled", !.holds = <<>>].pc = "cancelled"
        BY DEF Idle
      <4> QED
        BY <4>2, <4>3
    <3>2. driver' = [driver EXCEPT ![sleeper] = w]
      BY <2>1, <3>1 DEF Interrupt, Goto
    <3>3. CallerOK(w, entries') /\ driver[sleeper].pc \in {"backoff", "cancelled"}
      BY <1>0, <2>1, <3>1 DEF CallerOK, Types, DriverOK
    <3> QED
      BY <2>1, <3>1, <3>2, <3>3
  <2>2. CASE sleeper \notin Caller
    BY <2>2 DEF Interrupt
  <2> QED
    BY <2>1, <2>2
<1>5. DriverOK' /\ driver' \in [Caller -> Driver]
  <2>1. CASE UNCHANGED driver
    <3>1. DriverOK'
      BY <1>0, <1>3, <2>1, DriverStays
    <3> QED
      BY <3>1 DEF DriverOK
  <2>2. CASE \E d, w : /\ d \in Caller /\ d = sleeper /\ driver[d].pc \in {"backoff", "cancelled"}
                       /\ CallerOK(w, entries') /\ w.pc = "cancelled"
                       /\ driver' = [driver EXCEPT ![d] = w]
    <3>1. PICK d, w : /\ d \in Caller /\ d = sleeper /\ driver[d].pc \in {"backoff", "cancelled"}
                      /\ CallerOK(w, entries') /\ w.pc = "cancelled"
                      /\ driver' = [driver EXCEPT ![d] = w]
      BY <2>2
    <3>2. DriverOK'
      BY <1>0, <1>3, <3>1, DriverMoves
    <3> QED
      BY <3>2 DEF DriverOK
  <2> QED
    BY <1>4, <2>1, <2>2
<1>6. RunOK'
  <2>1. ASSUME run.pc # "off" PROVE driver'[run.by].pc = "running"
    <3>1. run.by \in Caller /\ driver[run.by].pc = "running"
      BY <1>0, <2>1 DEF Types, RunOK, Run
    <3>2. driver \in [Caller -> Driver]
      BY <1>0 DEF Types, DriverOK
    <3>3. CASE UNCHANGED driver
      BY <3>1, <3>3
    <3>4. CASE \E d, w : /\ d \in Caller /\ d = sleeper /\ driver[d].pc \in {"backoff", "cancelled"}
                         /\ CallerOK(w, entries') /\ w.pc = "cancelled"
                         /\ driver' = [driver EXCEPT ![d] = w]
      <4>1. PICK d, w : /\ d \in Caller /\ d = sleeper /\ driver[d].pc \in {"backoff", "cancelled"}
                        /\ CallerOK(w, entries') /\ w.pc = "cancelled"
                        /\ driver' = [driver EXCEPT ![d] = w]
        BY <3>4
      <4>2. d # run.by
        BY <3>1, <4>1
      <4> QED
        BY <3>1, <3>2, <4>1, <4>2
    <3> QED
      BY <1>4, <3>3, <3>4
  <2> QED
    BY <1>0, <1>2, <2>1 DEF Types, RunOK
<1>7. EventOK' /\ QueuesOK' /\ BranchOK'
  BY <1>0, <1>2 DEF Types, EventOK, NoEvent, QueuesOK, BranchOK
<1>8. CountsOK' /\ HistoryOK'
  BY <1>0, Watching DEF Types, CountsOK, HistoryOK
<1>9. Types'
  BY <1>5, <1>6, <1>7, <1>8 DEF Types
<1>10. ~astray' => Orderly'
  <2>1. \/ UNCHANGED driver
        \/ \E d, w : d \in Caller /\ driver[d].pc # "post" /\ driver' = [driver EXCEPT ![d] = w]
    BY <1>4
  <2> QED
    BY <1>2, <2>1, SameOrder
<1> QED
  BY <1>9, <1>10 DEF Inv

(* abort().                                                                 *)
LEMMA AbortStep == ASSUME Inv, Watched, Abort PROVE Inv'
<1>1. /\ Interrupt
      /\ UNCHANGED <<messages, steering, followUp, event, subscribed, entries, compaction,
                     shown, lastAssistant, retryAttempt, sleeper, overflowTried, pendingBash, ran,
                     fate, unheard, cancelled>>
  BY DEF Abort
<1>2. CompactionOK'
  BY <1>1 DEF Inv, Types, CompactionOK
<1> QED
  BY <1>1, <1>2, InterruptStep

(* compact() up to the summary.                                             *)
LEMMA BeginCompactStep == ASSUME Inv, Watched, BeginCompact PROVE Inv'
<1>1. /\ Interrupt /\ subscribed' = FALSE
      /\ UNCHANGED <<messages, steering, followUp, event, entries, shown, lastAssistant,
                     retryAttempt, sleeper, overflowTried, pendingBash, ran, fate, unheard, cancelled>>
  BY DEF BeginCompact
<1>2. PICK k : k = FirstKept(entries)
  OBVIOUS
<1>3. k \in Nat /\ (k # 0 => MayKeep(entries, k))
  <2>1. entries \in Seq(SessionMessage) /\ Sound(entries)
    BY DEF Inv, Types, BranchOK
  <2>2. k # 0 => MayKeep(entries, k)
    BY <1>2, <2>1, KeepsFrom
  <2> QED
    BY <2>1, <2>2 DEF MayKeep
<1>4. CASE isStreaming
  <2>1. compaction' = [pc |-> "stopping", kept |-> 0]
    BY <1>4 DEF BeginCompact
  <2>2. CompactionOK' /\ compaction'.pc = "stopping"
    BY <1>1, <2>1 DEF CompactionOK
  <2> QED
    BY <1>1, <2>2, InterruptStep
<1>5. CASE ~isStreaming
  <2>1. compaction' = [pc |-> "summarizing", kept |-> k]
    BY <1>2, <1>5 DEF BeginCompact
  <2>2. CompactionOK'
    BY <1>1, <1>3, <2>1 DEF CompactionOK
  <2>3. run.pc = "off"
    BY <1>5 DEF isStreaming
  <2> QED
    BY <1>1, <2>2, <2>3, InterruptStep
<1> QED
  BY <1>4, <1>5

(* A command has returned.                                                  *)
LEMMA BashReturnsStep == ASSUME Inv, Watched, NEW b \in Bash, BashReturns(b) PROVE Inv'
<1>0. Types /\ MaxRetries \in Nat
  BY SessionAssumption DEF Inv, SessionAssumption
<1>1. /\ ran' = ran \cup {b}
      /\ UNCHANGED <<steering, followUp, run, event, subscribed, driver, compaction, shown,
                     lastAssistant, retryAttempt, sleeper, overflowTried, fate, unheard, cancelled>>
  BY DEF BashReturns
<1>2. PICK m \in BashMsg : m = BashResult(b)
  BY DEF BashMsg
<1>3. m \in SessionMessage /\ m.is = "bash" /\ m.ended = ""
  BY Said
<1>4. /\ messages \in Seq(SessionMessage) /\ entries \in Seq(SessionMessage) /\ pendingBash \in Seq(BashMsg)
      /\ retryAttempt \in 0..MaxRetries
  BY <1>0 DEF Types, BranchOK, CountsOK
<1>5. \/ run.pc # "off" /\ UNCHANGED <<messages, entries>> /\ pendingBash' = Append(pendingBash, m)
      \/ /\ run.pc = "off" /\ UNCHANGED pendingBash
         /\ messages' = Append(messages, m) /\ entries' = Append(entries, m)
  BY <1>2 DEF BashReturns, Deferred, isStreaming, State
<1>6. /\ messages' \in Seq(SessionMessage) /\ entries' \in Seq(SessionMessage)
      /\ pendingBash' \in Seq(BashMsg)
  <2>1. /\ Append(messages, m) \in Seq(SessionMessage) /\ Append(entries, m) \in Seq(SessionMessage)
        /\ Append(pendingBash, m) \in Seq(BashMsg)
    <3>1. \A q \in Seq(BashMsg) : Append(q, m) \in Seq(BashMsg)
      BY AppendProperties
    <3>2. \A q \in Seq(SessionMessage) : Append(q, m) \in Seq(SessionMessage)
      BY <1>3, AppendProperties
    <3> QED
      BY <1>4, <3>1, <3>2
  <2> QED
    BY <1>4, <1>5, <2>1
<1>7. Grown /\ Sound(entries') /\ cancelled' \subseteq 0..Len(entries')
  <2>1. CASE UNCHANGED entries
    <3>1. Grown
      BY <1>0, <2>1, SameBranch
    <3> QED
      BY <1>0, <1>1, <2>1, <3>1 DEF Types, BranchOK
  <2>2. CASE entries' = Append(entries, m)
    <3>1. m.is # "compaction" /\ UNCHANGED cancelled
      BY <1>1, <1>3
    <3> QED
      BY <1>0, <1>3, <2>2, <3>1, GrownBy
  <2> QED
    BY <1>5, <2>1, <2>2
<1>8. Types'
  <2>1. BranchOK' /\ QueuesOK' /\ EventOK'
    BY <1>0, <1>1, <1>6, <1>7 DEF Types, BranchOK, QueuesOK, EventOK, NoEvent
  <2>2. RunOK' /\ DriverOK' /\ CompactionOK'
    BY <1>0, <1>1, <1>7, RunStays, DriverStays, CompactionStays
  <2>3. CountsOK' /\ HistoryOK'
    BY <1>0, <1>1, Watching DEF Types, CountsOK, HistoryOK
  <2> QED
    BY <2>1, <2>2, <2>3 DEF Types
<1>9. ASSUME ~astray' PROVE Orderly'
  <2>1. Orderly
    BY <1>9, Watching DEF Inv
  <2>2. CASE run.pc # "off"
    <3>1. UNCHANGED <<messages, event, entries, cancelled, lastAssistant, retryAttempt, driver, run, compaction>>
      BY <1>1, <1>5, <2>2
    <3> QED
      BY <1>9, <3>1, SameOrder
  <2>3. CASE run.pc = "off"
    <3>1. Follows(messages, m) /\ Follows(entries, m) /\ m.ended # "error"
      BY <1>3 DEF Follows
    <3>2. messages' = Append(messages, m) /\ entries' = Append(entries, m) /\ cancelled' = cancelled
      BY <1>1, <1>5, <2>3
    <3>3. Paired(messages') /\ Paired(entries')
      BY <1>3, <1>4, <2>1, <3>1, <3>2, PairedAfter DEF Orderly, InOrder
    <3>4. Fine(entries', cancelled, 0) /\ Bounded(entries', cancelled)
      BY <1>0, <1>3, <1>4, <2>1, <3>1, <3>2, FineAfter DEF Orderly, InOrder
    <3>5. PICK n, es : n \in Nat /\ n = retryAttempt /\ es = entries'
      BY <1>0, <1>4
    <3>6. Fine(es, cancelled, n) /\ Fine(es, cancelled, n + 1)
      <4>1. 0 \in Nat /\ n + 1 \in Nat /\ 0 <= n /\ 0 <= n + 1 /\ cancelled \subseteq cancelled
        BY <3>5
      <4> QED
        BY <1>0, <1>6, <3>4, <3>5, <4>1, FineMore
    <3>7. ReplyCounted' /\ Settled(messages', entries', cancelled', retryAttempt')
      BY <1>1, <3>4, <3>5, <3>6 DEF ReplyCounted, Counted, Settled
    <3>8. InOrder'
      BY <1>1, <3>3, <3>4 DEF InOrder
    <3>9. ReplyWaits'
      BY <1>0, <1>1, <2>1, StillWaits DEF Orderly
    <3>10. run'.pc = "off"
      BY <1>1, <2>3
    <3> QED
      BY <1>8, <3>7, <3>8, <3>9, <3>10, RestOrder
  <2> QED
    BY <2>2, <2>3
<1> QED
  BY <1>8, <1>9 DEF Inv

(* compact() has its summary, or has failed.                                *)
LEMMA EndCompactStep == ASSUME Inv, Watched, NEW ok \in BOOLEAN, EndCompact(ok) PROVE Inv'
<1>0. Types /\ MaxRetries \in Nat
  BY SessionAssumption DEF Inv, SessionAssumption
<1>1. /\ compaction.pc = "summarizing" /\ compaction' = NoCompaction /\ subscribed' = TRUE
      /\ UNCHANGED <<steering, followUp, run, event, driver, shown, lastAssistant, retryAttempt, sleeper,
                     overflowTried, ran, fate, unheard, cancelled>>
  BY DEF EndCompact, history
<1>2. CompactionOK' /\ compaction'.pc = "none"
  BY <1>1 DEF CompactionOK, NoCompaction
<1>3. QueuesOK' /\ EventOK' /\ HistoryOK' /\ CountsOK' /\ RunOK'
  <2>1. RunOK'
    BY <1>0, <1>1, RunStays
  <2> QED
    BY <1>0, <1>1, <2>1, Watching DEF Types, QueuesOK, EventOK, NoEvent, HistoryOK, CountsOK
<1>4. CASE ~ok
  <2>1. UNCHANGED <<messages, entries, pendingBash>>
    BY <1>4 DEF EndCompact, State
  <2>2. BranchOK' /\ DriverOK'
    BY <1>0, <1>1, <2>1, SameBranch, DriverStays DEF Types, BranchOK
  <2>3. ~astray' => Orderly'
    BY <1>1, <1>2, <2>1, SameOrder
  <2> QED
    BY <1>2, <1>3, <2>2, <2>3 DEF Inv, Types
<1>5. CASE ok
  <2>1. PICK k : k = compaction.kept /\ MayKeep(entries, k)
    BY <1>0, <1>5 DEF EndCompact, Types, CompactionOK
  <2>2. PICK es : es = Append(entries, Summary(k))
    OBVIOUS
  <2>3. messages' = Context(es) /\ entries' = es /\ pendingBash' = pendingBash
    BY <1>5, <2>1, <2>2 DEF EndCompact, State, Summary
  <2>4. /\ es \in Seq(SessionMessage) /\ Context(es) \in Seq(SessionMessage) /\ Sound(es)
        /\ Len(entries) <= Len(es) /\ \A i \in 1..Len(entries) : es[i] = entries[i]
        /\ cancelled \subseteq 0..Len(es)
        /\ \A n \in Nat : Fine(es, cancelled, n)
        /\ InOrder => Paired(es) /\ Paired(Context(es)) /\ Bounded(es, cancelled)
    BY <1>0, <2>1, <2>2, Summarized
  <2>5. Grown /\ BranchOK'
    BY <1>0, <1>1, <2>3, <2>4 DEF Grown, BranchOK, Types
  <2>6. Types'
    BY <1>0, <1>1, <1>2, <1>3, <2>5, DriverStays DEF Types
  <2>7. ASSUME ~astray' PROVE Orderly'
    <3>1. Orderly
      BY <2>7, Watching DEF Inv
    <3>2. event = NoEvent /\ run.pc \notin {"tools", "answered"}
      BY <1>1, <3>1 DEF Orderly, EventCounted, RunCounted
    <3>3. EventCounted' /\ BatchPaired'
      BY <1>1, <3>2 DEF EventCounted, BatchPaired, NoEvent
    <3>4. PICK n \in Nat : n = retryAttempt'
      BY <1>0, <1>1 DEF Types, CountsOK
    <3>5. Fine(es, cancelled, n) /\ Fine(es, cancelled, n + 1) /\ Fine(es, cancelled, 0)
      <4>1. 0 \in Nat /\ n + 1 \in Nat
        OBVIOUS
      <4> QED
        BY <2>4, <4>1
    <3>6. ReplyCounted' /\ RunCounted'
      BY <1>1, <2>3, <3>2, <3>4, <3>5 DEF ReplyCounted, Counted, RunCounted, Settled
    <3>7. InOrder'
      BY <1>1, <2>3, <2>4, <3>1 DEF Orderly, InOrder
    <3>8. ReplyWaits'
      BY <1>0, <1>1, <3>1, StillWaits DEF Orderly
    <3> QED
      BY <3>3, <3>6, <3>7, <3>8 DEF Orderly
  <2> QED
    BY <2>6, <2>7 DEF Inv
<1> QED
  BY <1>4, <1>5

----------------------------------------------------------------------------
(* The invariant *)

LEMMA InitInv == Init => Inv
<1> SUFFICES ASSUME Init PROVE Inv
  OBVIOUS
<1>1. /\ messages = <<>> /\ steering = <<>> /\ followUp = <<>> /\ run = NoRun /\ event = NoEvent
      /\ subscribed = TRUE /\ entries = <<>> /\ driver = [d \in Caller |-> Idle]
      /\ compaction = NoCompaction /\ shown = {} /\ lastAssistant = NoMessage /\ retryAttempt = 0
      /\ sleeper = NoCaller /\ overflowTried = FALSE /\ pendingBash = <<>> /\ ran = {}
      /\ fate = [u \in Msg |-> "unsaid"] /\ unheard = {}
      /\ cancelled = {} /\ astray = FALSE
  BY DEF Init, AgentInit
<1>2. /\ <<>> \in Seq(SessionMessage) /\ <<>> \in Seq(UserMsg) /\ <<>> \in Seq(BashMsg) /\ DOMAIN <<>> = {}
  BY EmptySeq
<1>3. /\ NoMessage \in SessionMessage /\ NoMessage.ended # "error" /\ NoMessage.is # "compaction"
  BY DEF NoMessage, Message, SessionMessage
<1>4. \A cs : Sound(<<>>) /\ Paired(<<>>) /\ Bounded(<<>>, cs) /\ Fine(<<>>, cs, 0)
  BY <1>2 DEF Sound, Paired, Bounded, Fine
<1>5. QueuesOK /\ BranchOK
  BY <1>1, <1>2, <1>4 DEF QueuesOK, BranchOK
<1>6. NoRun \in Run /\ NoRun.by = NoCaller /\ NoRun.pc = "off"
  BY <1>2 DEF NoRun, Run
<1>7. RunOK
  BY <1>1, <1>6 DEF RunOK
<1>8. EventOK
  <2>1. NoEvent \in [kind : {"none", "start", "end"}, message : SessionMessage, heard : BOOLEAN]
        /\ NoEvent.message = NoMessage /\ NoEvent.kind = "none"
    BY <1>3 DEF NoEvent
  <2> QED
    BY <1>1, <1>3, <2>1 DEF EventOK
<1>9. DriverOK
  <2>1. Idle \in Driver /\ CallerOK(Idle, entries)
    BY IdleType DEF CallerOK
  <2> QED
    BY <1>1, <2>1, AgentAssumption DEF DriverOK, AgentAssumption
<1>10. CompactionOK
  BY <1>1 DEF CompactionOK, NoCompaction
<1>11. CountsOK
  <2>1. 0 \in 0..MaxRetries
    BY SessionAssumption DEF SessionAssumption
  <2> QED
    BY <1>1, <1>3, <2>1 DEF CountsOK
<1>12. HistoryOK
  BY <1>1 DEF HistoryOK
<1>13. Orderly
  <2>1. InOrder /\ ReplyCounted /\ ReplyWaits
    BY <1>1, <1>3, <1>4 DEF InOrder, ReplyCounted, Counted, ReplyWaits
  <2>2. EventCounted /\ BatchPaired
    BY <1>1, <1>6 DEF EventCounted, BatchPaired, NoEvent
  <2>3. RunCounted
    BY <1>1, <1>4, <1>6 DEF RunCounted, Settled
  <2> QED
    BY <2>1, <2>2, <2>3 DEF Orderly
<1> QED
  BY <1>5, <1>7, <1>8, <1>9, <1>10, <1>11, <1>12, <1>13 DEF Inv, Types

(* Every step keeps it.                                                     *)
LEMMA StepInv == Inv /\ [Next]_vars => Inv'
<1> SUFFICES ASSUME Inv, [Next]_vars PROVE Inv'
  OBVIOUS
<1>1. CASE UNCHANGED vars
  <2>1. /\ UNCHANGED <<messages, steering, followUp, run, event, subscribed>>
        /\ UNCHANGED <<session, history>> /\ UNCHANGED <<entries, driver>> /\ UNCHANGED astray
    BY <1>1 DEF vars, agentVars, session
  <2>2. ~Strays
    BY <2>1 DEF Strays
  <2>3. Watched
    <3>1. astray \in BOOLEAN
      BY DEF Inv, Types, CountsOK
    <3> QED
      BY <2>1, <2>2, <3>1 DEF Watched
  <2>4. run' \in Run /\ run'.by = run.by /\ run'.pc = run.pc /\ run'.inbox = run.inbox /\ run'.sent = run.sent
    BY <2>1 DEF Inv, Types, RunOK
  <2> QED
    BY <2>1, <2>3, <2>4, SameTurn
<1>2. CASE SessionStep
  <2>1. Watched
    BY <1>2 DEF SessionStep, Watched
  <2>2. CASE \E d \in Caller : PromptStep(d)
    BY <2>1, <2>2, PostStep, RetryCancelledStep, AgainStep, StartStep DEF PromptStep
  <2>3. CASE Urgent = {} /\ Loop
    <3>1. UNCHANGED <<session, history>>
      BY <2>3 DEF Loop
    <3>2. CASE StoreMessage
      BY <2>1, <2>3, <3>1, <3>2, StoreMessageStep
    <3>3. CASE Request
      BY <2>1, <3>1, <3>3, RequestStep
    <3>4. CASE Prepare
      BY <2>1, <3>1, <3>4, PrepareStep
    <3>5. CASE Answer
      BY <2>1, <2>3, <3>1, <3>5, AnswerStep
    <3>6. CASE \E r \in Replies : Respond(r)
      BY <2>1, <2>3, <3>1, <3>6, RespondStep
    <3>7. CASE \E c \in 1..MaxCalls : Execute(c)
      BY <2>1, <3>1, <3>7, ExecuteStep
    <3>8. CASE \E terminate \in BOOLEAN : EndTurn(terminate)
      BY <2>1, <3>1, <3>8, EndTurnStep
    <3> QED
      BY <2>3, <3>2, <3>3, <3>4, <3>5, <3>6, <3>7, <3>8 DEF Loop
  <2>4. CASE Started \/ Persist \/ Finish
    BY <2>1, <2>4, StartedStep, PersistStep, FinishStep
  <2>5. CASE \E d \in Caller : Retry(d) \/ \E ok \in BOOLEAN : Compacted(d, ok)
    BY <2>1, <2>5, RetryStep, CompactedStep
  <2>6. CASE \E ok \in BOOLEAN : EndCompact(ok)
    BY <2>1, <2>6, EndCompactStep
  <2> QED
    BY <1>2, <2>2, <2>3, <2>4, <2>5, <2>6 DEF SessionStep
<1>3. CASE ClientStep
  <2>1. Watched
    BY <1>3 DEF ClientStep, Watched
  <2>2. CASE \E u \in Msg : Prompt(u) \/ Queue(u, "steer") \/ Queue(u, "followUp")
    <3>1. PICK u \in Msg : Prompt(u) \/ Queue(u, "steer") \/ Queue(u, "followUp")
      BY <2>2
    <3>2. \E how \in {"steer", "followUp"} : Prompt(u) \/ Queue(u, how)
      BY <3>1
    <3> QED
      BY <2>1, <3>2, PromptCallStep, QueueStep
  <2>3. CASE Abort \/ ClearQueue \/ BeginCompact
    BY <2>1, <2>3, AbortStep, ClearQueueStep, BeginCompactStep
  <2>4. CASE \E b \in Bash : BashReturns(b)
    BY <2>1, <2>4, BashReturnsStep
  <2> QED
    BY <1>3, <2>2, <2>3, <2>4 DEF ClientStep
<1> QED
  BY <1>1, <1>2, <1>3 DEF Next

(* It holds in every state.                                                 *)
LEMMA Invariant == Spec => []Inv
  BY InitInv, StepInv, PTL DEF Spec

(* It implies the types.                                                    *)
LEMMA TypesHold == Types => TypeOK
<1> SUFFICES ASSUME Types PROVE TypeOK
  OBVIOUS
<1>1. {messages, steering, followUp, entries, pendingBash, run.inbox} \subseteq Seq(SessionMessage)
  <2>1. Seq(UserMsg) \subseteq Seq(SessionMessage) /\ Seq(BashMsg) \subseteq Seq(SessionMessage)
    BY Said
  <2> QED
    BY <2>1 DEF Types, QueuesOK, BranchOK, RunOK, Run
<1>2. /\ run.pc \in {"off", "turn", "stream", "answered", "tools", "end"}
      /\ run.by \in Caller \cup {NoCaller} /\ (run.by = NoCaller <=> run.pc = "off")
  BY DEF Types, RunOK, Run
<1>3. event.kind \in {"none", "start", "end"} /\ event.message \in SessionMessage
  BY DEF Types, EventOK
<1>4. driver \in [Caller -> [pc : {"idle", "starting", "running", "post",
                                  "backoff", "cancelled", "compacting", "again"},
                             holds : Seq(SessionMessage), retry : BOOLEAN, kept : Nat]]
  <2>1. Seq(UserMsg) \subseteq Seq(SessionMessage)
    BY Said
  <2>2. \A w \in Driver : w \in [pc : {"idle", "starting", "running", "post",
                                      "backoff", "cancelled", "compacting", "again"},
                                 holds : Seq(SessionMessage), retry : BOOLEAN, kept : Nat]
    BY <2>1 DEF Driver
  <2> QED
    BY <2>2 DEF Types, DriverOK
<1>5. compaction \in [pc : {"none", "stopping", "summarizing"}, kept : Nat] /\ (compaction.pc = "none" <=> subscribed)
  BY DEF Types, CompactionOK
<1>6. /\ shown \subseteq Msg /\ unheard \subseteq Msg /\ ran \subseteq Bash
      /\ fate \in [Msg -> {"unsaid", "sent", "refused", "cleared"}]
  BY DEF Types, HistoryOK
<1>7. /\ lastAssistant \in SessionMessage /\ sleeper \in Caller \cup {NoCaller}
      /\ retryAttempt \in 0..MaxRetries /\ overflowTried \in BOOLEAN
      /\ cancelled \subseteq 0..Len(entries) /\ astray \in BOOLEAN
  BY DEF Types, CountsOK, DriverOK, BranchOK
<1> QED
  BY <1>1, <1>2, <1>3, <1>4, <1>5, <1>6, <1>7 DEF TypeOK

----------------------------------------------------------------------------
(* Every variable has its type, and the session listens unless compact() is *)
(* under way.                                                               *)
THEOREM TypeCorrect == Spec => []TypeOK
<1>1. Inv => TypeOK
  BY TypesHold DEF Inv
<1> QED
  BY <1>1, Invariant, PTL

(* A tool's result follows its call or the result before it, in the         *)
(* transcript and on the branch, whatever commands the user runs meanwhile  *)
(* (the deferral of recordBashResult()), and whatever is queued, aborted or *)
(* compacted.                                                               *)
THEOREM ResultsInOrder == Spec => []ResultsFollowCalls
<1>1. Inv => ResultsFollowCalls
  BY DEF Inv, Orderly, InOrder, ResultsFollowCalls
<1> QED
  BY <1>1, Invariant, PTL

(* A request that fails again and again is retried MaxRetries times and no  *)
(* more, unless the client cancels a retry: _prepareRetry()'s counter is    *)
(* reset by a reply that has not failed, and where it gives up only a new   *)
(* message is an occasion for another request.                              *)
THEOREM RetriesBounded == Spec => []RetriesEnd
<1>1. Inv => RetriesEnd
  BY DEF Inv, Orderly, InOrder, Bounded, RetriesEnd
<1> QED
  BY <1>1, Invariant, PTL

----------------------------------------------------------------------------
(* How often a message is where *)

Spots(u, q) == {i \in DOMAIN q : q[i].id = u}

(* A message occurs in a sequence a number of times, none iff nowhere.      *)
LEMMA Counting ==
  ASSUME NEW S, NEW q \in Seq(S), NEW u
  PROVE  /\ Occurrences(u, q) \in Nat
         /\ Occurrences(u, q) = 0 <=> \A i \in 1..Len(q) : q[i].id # u
         /\ IsFiniteSet(Spots(u, q)) /\ Occurrences(u, q) = Cardinality(Spots(u, q))
<1>1. Spots(u, q) \subseteq 1..Len(q) /\ Len(q) \in Nat
  BY DEF Spots
<1>2. IsFiniteSet(1..Len(q))
  BY <1>1, FS_Interval
<1>3. IsFiniteSet(Spots(u, q))
  BY <1>1, <1>2, FS_Subset
<1>4. Occurrences(u, q) = Cardinality(Spots(u, q))
  BY DEF Occurrences, Spots
<1>5. Cardinality(Spots(u, q)) \in Nat /\ (Cardinality(Spots(u, q)) = 0 <=> Spots(u, q) = {})
  BY <1>3, FS_CardinalityType, FS_EmptySet
<1>6. Spots(u, q) = {} <=> \A i \in 1..Len(q) : q[i].id # u
  BY DEF Spots
<1> QED
  BY <1>3, <1>4, <1>5, <1>6

(* One more behind the others.                                              *)
LEMMA CountMore ==
  ASSUME NEW S, NEW q \in Seq(S), NEW m \in S, NEW u
  PROVE  Occurrences(u, Append(q, m)) = Occurrences(u, q) + (IF m.id = u THEN 1 ELSE 0)
<1>1. PICK p \in Seq(S) : p = Append(q, m)
  BY AppendProperties
<1>2. Len(p) = Len(q) + 1 /\ Len(q) \in Nat /\ p[Len(q) + 1] = m /\ \A i \in 1..Len(q) : p[i] = q[i]
  BY <1>1
<1>3. Spots(u, p) = IF m.id = u THEN Spots(u, q) \cup {Len(q) + 1} ELSE Spots(u, q)
  <2>1. DOMAIN p = 1..(Len(q) + 1) /\ DOMAIN q = 1..Len(q)
    BY <1>2
  <2>2. 1..(Len(q) + 1) = 1..Len(q) \cup {Len(q) + 1}
    BY <1>2
  <2> QED
    BY <1>2, <2>1, <2>2 DEF Spots
<1>4. Len(q) + 1 \notin Spots(u, q) /\ IsFiniteSet(Spots(u, q)) /\ Cardinality(Spots(u, q)) \in Nat
  <2>1. DOMAIN q = 1..Len(q)
    OBVIOUS
  <2>2. Len(q) + 1 \notin Spots(u, q)
    BY <1>2, <2>1 DEF Spots
  <2> QED
    BY <2>2, Counting, FS_CardinalityType
<1>5. Cardinality(Spots(u, p)) = Cardinality(Spots(u, q)) + (IF m.id = u THEN 1 ELSE 0)
  <2>1. CASE m.id = u
    <3>1. Cardinality(Spots(u, q) \cup {Len(q) + 1}) = Cardinality(Spots(u, q)) + 1
      BY <1>4, FS_AddElement
    <3> QED
      BY <1>3, <2>1, <3>1
  <2>2. CASE m.id # u
    BY <1>3, <1>4, <2>2
  <2> QED
    BY <2>1, <2>2
<1>6. Occurrences(u, p) = Cardinality(Spots(u, p)) /\ Occurrences(u, q) = Cardinality(Spots(u, q))
  BY Counting
<1> QED
  BY <1>1, <1>5, <1>6

(* Nothing is in no sequence, and a message by itself is there once.        *)
LEMMA CountNone ==
  ASSUME NEW u
  PROVE  Occurrences(u, <<>>) = 0 /\ \A m : Occurrences(u, <<m>>) = IF m.id = u THEN 1 ELSE 0
<1>1. Occurrences(u, <<>>) = 0
  <2>1. PICK e \in Seq({}) : e = <<>> /\ Len(e) = 0
    BY EmptySeq
  <2>2. \A i \in 1..Len(e) : e[i].id # u
    BY <2>1
  <2>3. Occurrences(u, e) = 0
    BY <2>2, Counting
  <2> QED
    BY <2>1, <2>3
<1>2. ASSUME NEW m PROVE Occurrences(u, <<m>>) = IF m.id = u THEN 1 ELSE 0
  <2>1. PICK e \in Seq({m}) : e = <<>>
    BY EmptySeq
  <2>2. Append(e, m) = <<m>>
    BY <2>1
  <2>3. Occurrences(u, Append(e, m)) = Occurrences(u, e) + (IF m.id = u THEN 1 ELSE 0)
    BY CountMore
  <2>4. Occurrences(u, e) = 0
    BY <1>1, <2>1
  <2> QED
    BY <2>2, <2>3, <2>4
<1> QED
  BY <1>1, <1>2

(* Two sequences have together what each has.                               *)
LEMMA CountBoth ==
  ASSUME NEW S, NEW p \in Seq(S), NEW q \in Seq(S), NEW u
  PROVE  Occurrences(u, p \o q) = Occurrences(u, p) + Occurrences(u, q)
<1> DEFINE P(k) == Occurrences(u, p \o SubSeq(q, 1, k)) = Occurrences(u, p) + Occurrences(u, SubSeq(q, 1, k))
           Bad == {k \in 0..Len(q) : ~P(k)}
<1>0. Len(q) \in Nat /\ Len(q) \in 0..Len(q) /\ SubSeq(q, 1, Len(q)) = q
  <2>1. Len(q) \in Nat
    OBVIOUS
  <2>2. SubSeq(q, 1, Len(q)) = q
    BY SubSeqFull
  <2> QED
    BY <2>1, <2>2
<1>1. ASSUME Bad # {} PROVE FALSE
  <2>1. PICK k \in Bad : \A j \in Bad : k <= j
    <3>1. Bad \subseteq Nat
      BY <1>0
    <3> HIDE DEF Bad
    <3> QED
      BY <1>1, <3>1, LeastFailure
  <2>2. CASE k = 0
    <3>1. SubSeq(q, 1, k) = <<>>
      BY <2>2, SubSeqEmpty
    <3>2. p \o SubSeq(q, 1, k) = p
      BY <3>1, ConcatEmptySeq
    <3>3. Occurrences(u, p) \in Nat
      BY Counting
    <3>4. Occurrences(u, <<>>) = 0
      BY CountNone
    <3>5. P(k)
      <4>1. Occurrences(u, p) = Occurrences(u, p) + 0
        BY <3>3
      <4> QED
        BY <3>1, <3>2, <3>4, <4>1, Zenon
    <3> QED
      BY <2>1, <3>5
  <2>3. CASE k # 0
    <3>1. PICK j \in Nat : k = j + 1
      <4>1. k - 1 \in Nat
        BY <2>1, <2>3, <1>0
      <4> QED
        BY <4>1
    <3>2. j \in 0..Len(q) /\ k \in 1..Len(q) /\ j < k
      BY <2>1, <3>1, <1>0
    <3>3. P(j)
      BY <2>1, <3>2
    <3>4. PICK a, m : a = SubSeq(q, 1, j) /\ m = q[k]
      OBVIOUS
    <3>5. a \in Seq(S) /\ m \in S
      BY <3>2, <3>4, <1>0
    <3>6. SubSeq(q, 1, k) = Append(a, m)
      <4>1. 1 \in 1..Len(q) /\ k \in 1..Len(q) /\ k - 1 = j
        BY <3>1, <3>2, <1>0
      <4>2. SubSeq(q, 1, k) = SubSeq(q, 1, k - 1) \o <<q[k]>>
        BY <4>1, SubSeqRecursiveSecond
      <4> QED
        BY <3>4, <3>5, <4>1, <4>2, AppendIsConcat
    <3>7. p \o Append(a, m) = Append(p \o a, m)
      <4>1. <<m>> \in Seq(S) /\ p \o a \in Seq(S)
        BY <3>5
      <4>2. Append(a, m) = a \o <<m>> /\ Append(p \o a, m) = (p \o a) \o <<m>>
        BY <3>5, <4>1, AppendIsConcat
      <4> QED
        BY <3>5, <4>1, <4>2, ConcatAssociative
    <3>8. p \o a \in Seq(S)
      BY <3>5
    <3>9. Occurrences(u, Append(p \o a, m)) = Occurrences(u, p \o a) + (IF m.id = u THEN 1 ELSE 0)
      BY <3>5, <3>8, CountMore
    <3>10. Occurrences(u, Append(a, m)) = Occurrences(u, a) + (IF m.id = u THEN 1 ELSE 0)
      BY <3>5, CountMore
    <3>11. Occurrences(u, p) \in Nat /\ Occurrences(u, a) \in Nat /\ Occurrences(u, p \o a) \in Nat
      BY <3>5, <3>8, Counting
    <3>12. Occurrences(u, p \o Append(a, m)) = Occurrences(u, p) + Occurrences(u, Append(a, m))
      <4>1. Occurrences(u, p \o a) = Occurrences(u, p) + Occurrences(u, a)
        BY <3>3, <3>4, Zenon
      <4>2. Occurrences(u, p \o Append(a, m)) = Occurrences(u, p \o a) + (IF m.id = u THEN 1 ELSE 0)
        BY <3>7, <3>9, Zenon
      <4> QED
        BY <3>10, <3>11, <4>1, <4>2
    <3>13. P(k)
      BY <3>6, <3>12, Zenon
    <3> QED
      BY <2>1, <3>13
  <2> QED
    BY <2>2, <2>3
<1> QED
  BY <1>0, <1>1

(* The first of a sequence and those behind it, and what is drawn from a    *)
(* queue and what stays there.                                              *)
LEMMA CountParts ==
  ASSUME NEW q \in Seq(UserMsg), NEW u
  PROVE  /\ q # <<>> => Occurrences(u, q) = (IF Head(q).id = u THEN 1 ELSE 0) + Occurrences(u, Tail(q))
         /\ Occurrences(u, q) = Occurrences(u, Drained(q)) + Occurrences(u, Kept(q))
<1>0. Occurrences(u, q) \in Nat /\ Occurrences(u, <<>>) = 0
  BY Counting, CountNone
<1>1. ASSUME q # <<>>
      PROVE  /\ Occurrences(u, q) = Occurrences(u, <<Head(q)>>) + Occurrences(u, Tail(q))
             /\ Occurrences(u, <<Head(q)>>) = IF Head(q).id = u THEN 1 ELSE 0
  <2>1. Head(q) \in UserMsg /\ Tail(q) \in Seq(UserMsg)
    BY <1>1, HeadTailProperties
  <2>2. PICK m \in UserMsg, p \in Seq(UserMsg) : m = Head(q) /\ p = Tail(q)
    BY <2>1
  <2>3. <<m>> \in Seq(UserMsg)
    OBVIOUS
  <2>4. q = <<m>> \o p
    <3>1. Len(q) \in Nat \ {0}
      BY <1>1, EmptySeq
    <3>2. 1 \in 1..Len(q) /\ Len(q) \in 1..Len(q)
      BY <3>1
    <3>3. SubSeq(q, 1, Len(q)) = <<q[1]>> \o SubSeq(q, 1 + 1, Len(q))
      BY <3>2, SubSeqRecursiveFirst
    <3>4. SubSeq(q, 1, Len(q)) = q /\ Tail(q) = SubSeq(q, 2, Len(q)) /\ Head(q) = q[1]
      BY <1>1, SubSeqFull, TailIsSubSeq
    <3>5. 1 + 1 = 2
      OBVIOUS
    <3> QED
      BY <2>2, <3>3, <3>4, <3>5, Zenon
  <2>5. Occurrences(u, <<m>> \o p) = Occurrences(u, <<m>>) + Occurrences(u, p)
    BY <2>3, CountBoth
  <2>6. Occurrences(u, <<m>>) = IF m.id = u THEN 1 ELSE 0
    BY CountNone
  <2> QED
    BY <2>2, <2>4, <2>5, <2>6
<1>2. Occurrences(u, q) = Occurrences(u, Drained(q)) + Occurrences(u, Kept(q))
  <2>1. CASE QueueMode = "all" \/ q = <<>>
    <3>1. Drained(q) = q /\ (Kept(q) = <<>>)
      BY <2>1 DEF Drained, Kept
    <3>2. Occurrences(u, q) = Occurrences(u, q) + Occurrences(u, <<>>)
      BY <1>0
    <3> QED
      BY <3>1, <3>2, Zenon
  <2>2. CASE ~(QueueMode = "all" \/ q = <<>>)
    <3>1. Drained(q) = <<Head(q)>> /\ Kept(q) = Tail(q)
      BY <2>2 DEF Drained, Kept
    <3> QED
      BY <1>1, <2>2, <3>1
  <2> QED
    BY <2>1, <2>2
<1> QED
  BY <1>1, <1>2

(* Only what a client says has the identity of a message.                   *)
LEMMA Others ==
  ASSUME NEW u \in Msg
  PROVE  /\ \A m \in BashMsg : m.id # u
         /\ \A ended, n : Reply(ended, n).id # u
         /\ \A n : ToolResult(n).id # u
         /\ \A k : Message("compaction", NoId, "", k).id # u
         /\ NoMessage.id # u /\ User(u).id = u
         /\ \A m \in UserMsg : m.id = u => m = User(u)
<1>1. NoId # u /\ u \notin Bash
  BY AgentAssumption DEF AgentAssumption
<1>2. \A m \in BashMsg : m.id # u
  <2> SUFFICES ASSUME NEW b \in Bash PROVE BashResult(b).id # u
    BY DEF BashMsg
  <2> QED
    BY <1>1 DEF BashResult, Message
<1>3. /\ \A ended, n : Reply(ended, n).id # u
      /\ \A n : ToolResult(n).id # u
      /\ NoMessage.id # u /\ User(u).id = u
  BY <1>1 DEF Reply, ToolResult, NoMessage, User, Message
<1>4. \A k : Message("compaction", NoId, "", k).id # u
  BY <1>1 DEF Message
<1>5. \A m \in UserMsg : m.id = u => m = User(u)
  <2> SUFFICES ASSUME NEW v \in Msg, User(v).id = u PROVE v = u
    BY DEF UserMsg
  <2> QED
    BY DEF User, Message
<1> QED
  BY <1>2, <1>3, <1>4, <1>5

(* Results of commands that are flushed are none of them.                   *)
LEMMA CountFlushed ==
  ASSUME NEW u \in Msg, NEW es \in Seq(SessionMessage), NEW bash \in Seq(BashMsg)
  PROVE  Occurrences(u, es \o bash) = Occurrences(u, es)
<1>1. bash \in Seq(SessionMessage)
  BY Said
<1>2. \A i \in 1..Len(bash) : bash[i].id # u
  <2>1. \A i \in 1..Len(bash) : bash[i] \in BashMsg
    OBVIOUS
  <2> QED
    BY <2>1, Others
<1>3. Occurrences(u, bash) = 0
  BY <1>2, Counting
<1>4. Occurrences(u, es \o bash) = Occurrences(u, es) + Occurrences(u, bash)
  BY <1>1, CountBoth
<1>5. Occurrences(u, es) \in Nat
  BY Counting
<1> QED
  BY <1>3, <1>4, <1>5

(* A sequence holds a message that occurs in it.                            *)
LEMMA CountHeld ==
  ASSUME NEW u \in Msg, NEW q \in Seq(UserMsg)
  PROVE  /\ User(u) \in ToSet(q) <=> Occurrences(u, q) > 0
         /\ Len(q) = 1 => Occurrences(u, q) \in {0, 1}
<1>1. Occurrences(u, q) \in Nat /\ (Occurrences(u, q) = 0 <=> \A i \in 1..Len(q) : q[i].id # u)
  BY Counting
<1>2. \A i \in 1..Len(q) : q[i].id = u <=> q[i] = User(u)
  <2>1. \A i \in 1..Len(q) : q[i] \in UserMsg
    OBVIOUS
  <2> QED
    BY <2>1, Others
<1>3. User(u) \in ToSet(q) <=> \E i \in 1..Len(q) : q[i] = User(u)
  BY DEF ToSet
<1>4. User(u) \in ToSet(q) <=> Occurrences(u, q) > 0
  BY <1>1, <1>2, <1>3
<1>5. ASSUME Len(q) = 1 PROVE Occurrences(u, q) \in {0, 1}
  <2>1. Spots(u, q) \subseteq {1}
    <3>1. DOMAIN q = 1..1
      BY <1>5
    <3> QED
      BY <3>1 DEF Spots
  <2>2. Spots(u, q) = {} \/ Spots(u, q) = {1}
    BY <2>1
  <2>3. Cardinality(Spots(u, q)) \in {0, 1}
    BY <2>2, FS_EmptySet, FS_Singleton
  <2>4. Occurrences(u, q) = Cardinality(Spots(u, q))
    BY Counting
  <2> QED
    BY <2>3, <2>4
<1> QED
  BY <1>4, <1>5

----------------------------------------------------------------------------
(* Where a message is *)

Waiting(u) == {d \in Caller : Occurrences(u, driver[d].holds) > 0}
Around(u) ==
  Occurrences(u, steering) + Occurrences(u, followUp) + Occurrences(u, run.inbox)
    + Occurrences(u, entries) + Occurrences(u, <<event.message>>)

(* A message that was sent is once in a queue, in a run or on the branch, or *)
(* held by one caller, or it has been passed on with nobody listening.      *)
Whereabouts(u) ==
  IF fate[u] = "sent"
  THEN \/ Around(u) = 1 /\ Waiting(u) = {}
       \/ Around(u) = 0 /\ \E d \in Caller : Waiting(u) = {d}
       \/ Around(u) = 0 /\ Waiting(u) = {} /\ u \in unheard
  ELSE Around(u) = 0 /\ Waiting(u) = {}

(* A caller that has not begun its run holds one message, others none.      *)
HoldsOne(w) == w.holds = <<>> \/ (w.pc \in {"starting", "compacting"} /\ Len(w.holds) = 1)

Found ==
  /\ \A u \in Msg : Whereabouts(u)
  /\ \A d \in Caller : HoldsOne(driver[d])
  /\ run.pc # "turn" => run.inbox = <<>>

(* What is counted.                                                         *)
LEMMA Tallies ==
  ASSUME Types, NEW u \in Msg
  PROVE  /\ Occurrences(u, steering) \in Nat /\ Occurrences(u, followUp) \in Nat
         /\ Occurrences(u, run.inbox) \in Nat /\ Occurrences(u, entries) \in Nat
         /\ Occurrences(u, <<event.message>>) = IF event.message.id = u THEN 1 ELSE 0
         /\ Around(u) \in Nat
<1>1. Occurrences(u, steering) \in Nat /\ Occurrences(u, followUp) \in Nat
  BY Counting DEF Types, QueuesOK
<1>2. Occurrences(u, run.inbox) \in Nat
  <2>1. run.inbox \in Seq(UserMsg)
    BY DEF Types, RunOK, Run
  <2> QED
    BY <2>1, Counting
<1>3. Occurrences(u, entries) \in Nat
  BY Counting DEF Types, BranchOK
<1>4. Occurrences(u, <<event.message>>) = IF event.message.id = u THEN 1 ELSE 0
  BY CountNone
<1> QED
  BY <1>1, <1>2, <1>3, <1>4 DEF Around

(* A step that leaves every message where it is, or moves it between the    *)
(* queues, the run and the branch.                                          *)
LEMMA Steady ==
  ASSUME Types, Found,
         \/ UNCHANGED driver
         \/ \E d, w : /\ d \in Caller /\ w.holds = driver[d].holds /\ HoldsOne(w)
                      /\ driver' = [driver EXCEPT ![d] = w],
         \A u \in Msg : Around(u)' = Around(u) /\ fate'[u] = fate[u] /\ (u \in unheard => u \in unheard'),
         run'.pc # "turn" => run'.inbox = <<>>
  PROVE  Found'
<1>1. \A e \in Caller : driver'[e].holds = driver[e].holds /\ HoldsOne(driver'[e])
  <2>1. driver \in [Caller -> Driver] /\ \A e \in Caller : HoldsOne(driver[e])
    BY DEF Types, DriverOK, Found
  <2>2. CASE UNCHANGED driver
    BY <2>1, <2>2
  <2>3. CASE \E d, w : /\ d \in Caller /\ w.holds = driver[d].holds /\ HoldsOne(w)
                       /\ driver' = [driver EXCEPT ![d] = w]
    BY <2>1, <2>3
  <2> QED
    BY <2>2, <2>3
<1>2. ASSUME NEW u \in Msg PROVE Whereabouts(u)'
  <2>1. Waiting(u)' = Waiting(u)
    BY <1>1 DEF Waiting
  <2>2. Whereabouts(u)
    BY DEF Found
  <2> QED
    BY <2>1, <2>2 DEF Whereabouts
<1> QED
  BY <1>1, <1>2 DEF Found

----------------------------------------------------------------------------
(* Steps of the run *)

(* A step of the loop moves messages from the queues through the run.       *)
LEMMA LoopFound ==
  ASSUME Types, Types', Found, Loop
  PROVE  Found'
<1>1. UNCHANGED <<entries, driver, fate, unheard>>
  BY DEF Loop, session, history
<1>2. ASSUME /\ \A u \in Msg : Around(u)' = Around(u)
             /\ run'.pc # "turn" => run'.inbox = <<>>
      PROVE  Found'
  BY <1>1, <1>2, Steady
<1>3. run \in Run /\ (run.pc # "turn" => run.inbox = <<>>) /\ steering \in Seq(UserMsg) /\ followUp \in Seq(UserMsg)
  BY DEF Types, RunOK, QueuesOK, Found
<1>4. CASE StoreMessage
  <2>1. UNCHANGED <<steering, followUp, run>> /\ event'.message = event.message
    BY <1>4 DEF StoreMessage, Emit
  <2> QED
    BY <1>1, <1>2, <1>3, <2>1 DEF Around
<1>5. CASE Request
  <2>1. PICK polled : polled = IF run.poll THEN Drained(steering) ELSE <<>>
    OBVIOUS
  <2>2. /\ run.inbox = <<>> /\ UNCHANGED <<followUp, event>>
        /\ steering' = IF run.poll THEN Kept(steering) ELSE steering
        /\ run'.inbox = polled
        /\ run'.pc = IF polled = <<>> THEN "stream" ELSE "turn"
    BY <1>3, <1>5, <2>1 DEF Request, Run
  <2>3. ASSUME NEW u \in Msg PROVE Around(u)' = Around(u)
    <3>1. Occurrences(u, steering) = Occurrences(u, polled) + Occurrences(u, steering')
      <4>1. CASE run.poll
        BY <1>3, <2>1, <2>2, <4>1, CountParts
      <4>2. CASE ~run.poll
        <5>1. Occurrences(u, <<>>) = 0 /\ Occurrences(u, steering) \in Nat
          BY <1>3, CountNone, Counting
        <5> QED
          BY <2>1, <2>2, <4>2, <5>1
      <4> QED
        BY <4>1, <4>2
    <3>2. Occurrences(u, run.inbox) = 0
      BY <2>2, CountNone
    <3>3. /\ Occurrences(u, steering) \in Nat /\ Occurrences(u, followUp) \in Nat
          /\ Occurrences(u, entries) \in Nat /\ Occurrences(u, <<event.message>>) \in Nat
          /\ Occurrences(u, polled) \in Nat /\ Occurrences(u, steering') \in Nat
      <4>1. steering' \in Seq(UserMsg) /\ polled \in Seq(UserMsg)
        BY <2>2 DEF Types, QueuesOK, RunOK, Run
      <4> QED
        BY <4>1, Tallies, Counting
    <3>4. run'.inbox = polled /\ UNCHANGED <<followUp, event, entries>>
      BY <1>1, <2>2
    <3> QED
      BY <3>1, <3>2, <3>3, <3>4 DEF Around
  <2> QED
    BY <1>2, <2>2, <2>3
<1>6. CASE Prepare \/ \E c \in 1..MaxCalls : Execute(c)
  <2>1. UNCHANGED <<steering, followUp, event>> /\ run'.inbox = run.inbox /\ run'.pc = run.pc
    BY <1>3, <1>6 DEF Prepare, Execute, Run
  <2> QED
    BY <1>1, <1>2, <1>3, <2>1 DEF Around
<1>7. CASE Answer
  <2>1. UNCHANGED <<steering, followUp>> /\ run'.inbox = run.inbox /\ run'.pc = run.pc
        /\ event.message = NoMessage /\ event'.message = ToolResult(run.sent + 1)
    BY <1>3, <1>7 DEF Answer, Run, Ready, NoEvent, Emit
  <2>2. ASSUME NEW u \in Msg
        PROVE  Occurrences(u, <<event.message>>) = 0 /\ Occurrences(u, <<event'.message>>) = 0
    <3>1. event.message.id # u /\ event'.message.id # u
      BY <2>1, Others
    <3> QED
      BY <3>1, CountNone
  <2> QED
    BY <1>1, <1>2, <1>3, <2>1, <2>2 DEF Around
<1>8. CASE \E r \in Replies : Respond(r)
  <2>1. PICK r \in Replies : Respond(r)
    BY <1>8
  <2>2. UNCHANGED <<steering, followUp>> /\ run'.inbox = run.inbox /\ run.pc = "stream"
        /\ event.message = NoMessage /\ event'.message = r
    BY <1>3, <2>1 DEF Respond, Run, Ready, NoEvent, Emit
  <2>3. \A u \in Msg : r.id # u
    <3>1. \E ended, n : r = Reply(ended, n)
      BY DEF Replies
    <3> QED
      BY <3>1, Others
  <2>4. \A u \in Msg : Occurrences(u, <<event.message>>) = 0 /\ Occurrences(u, <<event'.message>>) = 0
    BY <2>2, <2>3, Others, CountNone
  <2> QED
    BY <1>1, <1>2, <1>3, <2>2, <2>4 DEF Around
<1>9. CASE \E terminate \in BOOLEAN : EndTurn(terminate)
  <2>1. PICK terminate \in BOOLEAN : EndTurn(terminate)
    BY <1>9
  <2>2. PICK stops \in BOOLEAN : stops <=> Drained(steering) = <<>> /\ (run.pc = "answered" \/ terminate)
    OBVIOUS
  <2>3. PICK steered, followed : /\ steered = Drained(steering)
                                 /\ followed = IF stops THEN Drained(followUp) ELSE <<>>
    OBVIOUS
  <2>4. /\ run.pc \in {"answered", "tools"} /\ UNCHANGED event
        /\ steering' = Kept(steering)
        /\ followUp' = IF stops THEN Kept(followUp) ELSE followUp
        /\ run'.inbox = steered \o followed
        /\ run'.pc = IF stops /\ followed = <<>> THEN "end" ELSE "turn"
    BY <1>3, <2>1, <2>2, <2>3 DEF EndTurn, Run, Ready
  <2>5. steered \in Seq(UserMsg) /\ followed \in Seq(UserMsg)
    BY <1>3, <2>3, Drawn, EmptySeq
  <2>6. run'.pc # "turn" => run'.inbox = <<>>
    <3>1. ASSUME stops, followed = <<>> PROVE steered \o followed = <<>>
      <4>1. steered = <<>>
        BY <2>2, <2>3, <3>1
      <4> QED
        BY <2>5, <3>1, <4>1, ConcatEmptySeq
    <3> QED
      BY <2>4, <3>1
  <2>7. ASSUME NEW u \in Msg PROVE Around(u)' = Around(u)
    <3>1. Occurrences(u, steering) = Occurrences(u, steered) + Occurrences(u, steering')
      BY <1>3, <2>3, <2>4, CountParts
    <3>2. Occurrences(u, followUp) = Occurrences(u, followed) + Occurrences(u, followUp')
      <4>1. CASE stops
        BY <1>3, <2>3, <2>4, <4>1, CountParts
      <4>2. CASE ~stops
        <5>1. Occurrences(u, <<>>) = 0 /\ Occurrences(u, followUp) \in Nat
          BY <1>3, CountNone, Counting
        <5> QED
          BY <2>3, <2>4, <4>2, <5>1
      <4> QED
        BY <4>1, <4>2
    <3>3. Occurrences(u, run'.inbox) = Occurrences(u, steered) + Occurrences(u, followed)
      BY <2>4, <2>5, CountBoth
    <3>4. Occurrences(u, run.inbox) = 0
      BY <1>3, <2>4, CountNone
    <3>5. /\ Occurrences(u, steered) \in Nat /\ Occurrences(u, followed) \in Nat
          /\ Occurrences(u, steering') \in Nat /\ Occurrences(u, followUp') \in Nat
          /\ Occurrences(u, entries) \in Nat /\ Occurrences(u, <<event.message>>) \in Nat
      <4>1. steering' \in Seq(UserMsg) /\ followUp' \in Seq(UserMsg)
        BY DEF Types, QueuesOK
      <4>2. /\ Occurrences(u, steered) \in Nat /\ Occurrences(u, followed) \in Nat
            /\ Occurrences(u, steering') \in Nat /\ Occurrences(u, followUp') \in Nat
        BY <2>5, <4>1, Counting
      <4> QED
        BY <4>2, Tallies
    <3>6. UNCHANGED <<event, entries>>
      BY <1>1, <2>4
    <3> QED
      BY <3>1, <3>2, <3>3, <3>4, <3>5, <3>6 DEF Around
  <2> QED
    BY <1>2, <2>6, <2>7
<1> QED
  BY <1>4, <1>5, <1>6, <1>7, <1>8, <1>9 DEF Loop

(* The next message is announced, from the run.                             *)
LEMMA StartedFound ==
  ASSUME Types, Found, Started
  PROVE  Found'
<1>1. /\ UNCHANGED <<steering, followUp, entries, driver, fate>>
      /\ run.pc = "turn" /\ run.inbox # <<>> /\ event.message = NoMessage
      /\ event'.message = Head(run.inbox) /\ run'.inbox = Tail(run.inbox) /\ run'.pc = "turn"
  <2>1. run \in Run
    BY DEF Types, RunOK
  <2> QED
    BY <2>1 DEF Started, StartMessage, Ready, NoEvent, Emit, Run
<1>2. \A u \in Msg : u \in unheard => u \in unheard'
  BY DEF Started
<1>3. ASSUME NEW u \in Msg PROVE Around(u)' = Around(u)
  <2>1. run.inbox \in Seq(UserMsg)
    BY DEF Types, RunOK, Run
  <2>2. Occurrences(u, run.inbox) = (IF event'.message.id = u THEN 1 ELSE 0) + Occurrences(u, run'.inbox)
    BY <1>1, <2>1, CountParts
  <2>3. Occurrences(u, <<event'.message>>) = IF event'.message.id = u THEN 1 ELSE 0
    BY CountNone
  <2>4. Occurrences(u, <<event.message>>) = 0
    BY <1>1, Others, CountNone
  <2>5. run'.inbox \in Seq(UserMsg)
    BY <1>1, <2>1, HeadTailProperties
  <2>6. Occurrences(u, run'.inbox) \in Nat
    BY <2>5, Counting
  <2>7. UNCHANGED <<steering, followUp, entries>>
    BY <1>1
  <2> QED
    BY <2>2, <2>3, <2>4, <2>6, <2>7, Tallies DEF Around
<1> QED
  BY <1>1, <1>2, <1>3, Steady

(* A message that nobody heard is gone; one that was is on the branch.      *)
LEMMA PersistFound ==
  ASSUME Types, Types', Found, Persist
  PROVE  Found'
<1>1. UNCHANGED <<steering, followUp, run, driver, fate>> /\ event'.message = NoMessage
  BY DEF Persist, NoEvent
<1>2. event.message \in SessionMessage /\ entries \in Seq(SessionMessage)
  BY DEF Types, EventOK, BranchOK
<1>3. ASSUME NEW u \in Msg PROVE Occurrences(u, <<event'.message>>) = 0
  BY <1>1, Others, CountNone
<1>4. CASE event.heard
  <2>1. entries' = Append(entries, event.message) /\ UNCHANGED unheard
    BY <1>4 DEF Persist
  <2>2. ASSUME NEW u \in Msg PROVE Around(u)' = Around(u)
    <3>1. Occurrences(u, entries') = Occurrences(u, entries) + (IF event.message.id = u THEN 1 ELSE 0)
      BY <1>2, <2>1, CountMore
    <3>2. Occurrences(u, entries') \in Nat
      BY <3>1, Tallies
    <3>3. UNCHANGED <<steering, followUp, run>>
      BY <1>1
    <3> QED
      BY <1>3, <3>1, <3>2, <3>3, Tallies DEF Around
  <2>3. run'.pc # "turn" => run'.inbox = <<>>
    BY <1>1 DEF Found
  <2> QED
    BY <1>1, <2>1, <2>2, <2>3, Steady
<1>5. CASE ~event.heard
  <2>1. unheard' = unheard \cup ({event.message.id} \cap Msg) /\ UNCHANGED entries
    BY <1>5 DEF Persist
  <2>2. ASSUME NEW u \in Msg PROVE Whereabouts(u)'
    <3>1. Waiting(u)' = Waiting(u)
      BY <1>1 DEF Waiting
    <3>2. Whereabouts(u) /\ UNCHANGED <<steering, followUp, run, entries, fate>>
      BY <1>1, <2>1 DEF Found
    <3>3. CASE event.message.id # u
      <4>1. Around(u)' = Around(u)
        BY <1>3, <3>2, <3>3, Tallies DEF Around
      <4> QED
        BY <2>1, <3>1, <3>2, <4>1 DEF Whereabouts
    <3>4. CASE event.message.id = u
      <4>1. Around(u) = Around(u)' + 1 /\ Around(u)' \in Nat
        BY <1>3, <3>2, <3>4, Tallies DEF Around
      <4>2. u \in unheard'
        BY <2>1, <3>4
      <4>3. fate[u] = "sent" /\ Around(u) = 1 /\ Waiting(u) = {}
        BY <3>2, <4>1 DEF Whereabouts
      <4>4. Around(u)' = 0
        BY <4>1, <4>3
      <4> QED
        BY <3>1, <3>2, <4>2, <4>3, <4>4 DEF Whereabouts
    <3> QED
      BY <3>3, <3>4
  <2> QED
    BY <1>1, <2>2 DEF Found
<1> QED
  BY <1>4, <1>5

(* The run is over, and took all it had drained.                            *)
LEMMA FinishFound ==
  ASSUME Types, Found, Finish
  PROVE  Found'
<1>1. /\ UNCHANGED <<steering, followUp, event, entries, fate, unheard>>
      /\ run.pc = "end" /\ run'.inbox = <<>>
  BY DEF Finish, FinishRun, history, Ready, NoRun
<1>2. run.by \in Caller /\ driver[run.by].pc = "running"
  BY <1>1 DEF Types, RunOK, Run
<1>3. PICK w : w = [Idle EXCEPT !.pc = "post", !.holds = <<>>]
  OBVIOUS
<1>4. w.holds = <<>> /\ driver' = [driver EXCEPT ![run.by] = w]
  BY <1>3 DEF Finish, Goto, Idle
<1>5. driver[run.by].holds = <<>> /\ run.inbox = <<>>
  BY <1>1, <1>2 DEF Found, HoldsOne
<1>6. \A u \in Msg : Around(u)' = Around(u)
  BY <1>1, <1>5 DEF Around
<1>7. HoldsOne(w)
  BY <1>4 DEF HoldsOne
<1>8. /\ run.by \in Caller /\ w.holds = driver[run.by].holds /\ HoldsOne(w)
      /\ driver' = [driver EXCEPT ![run.by] = w]
  BY <1>2, <1>4, <1>5, <1>7
<1>9. \E d, v : /\ d \in Caller /\ v.holds = driver[d].holds /\ HoldsOne(v)
                /\ driver' = [driver EXCEPT ![d] = v]
  BY <1>8
<1> QED
  BY <1>1, <1>6, <1>9, Steady

----------------------------------------------------------------------------
(* Steps of callers *)

(* A caller moves on with what it holds, on a branch that has grown by no    *)
(* message of a client.                                                     *)
LEMMA CallerMoves ==
  ASSUME Types, Found, NEW d \in Caller, NEW w, w.holds = driver[d].holds, HoldsOne(w),
         driver' = [driver EXCEPT ![d] = w],
         \A u \in Msg : Occurrences(u, entries') = Occurrences(u, entries),
         UNCHANGED <<steering, followUp, run, event, fate, unheard>>
  PROVE  Found'
<1>1. \A u \in Msg : Around(u)' = Around(u)
  BY DEF Around
<1>2. run'.pc # "turn" => run'.inbox = <<>>
  BY DEF Found
<1>3. \E e, v : /\ e \in Caller /\ v.holds = driver[e].holds /\ HoldsOne(v)
                /\ driver' = [driver EXCEPT ![e] = v]
  OBVIOUS
<1> QED
  BY <1>1, <1>2, <1>3, Steady

(* Where a caller goes on it still holds what it held, and the branch is     *)
(* what it was, perhaps with the results of commands.                       *)
Landed(d, holds, es, bash) ==
  /\ \E w : w.holds = holds /\ HoldsOne(w) /\ driver' = [driver EXCEPT ![d] = w]
  /\ entries' \in {es, es \o bash}

(* A caller whose prompt() returns holds nothing.                           *)
LEMMA ReturnLands ==
  ASSUME NEW d, NEW ms, NEW es, NEW bash, Return(d, ms, es, bash)
  PROVE  Landed(d, <<>>, es, bash)
<1>1. Idle.holds = <<>> /\ HoldsOne(Idle)
  BY DEF Idle, HoldsOne
<1> QED
  BY <1>1 DEF Return, State, Landed

(* One that goes on to a place keeps what it holds.                         *)
LEMMA GotoLands ==
  ASSUME NEW d, NEW pc, NEW holds, NEW ms, NEW es, NEW bash, Goto(d, pc, holds), State(ms, es, bash),
         holds = <<>> \/ (pc = "starting" /\ Len(holds) = 1)
  PROVE  Landed(d, holds, es, bash)
<1>1. PICK w : w = [Idle EXCEPT !.pc = pc, !.holds = holds]
  OBVIOUS
<1>2. w.holds = holds /\ w.pc = pc
  BY <1>1 DEF Idle
<1>3. HoldsOne(w) /\ driver' = [driver EXCEPT ![d] = w]
  BY <1>1, <1>2 DEF HoldsOne, Goto
<1> QED
  BY <1>2, <1>3 DEF State, Landed

(* Nobody who holds a message returns.                                      *)
LEMMA GoOnLands ==
  ASSUME NEW d, NEW holds, holds = <<>> \/ Len(holds) = 1, NEW ms, NEW es, NEW bash,
         GoOn(d, holds, ms, es, bash)
  PROVE  Landed(d, holds, es, bash)
<1>1. CASE ~Continues(holds)
  <2>1. holds = <<>> /\ Return(d, ms, es, bash)
    BY <1>1 DEF Continues, GoOn
  <2> QED
    BY <2>1, ReturnLands
<1>2. CASE Continues(holds)
  <2>1. PICK pc : pc = IF holds = <<>> THEN "again" ELSE "starting"
    OBVIOUS
  <2>2. Goto(d, pc, holds) /\ State(ms, es, bash)
    BY <1>2, <2>1 DEF GoOn
  <2>3. holds = <<>> \/ (pc = "starting" /\ Len(holds) = 1)
    BY <2>1
  <2> QED
    BY <2>2, <2>3, GotoLands
<1> QED
  BY <1>1, <1>2

(* The same of _runAutoCompaction() and _checkCompaction().                 *)
LEMMA CheckLands ==
  ASSUME NEW d, NEW m, NEW holds, holds = <<>> \/ Len(holds) = 1, NEW ms, NEW es, NEW bash,
         CheckCompaction(d, m, holds, ms, es, bash)
  PROVE  Landed(d, holds, es, bash)
<1>1. ASSUME NEW retry, NEW left, AutoCompact(d, holds, retry, left, es, bash)
      PROVE  Landed(d, holds, es, bash)
  <2>1. CASE FirstKept(es) = 0
    BY <1>1, <2>1, GoOnLands DEF AutoCompact
  <2>2. CASE FirstKept(es) # 0
    <3>1. PICK w : w = [pc |-> "compacting", holds |-> holds, retry |-> retry, kept |-> FirstKept(es)]
      OBVIOUS
    <3>2. w.holds = holds /\ w.pc = "compacting"
      BY <3>1
    <3>3. driver' = [driver EXCEPT ![d] = w] /\ entries' = es
      BY <1>1, <2>2, <3>1 DEF AutoCompact, State
    <3>4. HoldsOne(w)
      BY <3>2 DEF HoldsOne
    <3> QED
      BY <3>2, <3>3, <3>4 DEF Landed
  <2> QED
    BY <2>1, <2>2
<1>2. \/ GoOn(d, holds, ms, es, bash)
      \/ AutoCompact(d, holds, FALSE, ms, es, bash)
      \/ AutoCompact(d, holds, TRUE, WithoutReply(ms), es, bash)
  BY DEF CheckCompaction
<1>3. CASE GoOn(d, holds, ms, es, bash)
  BY <1>3, GoOnLands
<1> QED
  BY <1>1, <1>2, <1>3

(* What has landed is where it was.                                         *)
LEMMA LandedFound ==
  ASSUME Types, Found, NEW d \in Caller, NEW holds, holds = driver[d].holds,
         NEW es \in Seq(SessionMessage), \A u \in Msg : Occurrences(u, es) = Occurrences(u, entries),
         NEW bash \in Seq(BashMsg), Landed(d, holds, es, bash),
         UNCHANGED <<steering, followUp, run, event, fate, unheard>>
  PROVE  Found'
<1>1. \A u \in Msg : Occurrences(u, entries') = Occurrences(u, entries)
  <2>1. entries' = es \/ entries' = es \o bash
    BY DEF Landed
  <2>2. \A u \in Msg : Occurrences(u, es \o bash) = Occurrences(u, es)
    BY CountFlushed
  <2> QED
    BY <2>1, <2>2
<1>2. PICK w : w.holds = holds /\ HoldsOne(w) /\ driver' = [driver EXCEPT ![d] = w]
  BY DEF Landed
<1> QED
  BY <1>1, <1>2, CallerMoves

(* The steps of a call that has no message to send.                         *)
LEMMA PostFound ==
  ASSUME Types, Found, NEW d \in Caller, Post(d) \/ RetryCancelled(d) \/ Retry(d)
  PROVE  Found'
<1>1. driver[d].pc \in {"post", "cancelled", "backoff"} /\ UNCHANGED <<steering, followUp, run, event, fate, unheard>>
  BY DEF Post, RetryCancelled, Retry, history, agentVars
<1>2. driver[d].holds = <<>>
  BY <1>1 DEF Found, HoldsOne
<1>3. entries \in Seq(SessionMessage) /\ pendingBash \in Seq(BashMsg)
  BY DEF Types, BranchOK
<1>4. Landed(d, <<>>, entries, pendingBash)
  <2>1. CASE Post(d)
    <3>1. \/ Return(d, messages, entries, pendingBash)
          \/ Goto(d, "backoff", <<>>) /\ State(WithoutReply(messages), entries, pendingBash)
          \/ CheckCompaction(d, lastAssistant, <<>>, messages, entries, pendingBash)
      BY <2>1 DEF Post
    <3>2. CASE Return(d, messages, entries, pendingBash)
      BY <3>2, ReturnLands
    <3>3. CASE Goto(d, "backoff", <<>>) /\ State(WithoutReply(messages), entries, pendingBash)
      BY <3>3, GotoLands
    <3>4. CASE CheckCompaction(d, lastAssistant, <<>>, messages, entries, pendingBash)
      BY <3>4, CheckLands
    <3> QED
      BY <3>1, <3>2, <3>3, <3>4
  <2>2. CASE RetryCancelled(d)
    <3>1. CheckCompaction(d, Reply("error", 0), <<>>, messages, entries, pendingBash)
      BY <2>2 DEF RetryCancelled
    <3> QED
      BY <3>1, CheckLands
  <2>3. CASE Retry(d)
    <3>1. Goto(d, "again", <<>>) /\ State(messages, entries, pendingBash)
      BY <2>3 DEF Retry, agentVars, State
    <3> QED
      BY <3>1, GotoLands
  <2> QED
    BY <2>1, <2>2, <2>3
<1> QED
  BY <1>1, <1>2, <1>3, <1>4, LandedFound

(* The end of an automatic compaction, which may hold up a prompt.          *)
LEMMA CompactedFound ==
  ASSUME Types, Found, NEW d \in Caller, NEW ok \in BOOLEAN, Compacted(d, ok)
  PROVE  Found'
<1>1. PICK holds, k : holds = driver[d].holds /\ k = driver[d].kept
  OBVIOUS
<1>2. PICK summary : summary = Message("compaction", NoId, "", k)
  OBVIOUS
<1>3. /\ driver[d].pc = "compacting" /\ UNCHANGED <<steering, followUp, run, event, fate, unheard>>
      /\ IF ~ok THEN GoOn(d, holds, messages, entries, pendingBash)
         ELSE \/ /\ holds = <<>> /\ Goto(d, "again", <<>>)
                 /\ State(WithoutError(Context(Append(entries, summary))), Append(entries, summary), pendingBash)
              \/ GoOn(d, holds, WithoutError(Context(Append(entries, summary))), Append(entries, summary), pendingBash)
              \/ GoOn(d, holds, Context(Append(entries, summary)), Append(entries, summary), pendingBash)
  BY <1>1, <1>2 DEF Compacted, history
<1>4. holds = <<>> \/ Len(holds) = 1
  BY <1>1 DEF Found, HoldsOne
<1>5. entries \in Seq(SessionMessage) /\ pendingBash \in Seq(BashMsg)
  BY DEF Types, BranchOK
<1>6. CASE ~ok
  <2>1. Landed(d, holds, entries, pendingBash)
    BY <1>3, <1>4, <1>6, GoOnLands
  <2> QED
    BY <1>1, <1>3, <1>5, <2>1, LandedFound
<1>7. CASE ok
  <2>1. summary \in SessionMessage /\ \A u \in Msg : summary.id # u
    <3>1. k \in Nat
      BY <1>1 DEF Types, DriverOK, Driver
    <3>2. summary \in SessionMessage
      BY <1>2, <3>1 DEF Message, SessionMessage
    <3> QED
      BY <1>2, <3>2, Others
  <2>2. PICK es \in Seq(SessionMessage) : es = Append(entries, summary)
    BY <1>5, <2>1, AppendProperties
  <2>3. ASSUME NEW u \in Msg PROVE Occurrences(u, es) = Occurrences(u, entries)
    <3>1. Occurrences(u, es) = Occurrences(u, entries) + (IF summary.id = u THEN 1 ELSE 0)
      BY <1>5, <2>1, <2>2, CountMore
    <3> QED
      BY <2>1, <3>1, Tallies
  <2>4. \/ /\ holds = <<>> /\ Goto(d, "again", <<>>) /\ State(WithoutError(Context(es)), es, pendingBash)
        \/ GoOn(d, holds, WithoutError(Context(es)), es, pendingBash)
        \/ GoOn(d, holds, Context(es), es, pendingBash)
    BY <1>3, <1>7, <2>2
  <2>5. Landed(d, holds, es, pendingBash)
    <3>1. CASE holds = <<>> /\ Goto(d, "again", <<>>) /\ State(WithoutError(Context(es)), es, pendingBash)
      BY <3>1, GotoLands
    <3> QED
      BY <1>4, <2>4, <3>1, GoOnLands
  <2> QED
    BY <1>1, <1>3, <1>5, <2>3, <2>5, LandedFound
<1> QED
  BY <1>6, <1>7

(* A run that is begun takes its messages from the caller or a queue.       *)
LEMMA BeginTakes ==
  ASSUME NEW d, NEW inbox, NEW poll, Begin(d, inbox, poll)
  PROVE  run'.inbox = inbox /\ run'.pc = "turn"
  BY DEF Begin, NoRun

(* A continuation takes from a queue what it injects, or nothing.           *)
LEMMA AgainFound ==
  ASSUME Types, Types', Found, NEW d \in Caller, Again(d)
  PROVE  Found'
<1>1. driver[d].pc = "again" /\ UNCHANGED <<event, fate, unheard>>
  BY DEF Again, history
<1>2. driver[d].holds = <<>>
  BY <1>1 DEF Found, HoldsOne
<1>3. entries \in Seq(SessionMessage) /\ pendingBash \in Seq(BashMsg)
  BY DEF Types, BranchOK
<1>4. CASE Return(d, messages, entries, pendingBash) /\ UNCHANGED <<steering, followUp, run>>
  <2>1. Landed(d, <<>>, entries, pendingBash)
    BY <1>4, ReturnLands
  <2> QED
    BY <1>1, <1>2, <1>3, <1>4, <2>1, LandedFound
<1>5. CASE ContinueRun(d) /\ Goto(d, "running", <<>>) /\ State(messages, entries, pendingBash)
  <2>1. run.inbox = <<>> /\ UNCHANGED entries
    BY <1>5 DEF ContinueRun, isStreaming, Found, State
  <2>2. \A u \in Msg : Around(u)' = Around(u)
    <3> SUFFICES ASSUME NEW u \in Msg PROVE Around(u)' = Around(u)
      OBVIOUS
    <3>1. Occurrences(u, run.inbox) = 0
      BY <2>1, CountNone
    <3>2. /\ Occurrences(u, steering) \in Nat /\ Occurrences(u, followUp) \in Nat
          /\ Occurrences(u, entries) \in Nat /\ Occurrences(u, <<event.message>>) \in Nat
      BY Tallies
    <3>3. /\ Occurrences(u, steering') \in Nat /\ Occurrences(u, followUp') \in Nat
          /\ Occurrences(u, run'.inbox) \in Nat
      <4>1. steering' \in Seq(UserMsg) /\ followUp' \in Seq(UserMsg) /\ run'.inbox \in Seq(UserMsg)
        BY DEF Types, QueuesOK, RunOK, Run
      <4> QED
        BY <4>1, Counting
    <3>4. Occurrences(u, steering) + Occurrences(u, followUp)
            = Occurrences(u, steering') + Occurrences(u, followUp') + Occurrences(u, run'.inbox)
      <4>1. CASE Begin(d, <<>>, TRUE) /\ UNCHANGED <<steering, followUp>>
        <5>1. run'.inbox = <<>>
          BY <4>1, BeginTakes
        <5>2. Occurrences(u, run'.inbox) = 0
          BY <5>1, CountNone
        <5> QED
          BY <3>2, <4>1, <5>2
      <4>2. CASE Begin(d, Drained(steering), FALSE) /\ steering' = Kept(steering) /\ UNCHANGED followUp
        <5>1. run'.inbox = Drained(steering)
          BY <4>2, BeginTakes
        <5>2. Occurrences(u, steering) = Occurrences(u, Drained(steering)) + Occurrences(u, Kept(steering))
          BY CountParts DEF Types, QueuesOK
        <5>3. Occurrences(u, steering) = Occurrences(u, run'.inbox) + Occurrences(u, steering')
          BY <4>2, <5>1, <5>2
        <5> QED
          BY <3>2, <3>3, <4>2, <5>3
      <4>3. CASE Begin(d, Drained(followUp), TRUE) /\ followUp' = Kept(followUp) /\ UNCHANGED steering
        <5>1. run'.inbox = Drained(followUp)
          BY <4>3, BeginTakes
        <5>2. Occurrences(u, followUp) = Occurrences(u, Drained(followUp)) + Occurrences(u, Kept(followUp))
          BY CountParts DEF Types, QueuesOK
        <5>3. Occurrences(u, followUp) = Occurrences(u, run'.inbox) + Occurrences(u, followUp')
          BY <4>3, <5>1, <5>2
        <5> QED
          BY <3>2, <3>3, <4>3, <5>3
      <4> QED
        BY <1>5, <4>1, <4>2, <4>3 DEF ContinueRun
    <3>5. UNCHANGED <<event, entries>>
      BY <1>1, <2>1
    <3> QED
      BY <3>1, <3>2, <3>3, <3>4, <3>5 DEF Around
  <2>3. run'.pc = "turn"
    BY <1>5, BeginTakes DEF ContinueRun
  <2>4. \E e, w : /\ e \in Caller /\ w.holds = driver[e].holds /\ HoldsOne(w)
                  /\ driver' = [driver EXCEPT ![e] = w]
    <3>1. Landed(d, <<>>, entries, pendingBash)
      BY <1>5, GotoLands
    <3> QED
      BY <1>2, <3>1 DEF Landed
  <2> QED
    BY <1>1, <2>2, <2>3, <2>4, Steady
<1> QED
  BY <1>4, <1>5 DEF Again

(* A caller lets go of what it holds.                                       *)
LEMMA LetsGo ==
  ASSUME Types, Found, NEW d \in Caller, NEW w, w.holds = <<>>, driver' = [driver EXCEPT ![d] = w]
  PROVE  /\ \A e \in Caller : HoldsOne(driver'[e])
         /\ \A u \in Msg :
              /\ Occurrences(u, driver[d].holds) \in {0, 1}
              /\ Occurrences(u, driver[d].holds) = 0 => Waiting(u)' = Waiting(u)
              /\ Occurrences(u, driver[d].holds) = 1 =>
                   fate[u] = "sent" /\ Around(u) = 0 /\ Waiting(u)' = {}
<1>1. driver \in [Caller -> Driver] /\ \A e \in Caller : HoldsOne(driver[e])
  BY DEF Types, DriverOK, Found
<1>2. driver'[d] = w /\ \A e \in Caller \ {d} : driver'[e] = driver[e]
  BY <1>1
<1>3. \A e \in Caller : HoldsOne(driver'[e])
  <2>1. HoldsOne(w)
    BY DEF HoldsOne
  <2> QED
    BY <1>1, <1>2, <2>1
<1>4. ASSUME NEW u \in Msg
      PROVE  /\ Occurrences(u, driver[d].holds) \in {0, 1}
             /\ Occurrences(u, driver[d].holds) = 0 => Waiting(u)' = Waiting(u)
             /\ Occurrences(u, driver[d].holds) = 1 =>
                  fate[u] = "sent" /\ Around(u) = 0 /\ Waiting(u)' = {}
  <2>1. PICK holds \in Seq(UserMsg) : holds = driver[d].holds
    BY <1>1 DEF Driver
  <2>2. holds = <<>> \/ Len(holds) = 1
    BY <1>1, <2>1 DEF HoldsOne
  <2>3. Occurrences(u, holds) \in {0, 1}
    BY <2>2, CountHeld, CountNone
  <2>4. Occurrences(u, driver'[d].holds) = 0
    <3>1. driver'[d].holds = <<>>
      BY <1>2
    <3> QED
      BY <3>1, CountNone
  <2>5. Waiting(u)' = Waiting(u) \ {d}
    <3>1. \A e \in Caller : e \in Waiting(u)' <=> Occurrences(u, driver'[e].holds) > 0
      BY DEF Waiting
    <3>2. \A e \in Caller : e \in Waiting(u) <=> Occurrences(u, driver[e].holds) > 0
      BY DEF Waiting
    <3>3. Waiting(u)' \subseteq Caller /\ Waiting(u) \subseteq Caller
      BY DEF Waiting
    <3>4. \A e \in Caller \ {d} : Occurrences(u, driver'[e].holds) = Occurrences(u, driver[e].holds)
      BY <1>2
    <3>5. d \notin Waiting(u)'
      BY <2>4, <3>1
    <3> QED
      BY <3>1, <3>2, <3>3, <3>4, <3>5
  <2>6. d \in Waiting(u) <=> Occurrences(u, holds) > 0
    BY <2>1 DEF Waiting
  <2>7. Occurrences(u, holds) = 0 => Waiting(u)' = Waiting(u)
    BY <2>5, <2>6
  <2>8. ASSUME Occurrences(u, holds) = 1
        PROVE  fate[u] = "sent" /\ Around(u) = 0 /\ Waiting(u)' = {}
    <3>1. d \in Waiting(u) /\ Whereabouts(u)
      BY <2>6, <2>8 DEF Found
    <3>2. fate[u] = "sent" /\ Around(u) = 0 /\ \E e \in Caller : Waiting(u) = {e}
      BY <3>1 DEF Whereabouts
    <3> QED
      BY <2>5, <3>1, <3>2
  <2> QED
    BY <2>1, <2>3, <2>7, <2>8
<1> QED
  BY <1>3, <1>4

(* A prompt begins its run, or is refused.                                  *)
LEMMA StartFound ==
  ASSUME Types, Found, NEW d \in Caller, Start(d)
  PROVE  Found'
<1>1. driver[d].pc = "starting" /\ UNCHANGED <<steering, followUp, event, unheard>>
  BY DEF Start
<1>2. PICK holds \in Seq(UserMsg) : holds = driver[d].holds
  BY DEF Types, DriverOK, Driver
<1>3. entries \in Seq(SessionMessage) /\ pendingBash \in Seq(BashMsg)
  BY DEF Types, BranchOK
<1>4. ASSUME isStreaming, Return(d, messages, entries, pendingBash), UNCHANGED run,
             fate' = [u \in Msg |-> IF User(u) \in ToSet(holds) THEN "refused" ELSE fate[u]]
      PROVE  Found'
  <2>1. PICK w : w.holds = <<>> /\ driver' = [driver EXCEPT ![d] = w] /\ entries' \in {entries, entries \o pendingBash}
    BY <1>4, ReturnLands DEF Landed
  <2>2. /\ \A e \in Caller : HoldsOne(driver'[e])
        /\ \A u \in Msg :
             /\ Occurrences(u, holds) \in {0, 1}
             /\ Occurrences(u, holds) = 0 => Waiting(u)' = Waiting(u)
             /\ Occurrences(u, holds) = 1 =>
                  fate[u] = "sent" /\ Around(u) = 0 /\ Waiting(u)' = {}
    BY <1>2, <2>1, LetsGo
  <2>3. ASSUME NEW u \in Msg PROVE Whereabouts(u)'
    <3>1. Occurrences(u, entries') = Occurrences(u, entries)
      BY <1>3, <2>1, CountFlushed
    <3>2. Around(u)' = Around(u)
      BY <1>1, <1>4, <3>1 DEF Around
    <3>3. User(u) \in ToSet(holds) <=> Occurrences(u, holds) > 0
      BY CountHeld
    <3>4. CASE Occurrences(u, holds) = 0
      <4>1. fate'[u] = fate[u] /\ Waiting(u)' = Waiting(u) /\ Whereabouts(u)
        BY <1>4, <2>2, <3>3, <3>4 DEF Found
      <4> QED
        BY <1>1, <3>2, <4>1 DEF Whereabouts
    <3>5. CASE Occurrences(u, holds) = 1
      <4>1. fate'[u] = "refused" /\ Waiting(u)' = {} /\ Around(u)' = 0
        BY <1>4, <2>2, <3>2, <3>3, <3>5
      <4> QED
        BY <4>1 DEF Whereabouts
    <3> QED
      BY <2>2, <3>4, <3>5
  <2>4. run'.pc # "turn" => run'.inbox = <<>>
    BY <1>4 DEF Found
  <2> QED
    BY <2>2, <2>3, <2>4 DEF Found
<1>5. ASSUME ~isStreaming, Begin(d, holds, TRUE), Goto(d, "running", <<>>),
             State(messages, entries, pendingBash), UNCHANGED fate
      PROVE  Found'
  <2>1. run.inbox = <<>> /\ run'.inbox = holds /\ run'.pc = "turn" /\ UNCHANGED entries
    BY <1>5, BeginTakes DEF isStreaming, Found, State
  <2>2. PICK w : w.holds = <<>> /\ driver' = [driver EXCEPT ![d] = w]
    BY <1>5, GotoLands DEF Landed
  <2>3. /\ \A e \in Caller : HoldsOne(driver'[e])
        /\ \A u \in Msg :
             /\ Occurrences(u, holds) \in {0, 1}
             /\ Occurrences(u, holds) = 0 => Waiting(u)' = Waiting(u)
             /\ Occurrences(u, holds) = 1 =>
                  fate[u] = "sent" /\ Around(u) = 0 /\ Waiting(u)' = {}
    BY <1>2, <2>2, LetsGo
  <2>4. ASSUME NEW u \in Msg PROVE Whereabouts(u)'
    <3>1. Around(u)' = Around(u) + Occurrences(u, holds)
      <4>1. Occurrences(u, run.inbox) = 0 /\ Occurrences(u, run'.inbox) = Occurrences(u, holds)
        BY <2>1, CountNone
      <4>2. Occurrences(u, holds) \in Nat
        BY <2>3
      <4>3. UNCHANGED <<steering, followUp, event, entries>>
        BY <1>1, <2>1
      <4>4. /\ Occurrences(u, steering) \in Nat /\ Occurrences(u, followUp) \in Nat
            /\ Occurrences(u, entries) \in Nat /\ Occurrences(u, <<event.message>>) \in Nat
        BY Tallies
      <4> QED
        BY <4>1, <4>2, <4>3, <4>4 DEF Around
    <3>2. Around(u) \in Nat /\ Whereabouts(u)
      BY Tallies DEF Found
    <3>3. CASE Occurrences(u, holds) = 0
      <4>1. Around(u)' = Around(u) /\ Waiting(u)' = Waiting(u)
        BY <2>3, <3>1, <3>2, <3>3
      <4> QED
        BY <1>1, <1>5, <3>2, <4>1 DEF Whereabouts
    <3>4. CASE Occurrences(u, holds) = 1
      <4>1. fate'[u] = "sent" /\ Waiting(u)' = {} /\ Around(u)' = 1
        BY <1>5, <2>3, <3>1, <3>4
      <4> QED
        BY <4>1 DEF Whereabouts
    <3> QED
      BY <2>3, <3>3, <3>4
  <2> QED
    BY <2>1, <2>3, <2>4 DEF Found
<1> QED
  BY <1>2, <1>4, <1>5 DEF Start

----------------------------------------------------------------------------
(* Steps of the client *)

(* A message that had not been said is nowhere; it comes to one caller.     *)
LEMMA PromptFound ==
  ASSUME Types, Found, NEW u \in Msg, Prompt(u)
  PROVE  Found'
<1>1. /\ At("idle") # {} /\ fate[u] = "unsaid" /\ fate' = [fate EXCEPT ![u] = "sent"]
      /\ UNCHANGED <<steering, followUp, run, event, unheard>>
  BY DEF Prompt
<1>2. PICK d : d = CHOOSE c \in At("idle") : \A e \in At("idle") : c <= e
  OBVIOUS
<1>3. d \in Caller /\ driver[d].pc = "idle"
  <2>1. At("idle") \subseteq Caller /\ At("idle") \subseteq Nat
    BY AgentAssumption DEF At, AgentAssumption
  <2>2. PICK c \in At("idle") : \A e \in At("idle") : c <= e
    BY <1>1, <2>1, LeastFailure
  <2>3. d \in At("idle")
    BY <1>2, <2>2, Zenon
  <2> QED
    BY <2>1, <2>3 DEF At
<1>4. PICK holds : holds = <<User(u)>>
  OBVIOUS
<1>5. Len(holds) = 1 /\ Occurrences(u, holds) = 1 /\ \A v \in Msg \ {u} : Occurrences(v, holds) = 0
  <2>1. Len(holds) = 1
    BY <1>4
  <2>2. \A v \in Msg : Occurrences(v, holds) = IF User(u).id = v THEN 1 ELSE 0
    BY <1>4, CountNone
  <2>3. User(u).id = u
    BY Others
  <2> QED
    BY <2>1, <2>2, <2>3
<1>6. entries \in Seq(SessionMessage) /\ pendingBash \in Seq(BashMsg) /\ <<>> \in Seq(BashMsg)
  BY EmptySeq DEF Types, BranchOK
<1>7. PICK es : es = entries \o pendingBash
  OBVIOUS
<1>8. es \in Seq(SessionMessage) /\ \A v \in Msg : Occurrences(v, es) = Occurrences(v, entries)
  BY <1>6, <1>7, Said, CountFlushed, ConcatProperties
<1>9. Landed(d, holds, es, <<>>)
  <2>1. PICK ms : ms = messages \o pendingBash
    OBVIOUS
  <2>2. \/ GoOn(d, holds, ms, es, <<>>)
        \/ \E m : CheckCompaction(d, m, holds, ms, es, <<>>)
    BY <1>2, <1>4, <1>7, <2>1 DEF Prompt
  <2> QED
    BY <1>5, <2>2, GoOnLands, CheckLands
<1>10. PICK w : w.holds = holds /\ HoldsOne(w) /\ driver' = [driver EXCEPT ![d] = w]
  BY <1>9 DEF Landed
<1>11. driver \in [Caller -> Driver] /\ (\A e \in Caller : HoldsOne(driver[e])) /\ driver[d].holds = <<>>
  BY <1>3 DEF Types, DriverOK, Found, HoldsOne
<1>12. driver'[d] = w /\ \A e \in Caller \ {d} : driver'[e] = driver[e]
  BY <1>3, <1>10, <1>11
<1>13. \A v \in Msg : Around(v)' = Around(v)
  <2>1. entries' = es \/ entries' = es \o <<>>
    BY <1>9 DEF Landed
  <2>2. \A v \in Msg : Occurrences(v, es \o <<>>) = Occurrences(v, es)
    BY <1>6, <1>8, CountFlushed
  <2>3. \A v \in Msg : Occurrences(v, entries') = Occurrences(v, entries)
    BY <1>8, <2>1, <2>2
  <2> QED
    BY <1>1, <2>3 DEF Around
<1>14. Waiting(u) = {} /\ Around(u) = 0
  BY <1>1 DEF Found, Whereabouts
<1>15. Waiting(u)' = {d}
  <2>1. \A e \in Caller : e \in Waiting(u)' <=> Occurrences(u, driver'[e].holds) > 0
    BY DEF Waiting
  <2>2. \A e \in Caller : ~(Occurrences(u, driver[e].holds) > 0)
    BY <1>14 DEF Waiting
  <2>3. Occurrences(u, driver'[d].holds) > 0
    BY <1>5, <1>10, <1>12
  <2>4. Waiting(u)' \subseteq Caller
    BY DEF Waiting
  <2> QED
    BY <1>3, <1>12, <2>1, <2>2, <2>3, <2>4
<1>16. ASSUME NEW v \in Msg \ {u} PROVE Waiting(v)' = Waiting(v)
  <2>1. Occurrences(v, driver'[d].holds) = 0 /\ Occurrences(v, driver[d].holds) = 0
    BY <1>5, <1>10, <1>11, <1>12, CountNone
  <2>2. \A e \in Caller : Occurrences(v, driver'[e].holds) = Occurrences(v, driver[e].holds)
    BY <1>12, <2>1
  <2> QED
    BY <2>2 DEF Waiting
<1>17. ASSUME NEW v \in Msg PROVE Whereabouts(v)'
  <2>1. CASE v = u
    <3>1. fate'[u] = "sent" /\ Around(u)' = 0 /\ Waiting(u)' = {d}
      BY <1>1, <1>13, <1>14, <1>15 DEF Types, HistoryOK
    <3> QED
      BY <1>3, <2>1, <3>1 DEF Whereabouts
  <2>2. CASE v # u
    <3>1. fate'[v] = fate[v] /\ Around(v)' = Around(v) /\ Waiting(v)' = Waiting(v) /\ Whereabouts(v)
      BY <1>1, <1>13, <1>16, <2>2 DEF Types, HistoryOK, Found
    <3> QED
      BY <1>1, <3>1 DEF Whereabouts
  <2> QED
    BY <2>1, <2>2
<1>18. \A e \in Caller : HoldsOne(driver'[e])
  BY <1>10, <1>11, <1>12
<1>19. run'.pc # "turn" => run'.inbox = <<>>
  BY <1>1 DEF Found
<1> QED
  BY <1>17, <1>18, <1>19 DEF Found

(* A queued message comes to one queue.                                     *)
LEMMA QueueFound ==
  ASSUME Types, Types', Found, NEW u \in Msg, NEW how \in {"steer", "followUp"}, Queue(u, how)
  PROVE  Found'
<1>1. /\ fate[u] = "unsaid" /\ fate' = [fate EXCEPT ![u] = "sent"]
      /\ UNCHANGED <<run, event, unheard, entries, driver>>
      /\ \/ steering' = Append(steering, User(u)) /\ UNCHANGED followUp
         \/ followUp' = Append(followUp, User(u)) /\ UNCHANGED steering
  BY DEF Queue
<1>2. steering \in Seq(UserMsg) /\ followUp \in Seq(UserMsg) /\ User(u) \in UserMsg /\ User(u).id = u
  BY Others DEF Types, QueuesOK, UserMsg
<1>3. ASSUME NEW v \in Msg
      PROVE  Around(v)' = Around(v) + (IF v = u THEN 1 ELSE 0) /\ Waiting(v)' = Waiting(v) /\ Around(v) \in Nat
  <2>1. /\ Occurrences(v, Append(steering, User(u))) = Occurrences(v, steering) + (IF User(u).id = v THEN 1 ELSE 0)
        /\ Occurrences(v, Append(followUp, User(u))) = Occurrences(v, followUp) + (IF User(u).id = v THEN 1 ELSE 0)
    BY <1>2, CountMore
  <2>2. Occurrences(v, steering') + Occurrences(v, followUp')
          = Occurrences(v, steering) + Occurrences(v, followUp) + (IF v = u THEN 1 ELSE 0)
    <3>1. Occurrences(v, steering) \in Nat /\ Occurrences(v, followUp) \in Nat
      BY Tallies
    <3>2. CASE steering' = Append(steering, User(u)) /\ UNCHANGED followUp
      <4>1. Occurrences(v, steering') = Occurrences(v, steering) + (IF v = u THEN 1 ELSE 0)
        BY <1>2, <2>1, <3>2
      <4> QED
        BY <3>1, <3>2, <4>1
    <3>3. CASE followUp' = Append(followUp, User(u)) /\ UNCHANGED steering
      <4>1. Occurrences(v, followUp') = Occurrences(v, followUp) + (IF v = u THEN 1 ELSE 0)
        BY <1>2, <2>1, <3>3
      <4> QED
        BY <3>1, <3>3, <4>1
    <3> QED
      BY <1>1, <3>2, <3>3
  <2>3. UNCHANGED <<run, event, entries>>
    BY <1>1
  <2>4. /\ Occurrences(v, steering) \in Nat /\ Occurrences(v, followUp) \in Nat
        /\ Occurrences(v, run.inbox) \in Nat /\ Occurrences(v, entries) \in Nat
        /\ Occurrences(v, <<event.message>>) \in Nat
    BY Tallies
  <2>5. Occurrences(v, steering') \in Nat /\ Occurrences(v, followUp') \in Nat
    BY Counting DEF Types, QueuesOK
  <2>6. Around(v)' = Around(v) + (IF v = u THEN 1 ELSE 0)
    BY <2>2, <2>3, <2>4, <2>5 DEF Around
  <2>7. Waiting(v)' = Waiting(v)
    BY <1>1 DEF Waiting
  <2> QED
    BY <2>6, <2>7, Tallies
<1>4. ASSUME NEW v \in Msg PROVE Whereabouts(v)'
  <2>1. Whereabouts(v) /\ fate' \in [Msg -> {"unsaid", "sent", "refused", "cleared"}]
    BY DEF Found, Types, HistoryOK
  <2>2. CASE v = u
    <3>1. Around(u) = 0 /\ Waiting(u) = {}
      BY <1>1, <2>1, <2>2 DEF Whereabouts
    <3>2. fate'[u] = "sent" /\ Around(u)' = 1 /\ Waiting(u)' = {}
      <4>1. fate'[u] = "sent"
        BY <1>1 DEF Types, HistoryOK
      <4>2. Around(u)' = Around(u) + 1 /\ Waiting(u)' = Waiting(u)
        BY <1>3
      <4> QED
        BY <3>1, <4>1, <4>2
    <3> QED
      BY <2>2, <3>2 DEF Whereabouts
  <2>3. CASE v # u
    <3>1. fate'[v] = fate[v]
      BY <1>1, <2>3 DEF Types, HistoryOK
    <3>2. Around(v)' = Around(v) /\ Waiting(v)' = Waiting(v)
      <4>1. Around(v)' = Around(v) + 0 /\ Around(v) \in Nat /\ Waiting(v)' = Waiting(v)
        BY <1>3, <2>3
      <4> QED
        BY <4>1
    <3> QED
      BY <1>1, <2>1, <3>1, <3>2 DEF Whereabouts
  <2> QED
    BY <2>2, <2>3
<1> QED
  BY <1>1, <1>4 DEF Found

(* What is cleared was queued, and is nowhere.                              *)
LEMMA ClearQueueFound ==
  ASSUME Types, Found, ClearQueue
  PROVE  Found'
<1>1. /\ steering' = <<>> /\ followUp' = <<>> /\ UNCHANGED <<run, event, unheard, entries, driver>>
      /\ fate' = [u \in Msg |-> IF User(u) \in Queued THEN "cleared" ELSE fate[u]]
  BY DEF ClearQueue, clearAllQueues
<1>2. steering \in Seq(UserMsg) /\ followUp \in Seq(UserMsg)
  BY DEF Types, QueuesOK
<1>3. ASSUME NEW u \in Msg PROVE Whereabouts(u)'
  <2>1. /\ Occurrences(u, steering) \in Nat /\ Occurrences(u, followUp) \in Nat
        /\ Occurrences(u, run.inbox) \in Nat /\ Occurrences(u, entries) \in Nat
        /\ Occurrences(u, <<event.message>>) \in Nat
    BY Tallies
  <2>2. User(u) \in Queued <=> Occurrences(u, steering) > 0 \/ Occurrences(u, followUp) > 0
    <3>1. /\ User(u) \in ToSet(steering) <=> Occurrences(u, steering) > 0
          /\ User(u) \in ToSet(followUp) <=> Occurrences(u, followUp) > 0
      BY <1>2, CountHeld
    <3> QED
      BY <3>1 DEF Queued
  <2>3. Occurrences(u, steering') = 0 /\ Occurrences(u, followUp') = 0
    BY <1>1, CountNone
  <2>4. UNCHANGED <<run, event, entries>>
    BY <1>1
  <2>5. Around(u) = Around(u)' + Occurrences(u, steering) + Occurrences(u, followUp) /\ Around(u)' \in Nat
    BY <2>1, <2>3, <2>4 DEF Around
  <2>6. Waiting(u)' = Waiting(u) /\ Whereabouts(u)
    BY <1>1 DEF Waiting, Found
  <2>7. CASE User(u) \in Queued
    <3>0. PICK n \in Nat : n = Around(u)'
      BY <2>5
    <3>1. Around(u) # 0
      <4>1. Around(u) = n + Occurrences(u, steering) + Occurrences(u, followUp)
        BY <2>5, <3>0
      <4>2. PICK i, j : /\ i \in Nat /\ j \in Nat
                        /\ i = Occurrences(u, steering) /\ j = Occurrences(u, followUp)
        BY <2>1
      <4>3. Around(u) = n + i + j /\ (i > 0 \/ j > 0)
        BY <2>2, <2>7, <4>1, <4>2
      <4>4. \A x \in Nat, y \in Nat, z \in Nat : y > 0 \/ z > 0 => x + y + z # 0
        OBVIOUS
      <4> QED
        BY <3>0, <4>2, <4>3, <4>4
    <3>2. Around(u) = 1 /\ Waiting(u) = {}
      BY <2>6, <3>1 DEF Whereabouts
    <3>3. Around(u)' = 0
      BY <2>1, <2>2, <2>5, <2>7, <3>2
    <3>4. fate'[u] = "cleared"
      BY <1>1, <2>7
    <3> QED
      BY <2>6, <3>2, <3>3, <3>4 DEF Whereabouts
  <2>8. CASE User(u) \notin Queued
    <3>1. Around(u)' = Around(u)
      BY <2>1, <2>2, <2>5, <2>8
    <3>2. fate'[u] = fate[u]
      BY <1>1, <2>8
    <3> QED
      BY <1>1, <2>6, <3>1, <3>2 DEF Whereabouts
  <2> QED
    BY <2>7, <2>8
<1> QED
  BY <1>1, <1>3 DEF Found

(* An abort, by itself or for compact(), takes no message.                  *)
LEMMA InterruptFound ==
  ASSUME Types, Found, Abort \/ BeginCompact
  PROVE  Found'
<1>1. Interrupt /\ UNCHANGED <<steering, followUp, event, entries, fate, unheard>>
  BY DEF Abort, BeginCompact
<1>2. run'.inbox = run.inbox /\ run'.pc = run.pc
  <2>1. run \in Run
    BY DEF Types, RunOK
  <2> QED
    BY <1>1, <2>1 DEF Interrupt, AbortRun, Run
<1>3. \A u \in Msg : Around(u)' = Around(u)
  BY <1>1, <1>2 DEF Around
<1>4. CASE sleeper \in Caller
  <2>1. driver[sleeper].pc \in {"backoff", "cancelled"}
    BY <1>4 DEF Types, DriverOK
  <2>2. driver[sleeper].holds = <<>>
    BY <1>4, <2>1 DEF Found, HoldsOne
  <2>3. PICK w : w = [Idle EXCEPT !.pc = "cancelled", !.holds = <<>>]
    OBVIOUS
  <2>4. w.holds = <<>> /\ driver' = [driver EXCEPT ![sleeper] = w]
    BY <1>1, <1>4, <2>3 DEF Interrupt, Goto, Idle
  <2>5. HoldsOne(w)
    BY <2>4 DEF HoldsOne
  <2>6. \E d, v : /\ d \in Caller /\ v.holds = driver[d].holds /\ HoldsOne(v)
                  /\ driver' = [driver EXCEPT ![d] = v]
    BY <1>4, <2>2, <2>4, <2>5
  <2>7. run'.pc # "turn" => run'.inbox = <<>>
    BY <1>2 DEF Found
  <2> QED
    BY <1>1, <1>3, <2>6, <2>7, Steady
<1>5. CASE sleeper \notin Caller
  <2>1. UNCHANGED driver
    BY <1>1, <1>5 DEF Interrupt
  <2>2. run'.pc # "turn" => run'.inbox = <<>>
    BY <1>2 DEF Found
  <2> QED
    BY <1>1, <1>3, <2>1, <2>2, Steady
<1> QED
  BY <1>4, <1>5

(* Neither a command that returns nor a summary is a message of a client.   *)
LEMMA EntryFound ==
  ASSUME Types, Found, UNCHANGED <<steering, followUp, run, event, driver, fate, unheard>>,
         \/ UNCHANGED entries
         \/ \E m \in SessionMessage : entries' = Append(entries, m) /\ \A u \in Msg : m.id # u
  PROVE  Found'
<1>1. entries \in Seq(SessionMessage)
  BY DEF Types, BranchOK
<1>2. ASSUME NEW u \in Msg PROVE Occurrences(u, entries') = Occurrences(u, entries)
  <2>1. CASE UNCHANGED entries
    BY <2>1
  <2>2. ASSUME NEW m \in SessionMessage, entries' = Append(entries, m), m.id # u
        PROVE  Occurrences(u, entries') = Occurrences(u, entries)
    <3>1. Occurrences(u, Append(entries, m)) = Occurrences(u, entries) + (IF m.id = u THEN 1 ELSE 0)
      BY <1>1, CountMore
    <3> QED
      BY <2>2, <3>1, Tallies
  <2> QED
    BY <2>1, <2>2
<1>3. \A u \in Msg : Around(u)' = Around(u)
  BY <1>2 DEF Around
<1>4. run'.pc # "turn" => run'.inbox = <<>>
  BY DEF Found
<1> QED
  BY <1>3, <1>4, Steady

(* The last two steps that write entries.                                   *)
LEMMA BashReturnsFound ==
  ASSUME Types, Found, NEW b \in Bash, BashReturns(b)
  PROVE  Found'
<1>1. /\ UNCHANGED <<steering, followUp, run, event, driver, fate, unheard>>
      /\ UNCHANGED entries \/ entries' = Append(entries, BashResult(b))
  BY DEF BashReturns, State
<1>2. BashResult(b) \in SessionMessage /\ \A u \in Msg : BashResult(b).id # u
  <2>1. BashResult(b) \in BashMsg
    BY DEF BashMsg
  <2> QED
    BY <2>1, Said, Others
<1> QED
  BY <1>1, <1>2, EntryFound

(* The summary of compact() is no message of a client either.               *)
LEMMA EndCompactFound ==
  ASSUME Types, Found, NEW ok \in BOOLEAN, EndCompact(ok)
  PROVE  Found'
<1>1. PICK k : k = compaction.kept
  OBVIOUS
<1>2. PICK summary : summary = Message("compaction", NoId, "", k)
  OBVIOUS
<1>3. /\ UNCHANGED <<steering, followUp, run, event, driver, fate, unheard>>
      /\ UNCHANGED entries \/ entries' = Append(entries, summary)
  BY <1>1, <1>2 DEF EndCompact, State, history
<1>4. summary \in SessionMessage /\ \A u \in Msg : summary.id # u
  <2>1. k \in Nat
    BY <1>1 DEF Types, CompactionOK
  <2>2. summary \in SessionMessage
    BY <1>2, <2>1 DEF Message, SessionMessage
  <2> QED
    BY <1>2, <2>2, Others
<1> QED
  BY <1>3, <1>4, EntryFound

(* At first no message has been said.                                       *)
LEMMA InitFound == Init => Found
<1> SUFFICES ASSUME Init PROVE Found
  OBVIOUS
<1>1. /\ steering = <<>> /\ followUp = <<>> /\ entries = <<>> /\ run.inbox = <<>> /\ event.message = NoMessage
      /\ driver = [d \in Caller |-> Idle] /\ fate = [u \in Msg |-> "unsaid"]
  BY DEF Init, AgentInit, NoRun, NoEvent
<1>2. \A d \in Caller : driver[d].holds = <<>>
  BY <1>1 DEF Idle
<1>3. ASSUME NEW u \in Msg PROVE Whereabouts(u)
  <2>1. /\ Occurrences(u, steering) = 0 /\ Occurrences(u, followUp) = 0 /\ Occurrences(u, entries) = 0
        /\ Occurrences(u, run.inbox) = 0
    BY <1>1, CountNone
  <2>2. Occurrences(u, <<event.message>>) = 0
    BY <1>1, Others, CountNone
  <2>3. Around(u) = 0
    BY <2>1, <2>2 DEF Around
  <2>4. \A d \in Caller : Occurrences(u, driver[d].holds) = 0
    BY <1>2, CountNone
  <2>5. Waiting(u) = {}
    BY <2>4 DEF Waiting
  <2>6. fate[u] # "sent"
    BY <1>1
  <2> QED
    BY <2>3, <2>5, <2>6 DEF Whereabouts
<1> QED
  BY <1>1, <1>2, <1>3 DEF Found, HoldsOne

(* No step loses or doubles one.                                            *)
LEMMA StepFound == Types /\ Types' /\ Found /\ [Next]_vars => Found'
<1> SUFFICES ASSUME Types, Types', Found, [Next]_vars PROVE Found'
  OBVIOUS
<1>1. CASE UNCHANGED vars
  <2>1. UNCHANGED <<steering, followUp, run, event, driver, fate, unheard, entries>>
    BY <1>1 DEF vars, agentVars, session, history
  <2> QED
    BY <2>1, EntryFound
<1>2. CASE SessionStep
  <2>1. CASE \E d \in Caller : PromptStep(d)
    BY <2>1, PostFound, AgainFound, StartFound DEF PromptStep
  <2>2. CASE Loop \/ Started \/ Persist \/ Finish
    BY <2>2, LoopFound, StartedFound, PersistFound, FinishFound
  <2>3. CASE \E d \in Caller : Retry(d) \/ \E ok \in BOOLEAN : Compacted(d, ok)
    BY <2>3, PostFound, CompactedFound
  <2>4. CASE \E ok \in BOOLEAN : EndCompact(ok)
    BY <2>4, EndCompactFound
  <2> QED
    BY <1>2, <2>1, <2>2, <2>3, <2>4 DEF SessionStep
<1>3. CASE ClientStep
  <2>1. CASE \E u \in Msg : Prompt(u) \/ Queue(u, "steer") \/ Queue(u, "followUp")
    BY <2>1, PromptFound, QueueFound
  <2>2. CASE Abort \/ ClearQueue \/ BeginCompact
    BY <2>2, InterruptFound, ClearQueueFound
  <2>3. CASE \E b \in Bash : BashReturns(b)
    BY <2>3, BashReturnsFound
  <2> QED
    BY <1>3, <2>1, <2>2, <2>3 DEF ClientStep
<1> QED
  BY <1>1, <1>2, <1>3 DEF Next

----------------------------------------------------------------------------
(* What the client is shown *)

Displaying == \A u \in Msg : Displayed(u)
Has(u, q) == Occurrences(u, q) > 0
Queues(u) == Has(u, steering) \/ Has(u, followUp)

(* Who is in a queue, in what is drawn from it, and in two sequences.       *)
LEMMA HasParts ==
  ASSUME NEW u \in Msg, NEW q \in Seq(UserMsg)
  PROVE  /\ User(u) \in ToSet(q) <=> Has(u, q)
         /\ Has(u, q) <=> Has(u, Drained(q)) \/ Has(u, Kept(q))
         /\ ~Has(u, <<>>)
         /\ \A p \in Seq(UserMsg) : Has(u, p \o q) <=> Has(u, p) \/ Has(u, q)
<1>1. User(u) \in ToSet(q) <=> Has(u, q)
  BY CountHeld DEF Has
<1>2. Has(u, q) <=> Has(u, Drained(q)) \/ Has(u, Kept(q))
  <2>1. Occurrences(u, q) = Occurrences(u, Drained(q)) + Occurrences(u, Kept(q))
    BY CountParts
  <2>2. Occurrences(u, Drained(q)) \in Nat /\ Occurrences(u, Kept(q)) \in Nat
    <3>1. Drained(q) \in Seq(UserMsg) /\ Kept(q) \in Seq(UserMsg)
      BY Drawn
    <3> QED
      BY <3>1, Counting
  <2> QED
    BY <2>1, <2>2 DEF Has
<1>3. ~Has(u, <<>>)
  BY CountNone DEF Has
<1>4. ASSUME NEW p \in Seq(UserMsg) PROVE Has(u, p \o q) <=> Has(u, p) \/ Has(u, q)
  <2>1. Occurrences(u, p \o q) = Occurrences(u, p) + Occurrences(u, q)
    BY CountBoth
  <2>2. Occurrences(u, p) \in Nat /\ Occurrences(u, q) \in Nat
    BY Counting
  <2> QED
    BY <2>1, <2>2 DEF Has
<1> QED
  BY <1>1, <1>2, <1>3, <1>4

(* A step that changes neither the queues nor the display, and lets a run   *)
(* drop no message.                                                         *)
LEMMA DisplayStays ==
  ASSUME Displaying, UNCHANGED <<steering, followUp, shown>>,
         \A u \in Msg : /\ Has(u, run.inbox) => Has(u, run'.inbox)
                        /\ u \in unheard => u \in unheard'
  PROVE  Displaying'
<1> SUFFICES ASSUME NEW u \in Msg PROVE Displayed(u)'
  BY DEF Displaying
<1>1. Displayed(u)
  BY DEF Displaying
<1> QED
  BY <1>1 DEF Displayed, Queued, Has

(* A step that moves messages out of the queues into the run.               *)
LEMMA DisplayMoves ==
  ASSUME Types, Types', Displaying, UNCHANGED <<shown, unheard>>,
         \A u \in Msg : /\ Queues(u)' => Queues(u)
                        /\ Queues(u) \/ Has(u, run.inbox) => Queues(u)' \/ Has(u, run'.inbox)
  PROVE  Displaying'
<1> SUFFICES ASSUME NEW u \in Msg PROVE Displayed(u)'
  BY DEF Displaying
<1>1. Displayed(u)
  BY DEF Displaying
<1>2. User(u) \in Queued <=> Queues(u)
  <2>1. /\ User(u) \in ToSet(steering) <=> Has(u, steering)
        /\ User(u) \in ToSet(followUp) <=> Has(u, followUp)
    BY HasParts DEF Types, QueuesOK
  <2> QED
    BY <2>1 DEF Queued, Queues
<1>3. User(u) \in Queued' <=> Queues(u)'
  <2>1. /\ User(u) \in ToSet(steering') <=> Has(u, steering')
        /\ User(u) \in ToSet(followUp') <=> Has(u, followUp')
    BY HasParts DEF Types, QueuesOK
  <2> QED
    BY <2>1 DEF Queued, Queues
<1> QED
  BY <1>1, <1>2, <1>3 DEF Displayed, Has

(* The loop draws from the queues what it injects.                          *)
LEMMA LoopDisplays ==
  ASSUME Types, Types', Found, Displaying, Loop
  PROVE  Displaying'
<1>1. UNCHANGED <<shown, unheard>>
  BY DEF Loop, session, history
<1>2. run \in Run /\ (run.pc # "turn" => run.inbox = <<>>) /\ steering \in Seq(UserMsg) /\ followUp \in Seq(UserMsg)
  BY DEF Types, RunOK, QueuesOK, Found
<1>3. CASE StoreMessage \/ Prepare \/ Answer \/ (\E r \in Replies : Respond(r)) \/ (\E c \in 1..MaxCalls : Execute(c))
  <2>1. UNCHANGED <<steering, followUp>> /\ run'.inbox = run.inbox
    BY <1>2, <1>3 DEF StoreMessage, Prepare, Answer, Respond, Execute, Run
  <2> QED
    BY <1>1, <2>1, DisplayStays
<1>4. CASE Request
  <2>1. PICK polled : polled = IF run.poll THEN Drained(steering) ELSE <<>>
    OBVIOUS
  <2>2. /\ run.inbox = <<>> /\ UNCHANGED followUp
        /\ steering' = IF run.poll THEN Kept(steering) ELSE steering
        /\ run'.inbox = polled
    BY <1>2, <1>4, <2>1 DEF Request, Run
  <2>3. ASSUME NEW u \in Msg
        PROVE  /\ Has(u, steering) <=> Has(u, polled) \/ Has(u, steering')
               /\ ~Has(u, run.inbox)
    <3>1. Has(u, steering) <=> Has(u, Drained(steering)) \/ Has(u, Kept(steering))
      BY <1>2, HasParts
    <3>2. ~Has(u, <<>>)
      BY <1>2, HasParts
    <3> QED
      BY <2>1, <2>2, <3>1, <3>2
  <2> QED
    BY <1>1, <2>2, <2>3, DisplayMoves DEF Queues
<1>5. CASE \E terminate \in BOOLEAN : EndTurn(terminate)
  <2>1. PICK terminate \in BOOLEAN : EndTurn(terminate)
    BY <1>5
  <2>2. PICK stops \in BOOLEAN : stops <=> Drained(steering) = <<>> /\ (run.pc = "answered" \/ terminate)
    OBVIOUS
  <2>3. PICK steered, followed : /\ steered = Drained(steering)
                                 /\ followed = IF stops THEN Drained(followUp) ELSE <<>>
    OBVIOUS
  <2>4. /\ run.pc \in {"answered", "tools"}
        /\ steering' = Kept(steering)
        /\ followUp' = IF stops THEN Kept(followUp) ELSE followUp
        /\ run'.inbox = steered \o followed
    BY <1>2, <2>1, <2>2, <2>3 DEF EndTurn, Run, Ready
  <2>5. steered \in Seq(UserMsg) /\ followed \in Seq(UserMsg)
    BY <1>2, <2>3, Drawn, EmptySeq
  <2>6. ASSUME NEW u \in Msg
        PROVE  /\ Has(u, steering) <=> Has(u, steered) \/ Has(u, steering')
               /\ Has(u, followUp) <=> Has(u, followed) \/ Has(u, followUp')
               /\ Has(u, run'.inbox) <=> Has(u, steered) \/ Has(u, followed)
               /\ ~Has(u, run.inbox)
    <3>1. /\ Has(u, steering) <=> Has(u, Drained(steering)) \/ Has(u, Kept(steering))
          /\ Has(u, followUp) <=> Has(u, Drained(followUp)) \/ Has(u, Kept(followUp))
      BY <1>2, HasParts
    <3>2. ~Has(u, <<>>)
      BY <1>2, HasParts
    <3>3. Has(u, steered \o followed) <=> Has(u, steered) \/ Has(u, followed)
      BY <2>5, HasParts
    <3>4. run.inbox = <<>>
      BY <1>2, <2>4
    <3> QED
      BY <2>3, <2>4, <3>1, <3>2, <3>3, <3>4
  <2> QED
    BY <1>1, <2>6, DisplayMoves DEF Queues
<1> QED
  BY <1>3, <1>4, <1>5 DEF Loop

(* What begins with the session listening is taken off the display, and was *)
(* queued no more.                                                          *)
LEMMA StartedDisplays ==
  ASSUME Types, Found, Displaying, Started
  PROVE  Displaying'
<1>1. /\ UNCHANGED <<steering, followUp>>
      /\ run.inbox # <<>> /\ event'.message = Head(run.inbox) /\ run'.inbox = Tail(run.inbox)
      /\ IF subscribed THEN shown' = shown \ {event'.message.id} /\ UNCHANGED unheard
                       ELSE unheard' = unheard \cup {event'.message.id} /\ UNCHANGED shown
  <2>1. run \in Run
    BY DEF Types, RunOK
  <2> QED
    BY <2>1 DEF Started, StartMessage, Ready, Emit, Run
<1> SUFFICES ASSUME NEW u \in Msg PROVE Displayed(u)'
  BY DEF Displaying
<1>2. Displayed(u)
  BY DEF Displaying
<1>3. Queued' = Queued
  BY <1>1 DEF Queued
<1>4. run.inbox \in Seq(UserMsg) /\ run'.inbox \in Seq(UserMsg)
  <2>1. run.inbox \in Seq(UserMsg)
    BY DEF Types, RunOK, Run
  <2> QED
    BY <1>1, <2>1, HeadTailProperties
<1>5. Occurrences(u, run.inbox) = (IF event'.message.id = u THEN 1 ELSE 0) + Occurrences(u, run'.inbox)
  BY <1>1, <1>4, CountParts
<1>6. Occurrences(u, run'.inbox) \in Nat
  BY <1>4, Counting
<1>7. CASE event'.message.id # u
  <2>1. Occurrences(u, run.inbox) = Occurrences(u, run'.inbox)
    BY <1>5, <1>6, <1>7
  <2> QED
    BY <1>1, <1>2, <1>3, <1>7, <2>1 DEF Displayed
<1>8. CASE event'.message.id = u
  <2>1. Occurrences(u, run.inbox) > 0
    BY <1>5, <1>6, <1>8
  <2>2. User(u) \notin Queued
    <3>1. /\ Occurrences(u, steering) \in Nat /\ Occurrences(u, followUp) \in Nat
          /\ Occurrences(u, run.inbox) \in Nat /\ Occurrences(u, entries) \in Nat
          /\ Occurrences(u, <<event.message>>) \in Nat
      BY Tallies
    <3>2. Around(u) \in {0, 1}
      BY DEF Found, Whereabouts
    <3>3. Occurrences(u, steering) = 0 /\ Occurrences(u, followUp) = 0
      BY <2>1, <3>1, <3>2 DEF Around
    <3>4. ~Has(u, steering) /\ ~Has(u, followUp)
      BY <3>3 DEF Has
    <3>5. User(u) \notin ToSet(steering) /\ User(u) \notin ToSet(followUp)
      BY <3>4, HasParts DEF Types, QueuesOK
    <3> QED
      BY <3>5 DEF Queued
  <2> QED
    BY <1>1, <1>2, <1>3, <1>8, <2>2 DEF Displayed
<1> QED
  BY <1>7, <1>8

(* A caller starts a run with what it holds, or goes on with the queues.    *)
LEMMA CallerDisplays ==
  ASSUME Types, Types', Found, Displaying, NEW d \in Caller, Start(d) \/ Again(d)
  PROVE  Displaying'
<1>1. UNCHANGED <<shown, unheard>>
  BY DEF Start, Again, history
<1>2. steering \in Seq(UserMsg) /\ followUp \in Seq(UserMsg) /\ (run.pc # "turn" => run.inbox = <<>>)
  BY DEF Types, QueuesOK, Found
<1>3. CASE UNCHANGED <<steering, followUp, run>>
  BY <1>1, <1>3, DisplayStays
<1>4. CASE Start(d) /\ Begin(d, driver[d].holds, TRUE) /\ ~isStreaming
  <2>1. run.inbox = <<>> /\ UNCHANGED <<steering, followUp>>
    BY <1>2, <1>4 DEF Start, isStreaming
  <2>2. \A u \in Msg : ~Has(u, run.inbox)
    BY <1>2, <2>1, HasParts
  <2> QED
    BY <1>1, <2>1, <2>2, DisplayStays
<1>5. CASE ContinueRun(d)
  <2>1. run.inbox = <<>>
    BY <1>2, <1>5 DEF ContinueRun, isStreaming
  <2>2. ASSUME NEW u \in Msg
        PROVE  /\ Queues(u)' => Queues(u)
               /\ Queues(u) \/ Has(u, run.inbox) => Queues(u)' \/ Has(u, run'.inbox)
    <3>1. /\ Has(u, steering) <=> Has(u, Drained(steering)) \/ Has(u, Kept(steering))
          /\ Has(u, followUp) <=> Has(u, Drained(followUp)) \/ Has(u, Kept(followUp))
      BY <1>2, HasParts
    <3>2. ~Has(u, run.inbox)
      BY <1>2, <2>1, HasParts
    <3>3. CASE Begin(d, <<>>, TRUE) /\ UNCHANGED <<steering, followUp>>
      BY <3>2, <3>3 DEF Queues
    <3>4. CASE Begin(d, Drained(steering), FALSE) /\ steering' = Kept(steering) /\ UNCHANGED followUp
      <4>1. run'.inbox = Drained(steering)
        BY <3>4, BeginTakes
      <4> QED
        BY <3>1, <3>2, <3>4, <4>1 DEF Queues
    <3>5. CASE Begin(d, Drained(followUp), TRUE) /\ followUp' = Kept(followUp) /\ UNCHANGED steering
      <4>1. run'.inbox = Drained(followUp)
        BY <3>5, BeginTakes
      <4> QED
        BY <3>1, <3>2, <3>5, <4>1 DEF Queues
    <3> QED
      BY <1>5, <3>3, <3>4, <3>5 DEF ContinueRun
  <2> QED
    BY <1>1, <2>2, DisplayMoves
<1> QED
  BY <1>3, <1>4, <1>5 DEF Start, Again

(* What a client queues is shown, and nothing is once the queues are cleared.*)
LEMMA ClientDisplays ==
  ASSUME Types, Types', Displaying, ClearQueue \/ \E u \in Msg : Queue(u, "steer") \/ Queue(u, "followUp")
  PROVE  Displaying'
<1>1. CASE ClearQueue
  <2>1. shown' = {} /\ steering' = <<>> /\ followUp' = <<>>
    BY <1>1 DEF ClearQueue, clearAllQueues
  <2>2. \A u \in Msg : User(u) \notin ToSet(<<>>)
    BY DEF ToSet
  <2> QED
    BY <2>1, <2>2 DEF Displaying, Displayed, Queued
<1>2. ASSUME NEW u \in Msg, Queue(u, "steer") \/ Queue(u, "followUp")
      PROVE  Displaying'
  <2>1. /\ shown' = shown \cup {u} /\ UNCHANGED <<run, unheard>>
        /\ \/ steering' = Append(steering, User(u)) /\ UNCHANGED followUp
           \/ followUp' = Append(followUp, User(u)) /\ UNCHANGED steering
    BY <1>2 DEF Queue
  <2>2. \A q \in Seq(UserMsg) : ToSet(Append(q, User(u))) = ToSet(q) \cup {User(u)}
    <3> SUFFICES ASSUME NEW q \in Seq(UserMsg) PROVE ToSet(Append(q, User(u))) = ToSet(q) \cup {User(u)}
      OBVIOUS
    <3>1. PICK m \in UserMsg : m = User(u)
      BY DEF UserMsg
    <3>2. /\ Len(Append(q, m)) = Len(q) + 1 /\ Append(q, m)[Len(q) + 1] = m /\ Len(q) \in Nat
          /\ \A i \in 1..Len(q) : Append(q, m)[i] = q[i]
      OBVIOUS
    <3>3. PICK r : r = Append(q, m)
      OBVIOUS
    <3>4. r \in Seq(UserMsg) /\ Len(r) = Len(q) + 1 /\ r[Len(q) + 1] = m /\ \A i \in 1..Len(q) : r[i] = q[i]
      BY <3>2, <3>3
    <3>5. {r[i] : i \in 1..Len(r)} = {q[i] : i \in 1..Len(q)} \cup {m}
      <4>1. ASSUME NEW i \in 1..Len(r) PROVE r[i] \in {q[j] : j \in 1..Len(q)} \cup {m}
        <5>1. i \in 1..Len(q) \/ i = Len(q) + 1
          BY <3>2, <3>4
        <5> QED
          BY <3>4, <5>1
      <4>2. Len(q) + 1 \in 1..Len(r) /\ \A j \in 1..Len(q) : j \in 1..Len(r)
        BY <3>2, <3>4
      <4>3. m \in {r[i] : i \in 1..Len(r)}
        BY <3>4, <4>2
      <4>4. ASSUME NEW j \in 1..Len(q) PROVE q[j] \in {r[i] : i \in 1..Len(r)}
        BY <3>4, <4>2
      <4> QED
        BY <4>1, <4>3, <4>4
    <3>6. ToSet(r) = {r[i] : i \in 1..Len(r)} /\ ToSet(q) = {q[i] : i \in 1..Len(q)}
      <4>1. DOMAIN r = 1..Len(r) /\ DOMAIN q = 1..Len(q)
        BY <3>4
      <4> QED
        BY <4>1 DEF ToSet
    <3>7. ToSet(r) = ToSet(q) \cup {m}
      BY <3>5, <3>6
    <3> QED
      BY <3>1, <3>3, <3>7
  <2>3. Queued' = Queued \cup {User(u)}
    BY <2>1, <2>2 DEF Queued, Types, QueuesOK
  <2>4. \A v \in Msg : User(v) = User(u) => v = u
    BY DEF User, Message
  <2> SUFFICES ASSUME NEW v \in Msg PROVE Displayed(v)'
    BY DEF Displaying
  <2>5. Displayed(v)
    BY DEF Displaying
  <2> QED
    BY <2>1, <2>3, <2>4, <2>5 DEF Displayed
<1> QED
  BY <1>1, <1>2

(* The display follows every step.                                          *)
LEMMA StepDisplays == Types /\ Types' /\ Found /\ Displaying /\ [Next]_vars => Displaying'
<1> SUFFICES ASSUME Types, Types', Found, Displaying, [Next]_vars PROVE Displaying'
  OBVIOUS
<1>1. run \in Run /\ (run.pc # "turn" => run.inbox = <<>>)
  BY DEF Types, RunOK, Found
<1>2. CASE UNCHANGED <<steering, followUp, shown, unheard>> /\ run'.inbox = run.inbox
  BY <1>2, DisplayStays
<1>3. CASE UNCHANGED vars
  BY <1>2, <1>3 DEF vars, agentVars, session, history
<1>4. CASE SessionStep
  <2>1. CASE \E d \in Caller : PromptStep(d)
    <3>1. ASSUME NEW d \in Caller, Post(d) \/ RetryCancelled(d) PROVE Displaying'
      BY <1>2, <3>1 DEF Post, RetryCancelled, history
    <3> QED
      BY <2>1, <3>1, CallerDisplays DEF PromptStep
  <2>2. CASE Loop \/ Started
    BY <2>2, LoopDisplays, StartedDisplays
  <2>3. CASE Persist
    <3>1. UNCHANGED <<steering, followUp, shown, run>> /\ \A u \in Msg : u \in unheard => u \in unheard'
      BY <2>3 DEF Persist
    <3> QED
      BY <3>1, DisplayStays
  <2>4. CASE Finish
    <3>1. run.pc = "end" /\ run'.inbox = <<>> /\ UNCHANGED <<steering, followUp, shown, unheard>>
      BY <2>4 DEF Finish, FinishRun, history, Ready, NoRun
    <3> QED
      BY <1>1, <1>2, <3>1
  <2>5. CASE \E d \in Caller : Retry(d) \/ \E ok \in BOOLEAN : Compacted(d, ok)
    BY <1>2, <2>5 DEF Retry, Compacted, agentVars, history
  <2>6. CASE \E ok \in BOOLEAN : EndCompact(ok)
    BY <1>2, <2>6 DEF EndCompact, history
  <2> QED
    BY <1>4, <2>1, <2>2, <2>3, <2>4, <2>5, <2>6 DEF SessionStep
<1>5. CASE ClientStep
  <2>1. CASE \E u \in Msg : Prompt(u)
    BY <1>2, <2>1 DEF Prompt
  <2>2. CASE ClearQueue \/ \E u \in Msg : Queue(u, "steer") \/ Queue(u, "followUp")
    BY <2>2, ClientDisplays
  <2>3. CASE Abort \/ BeginCompact
    <3>1. UNCHANGED <<steering, followUp, shown, unheard>> /\ run' = [run EXCEPT !.aborted = isStreaming]
      BY <2>3 DEF Abort, BeginCompact, Interrupt, AbortRun
    <3> QED
      BY <1>1, <1>2, <3>1 DEF Run
  <2>4. CASE \E b \in Bash : BashReturns(b)
    BY <1>2, <2>4 DEF BashReturns
  <2> QED
    BY <1>5, <2>1, <2>2, <2>3, <2>4 DEF ClientStep
<1> QED
  BY <1>3, <1>4, <1>5 DEF Next

(* A message that is found is in one place.                                 *)
LEMMA FoundOnce ==
  ASSUME Types, Found, NEW u \in Msg
  PROVE  InOnePlace(u)
<1> USE DEF InOnePlace
<1>1. Places(u) = Around(u) + Cardinality(Waiting(u))
  <2>1. /\ steering \in Seq(SessionMessage) /\ followUp \in Seq(SessionMessage)
        /\ run.inbox \in Seq(SessionMessage) /\ entries \in Seq(SessionMessage)
    BY Said DEF Types, QueuesOK, BranchOK, RunOK, Run
  <2>2. <<event.message>> \in Seq(SessionMessage)
    <3>1. PICK m \in SessionMessage : m = event.message
      BY DEF Types, EventOK
    <3>2. <<m>> \in Seq(SessionMessage)
      OBVIOUS
    <3> QED
      BY <3>1, <3>2
  <2>3. PICK last \in Seq(SessionMessage) : last = <<event.message>>
    BY <2>2
  <2>4. PICK a \in Seq(SessionMessage) : a = steering \o followUp
    BY <2>1, ConcatProperties
  <2>5. PICK c \in Seq(SessionMessage) : c = a \o run.inbox
    BY <2>1, ConcatProperties
  <2>6. PICK e \in Seq(SessionMessage) : e = c \o entries
    BY <2>1, ConcatProperties
  <2>7. /\ Occurrences(u, a) = Occurrences(u, steering) + Occurrences(u, followUp)
        /\ Occurrences(u, c) = Occurrences(u, a) + Occurrences(u, run.inbox)
        /\ Occurrences(u, e) = Occurrences(u, c) + Occurrences(u, entries)
        /\ Occurrences(u, e \o last) = Occurrences(u, e) + Occurrences(u, last)
    BY <2>1, <2>4, <2>5, <2>6, CountBoth
  <2>8. steering \o followUp \o run.inbox \o entries \o <<event.message>> = e \o last
    BY <2>3, <2>4, <2>5, <2>6
  <2>9. Occurrences(u, e \o last) = Around(u)
    BY <2>3, <2>7 DEF Around
  <2> QED
    BY <2>8, <2>9 DEF Places, Waiting
<1>2. Whereabouts(u) /\ Around(u) \in Nat
  BY Tallies DEF Found
<1>3. Waiting(u) = {} => Places(u) = Around(u)
  BY <1>1, <1>2, FS_EmptySet
<1>4. ASSUME NEW d, Waiting(u) = {d} PROVE Places(u) = Around(u) + 1
  <2>1. Cardinality(Waiting(u)) = 1
    BY <1>4, FS_Singleton
  <2> QED
    BY <1>1, <2>1
<1>5. CASE fate[u] = "sent"
  <2>1. \/ Around(u) = 1 /\ Waiting(u) = {}
        \/ Around(u) = 0 /\ \E d \in Caller : Waiting(u) = {d}
        \/ Around(u) = 0 /\ Waiting(u) = {} /\ u \in unheard
    BY <1>2, <1>5 DEF Whereabouts
  <2>2. CASE Around(u) = 0 /\ \E d \in Caller : Waiting(u) = {d}
    <3>1. Places(u) = 0 + 1
      BY <1>4, <2>2
    <3> QED
      BY <1>5, <3>1
  <2> QED
    BY <1>3, <1>5, <2>1, <2>2
<1>6. CASE fate[u] # "sent"
  BY <1>2, <1>3, <1>6 DEF Whereabouts
<1> QED
  BY <1>5, <1>6

(* Every message that a client hands in is in exactly one place until it is  *)
(* refused or cleared: queued, drained, announced, persisted or held by a   *)
(* call of prompt() (steer(), followUp(), drain(), _handleAgentEvent()),    *)
(* unless it was said in a run that compact() had stopped listening to; and *)
(* what clearQueue() gives back is what it clears or what a run has drained.*)
THEOREM NoMessageIsLost == Spec => []Conserved
<1>1. Inv => Types
  BY DEF Inv
<1>2. Types /\ Found /\ Displaying => Conserved
  BY FoundOnce DEF Conserved, Displaying
<1>3. Init => Displaying
  BY DEF Init, AgentInit, Displaying, Displayed, Queued, ToSet
<1> QED
  BY <1>1, <1>2, <1>3, Invariant, InitFound, StepFound, StepDisplays, PTL DEF Spec

----------------------------------------------------------------------------
(* Transcripts that agree *)

(* The same but for failed replies.                                         *)
Same(ms, ns) == WithoutFaults(ms) = WithoutFaults(ns)

(* One sequence behind another.                                             *)
LEMMA Joined ==
  ASSUME NEW S, NEW s \in Seq(S), NEW t \in Seq(S)
  PROVE  \E q \in Seq(S) :
           /\ q = s \o t /\ Len(q) = Len(s) + Len(t)
           /\ \A i \in 1..(Len(s) + Len(t)) : q[i] = IF i <= Len(s) THEN s[i] ELSE t[i - Len(s)]
<1>1. /\ s \o t \in Seq(S) /\ Len(s \o t) = Len(s) + Len(t)
      /\ \A i \in 1 .. Len(s) + Len(t) : (s \o t)[i] = IF i <= Len(s) THEN s[i] ELSE t[i - Len(s)]
  BY ConcatProperties
<1>2. PICK q \in Seq(S) : q = s \o t
  BY <1>1
<1> QED
  BY <1>1, <1>2

(* What is left of two sequences, one behind the other.                     *)
LEMMA FaultsBoth ==
  ASSUME NEW ms \in Seq(SessionMessage), NEW ns \in Seq(SessionMessage)
  PROVE  /\ WithoutFaults(ms \o ns) = WithoutFaults(ms) \o WithoutFaults(ns)
         /\ WithoutFaults(ms) \in Seq(SessionMessage)
<1> DEFINE One(m) == IF m.ended \in Faulty THEN <<>> ELSE <<m>>
           Parts(q) == [i \in DOMAIN q |-> One(q[i])]
<1>1. \A m \in SessionMessage : One(m) \in Seq(SessionMessage)
  <2> SUFFICES ASSUME NEW m \in SessionMessage PROVE One(m) \in Seq(SessionMessage)
    OBVIOUS
  <2>1. <<>> \in Seq(SessionMessage) /\ <<m>> \in Seq(SessionMessage)
    OBVIOUS
  <2> QED
    BY <2>1
<1>2. \A q \in Seq(SessionMessage) : Parts(q) \in Seq(Seq(SessionMessage)) /\ Len(Parts(q)) = Len(q)
                                     /\ \A i \in 1..Len(q) : Parts(q)[i] = One(q[i])
  <2> HIDE DEF One
  <2> SUFFICES ASSUME NEW q \in Seq(SessionMessage)
               PROVE  Parts(q) \in Seq(Seq(SessionMessage)) /\ Len(Parts(q)) = Len(q)
                      /\ \A i \in 1..Len(q) : Parts(q)[i] = One(q[i])
    OBVIOUS
  <2>1. Len(q) \in Nat /\ DOMAIN q = 1..Len(q) /\ \A i \in 1..Len(q) : q[i] \in SessionMessage
    OBVIOUS
  <2>2. \A i \in 1..Len(q) : One(q[i]) \in Seq(SessionMessage)
    BY <1>1, <2>1
  <2>3. Parts(q) = [i \in 1..Len(q) |-> One(q[i])]
    BY <2>1
  <2>4. [i \in 1..Len(q) |-> One(q[i])] \in Seq(Seq(SessionMessage))
    BY <2>1, <2>2, IsASeq
  <2> QED
    BY <2>1, <2>3, <2>4
<1>3. \A q : WithoutFaults(q) = FlattenSeq(Parts(q))
  BY DEF WithoutFaults
<1> HIDE DEF Parts
<1>4. PICK a \in Seq(Seq(SessionMessage)), b \in Seq(Seq(SessionMessage)) : a = Parts(ms) /\ b = Parts(ns)
  BY <1>2
<1>5. Parts(ms \o ns) = a \o b
  <2> HIDE DEF One
  <2>1. PICK q \in Seq(SessionMessage) :
          /\ q = ms \o ns /\ Len(q) = Len(ms) + Len(ns)
          /\ \A i \in 1..(Len(ms) + Len(ns)) : q[i] = IF i <= Len(ms) THEN ms[i] ELSE ns[i - Len(ms)]
    BY Joined
  <2>2. PICK c \in Seq(Seq(SessionMessage)) :
          /\ c = a \o b /\ Len(c) = Len(a) + Len(b)
          /\ \A i \in 1..(Len(a) + Len(b)) : c[i] = IF i <= Len(a) THEN a[i] ELSE b[i - Len(a)]
    BY Joined
  <2>3. PICK p \in Seq(Seq(SessionMessage)) :
          p = Parts(q) /\ Len(p) = Len(q) /\ \A i \in 1..Len(q) : p[i] = One(q[i])
    BY <1>2
  <2>4. /\ Len(a) = Len(ms) /\ \A i \in 1..Len(ms) : a[i] = One(ms[i])
        /\ Len(b) = Len(ns) /\ \A i \in 1..Len(ns) : b[i] = One(ns[i])
    BY <1>2, <1>4
  <2>5. Len(ms) \in Nat /\ Len(ns) \in Nat
    OBVIOUS
  <2>6. Len(p) = Len(c)
    BY <2>1, <2>2, <2>3, <2>4
  <2>7. ASSUME NEW i \in 1..Len(p) PROVE p[i] = c[i]
    <3>1. i \in 1..(Len(ms) + Len(ns))
      BY <2>1, <2>3
    <3>2. CASE i <= Len(ms)
      <4>1. i \in 1..Len(ms)
        BY <2>5, <3>1, <3>2
      <4>2. q[i] = ms[i] /\ c[i] = a[i]
        BY <2>1, <2>2, <2>4, <3>1, <3>2
      <4> QED
        BY <2>1, <2>3, <2>4, <3>1, <4>1, <4>2
    <3>3. CASE ~(i <= Len(ms))
      <4>1. i - Len(ms) \in 1..Len(ns)
        BY <2>5, <3>1, <3>3
      <4>2. q[i] = ns[i - Len(ms)] /\ c[i] = b[i - Len(ms)]
        BY <2>1, <2>2, <2>4, <3>1, <3>3
      <4> QED
        BY <2>1, <2>3, <2>4, <3>1, <4>1, <4>2
    <3> QED
      BY <3>2, <3>3
  <2>8. p = c
    BY <2>6, <2>7, SeqEqual
  <2> QED
    BY <2>1, <2>2, <2>3, <2>8
<1>6. FlattenSeq(a \o b) = FlattenSeq(a) \o FlattenSeq(b)
  BY FlattenBoth
<1>7. FlattenSeq(a) \in Seq(SessionMessage)
  <2>1. <<>> \in Seq(SessionMessage)
    OBVIOUS
  <2> QED
    BY <2>1, FlattenMore
<1> QED
  BY <1>3, <1>4, <1>5, <1>6, <1>7

(* A failed reply that is dropped leaves the same; so does an overflow.     *)
LEMMA SameShortened ==
  ASSUME NEW ms \in Seq(SessionMessage)
  PROVE  /\ (EndsWithReply(ms) => Last(ms).ended \in Faulty) => Same(WithoutReply(ms), ms)
         /\ Same(WithoutError(ms), ms)
<1>1. ASSUME ms # <<>>, Last(ms).ended \in Faulty PROVE Same(Front(ms), ms)
  <2>1. PICK fs \in Seq(SessionMessage), m \in SessionMessage : ms = Append(fs, m)
    BY <1>1, SequenceEmptyOrAppend
  <2>2. Last(ms) = m
    BY <2>1, Appended
  <2>3. Front(ms) = fs
    <3>1. Len(ms) = Len(fs) + 1 /\ Len(fs) \in Nat
      BY <2>1, Appended
    <3>2. Front(ms) = SubSeq(ms, 1, Len(fs))
      BY <3>1 DEF Front
    <3>3. SubSeq(ms, 1, Len(fs)) = fs
      BY <2>1, <3>1, AppendProperties
    <3> QED
      BY <3>2, <3>3
  <2>4. PICK one \in Seq(SessionMessage) : one = <<m>> /\ Len(one) = 1 /\ one[1] = m /\ DOMAIN one = {1}
    <3>1. <<m>> \in Seq(SessionMessage) /\ Len(<<m>>) = 1 /\ <<m>>[1] = m /\ DOMAIN <<m>> = {1}
      OBVIOUS
    <3> QED
      BY <3>1
  <2>5. WithoutFaults(one) = <<>>
    <3>1. PICK p : p = [i \in DOMAIN one |-> IF one[i].ended \in Faulty THEN <<>> ELSE <<one[i]>>]
      OBVIOUS
    <3>2. <<>> \in Seq(SessionMessage) /\ 1 \in Nat /\ 1..1 = {1}
      OBVIOUS
    <3>3. [i \in 1..1 |-> <<>>] \in Seq(Seq(SessionMessage))
      BY <3>2, IsASeq
    <3>4. PICK q \in Seq(Seq(SessionMessage)) : q = [i \in 1..1 |-> <<>>]
      BY <3>3
    <3>5. p = q
      BY <1>1, <2>2, <2>4, <3>1, <3>2, <3>4
    <3>8. q[1] = <<>>
      BY <3>2, <3>4
    <3>9. Len(q) = 1
      BY <3>4
    <3>11. Len(q) # 0
      BY <3>9
    <3>12. Len(<<>>) = 0
      OBVIOUS
    <3>10. q # <<>>
      BY <3>11, <3>12, Zenon
    <3>6. PICK g : Joins(g, q, Len(q)) /\ FlattenSeq(q) = g[Len(q)]
      BY <3>10, FlattenUnfolds
    <3>7. g[1] = q[1]
      BY <3>9, <3>6 DEF Joins
    <3> QED
      BY <3>1, <3>5, <3>6, <3>7, <3>8, <3>9 DEF WithoutFaults
  <2>6. ms = fs \o one
    BY <2>1, <2>4, AppendIsConcat
  <2>7. WithoutFaults(ms) = WithoutFaults(fs) \o <<>> /\ WithoutFaults(fs) \in Seq(SessionMessage)
    BY <2>5, <2>6, FaultsBoth
  <2>8. \A q \in Seq(SessionMessage) : q \o <<>> = q
    BY ConcatEmptySeq
  <2> QED
    BY <2>3, <2>7, <2>8 DEF Same
<1>2. \A e : e \in {"error", "overflow"} => e \in Faulty
  BY DEF Faulty
<1> QED
  BY <1>1, <1>2 DEF WithoutReply, WithoutError, EndsWithReply, Same

(* What is added to both leaves them the same.                              *)
LEMMA SameMore ==
  ASSUME NEW ms \in Seq(SessionMessage), NEW ns \in Seq(SessionMessage), Same(ms, ns)
  PROVE  /\ \A qs \in Seq(SessionMessage) : Same(ms \o qs, ns \o qs)
         /\ \A m \in SessionMessage : Same(Append(ms, m), Append(ns, m))
<1>1. ASSUME NEW qs \in Seq(SessionMessage) PROVE Same(ms \o qs, ns \o qs)
  <2>1. WithoutFaults(ms \o qs) = WithoutFaults(ms) \o WithoutFaults(qs)
    BY FaultsBoth
  <2>2. WithoutFaults(ns \o qs) = WithoutFaults(ns) \o WithoutFaults(qs)
    BY FaultsBoth
  <2> QED
    BY <2>1, <2>2, Zenon DEF Same
<1>2. ASSUME NEW m \in SessionMessage PROVE Same(Append(ms, m), Append(ns, m))
  <2>3. <<m>> \in Seq(SessionMessage)
    OBVIOUS
  <2>1. PICK one \in Seq(SessionMessage) : one = <<m>>
    BY <2>3
  <2>2. Append(ms, m) = ms \o one /\ Append(ns, m) = ns \o one
    BY <2>1, AppendIsConcat
  <2> QED
    BY <1>1, <2>2
<1> QED
  BY <1>1, <1>2

(* A part of what comes first.                                              *)
LEMMA PartOfBoth ==
  ASSUME NEW S, NEW s \in Seq(S), NEW t \in Seq(S), NEW m \in Nat \ {0}, NEW n \in Nat, n <= Len(s)
  PROVE  /\ SubSeq(s, m, n) \in Seq(S)
         /\ SubSeq(s \o t, m, n) = SubSeq(s, m, n)
<1>1. PICK q \in Seq(S) :
        /\ q = s \o t /\ Len(q) = Len(s) + Len(t)
        /\ \A i \in 1..(Len(s) + Len(t)) : q[i] = IF i <= Len(s) THEN s[i] ELSE t[i - Len(s)]
  BY Joined
<1>2. Len(s) \in Nat /\ Len(t) \in Nat
  OBVIOUS
<1>3. ASSUME NEW k \in Nat, k <= Len(s)
      PROVE  SubSeq(s, m, k) \in Seq(S) /\ SubSeq(q, m, k) = SubSeq(s, m, k)
  <2>1. CASE k < m
    <3>1. SubSeq(q, m, k) = <<>> /\ SubSeq(s, m, k) = <<>>
      BY <2>1, SubSeqEmpty
    <3> QED
      BY <3>1
  <2>2. CASE ~(k < m)
    <3>1. m \in 1..Len(s) /\ k \in 1..Len(s)
      BY <1>2, <1>3, <2>2
    <3>2. SubSeq(s \o t, m, k) = SubSeq(s, m, k)
      BY <3>1, SubSeqOfConcat1
    <3>3. \A i \in m..k : s[i] \in S
      BY <3>1
    <3>4. SubSeq(s, m, k) \in Seq(S)
      BY <3>3, SubSeqProperties
    <3> QED
      BY <1>1, <3>2, <3>4
  <2> QED
    BY <2>1, <2>2
<1> QED
  BY <1>1, <1>3

(* All that follows a place in it.                                          *)
LEMMA RestOfBoth ==
  ASSUME NEW S, NEW s \in Seq(S), NEW t \in Seq(S), NEW m \in Nat \ {0}, m <= Len(s) + 1
  PROVE  SubSeq(s \o t, m, Len(s \o t)) = SubSeq(s, m, Len(s)) \o t
<1>1. PICK q \in Seq(S) :
        /\ q = s \o t /\ Len(q) = Len(s) + Len(t)
        /\ \A i \in 1..(Len(s) + Len(t)) : q[i] = IF i <= Len(s) THEN s[i] ELSE t[i - Len(s)]
  BY Joined
<1>2. Len(s) \in Nat /\ Len(t) \in Nat /\ Len(s) <= Len(s)
  OBVIOUS
<1>4. SubSeq(q, m, Len(q)) = SubSeq(s, m, Len(s)) \o t
  <2>1. m \in 1..(Len(q) + 1) /\ Len(s) \in (m - 1)..Len(q) /\ Len(q) \in Len(s)..Len(q)
    BY <1>1, <1>2
  <2>2. SubSeq(q, m, Len(s)) \o SubSeq(q, Len(s) + 1, Len(q)) = SubSeq(q, m, Len(q))
    BY <2>1, ConcatAdjacentSubSeq
  <2>3. SubSeq(q, Len(s) + 1, Len(q)) = t
    <3>1. CASE t = <<>>
      <4>1. Len(q) < Len(s) + 1
        BY <1>1, <1>2, <3>1
      <4>2. SubSeq(q, Len(s) + 1, Len(q)) = <<>>
        BY <1>2, <4>1, SubSeqEmpty
      <4> QED
        BY <3>1, <4>2
    <3>2. CASE t # <<>>
      <4>1. Len(t) \in Nat \ {0}
        BY <3>2, EmptySeq
      <4>2. Len(s) + 1 \in (Len(s) + 1)..(Len(s) + Len(t)) /\ Len(q) \in (Len(s) + 1)..(Len(s) + Len(t))
        BY <1>1, <1>2, <4>1
      <4>3. SubSeq(s \o t, Len(s) + 1, Len(q)) = SubSeq(t, (Len(s) + 1) - Len(s), Len(q) - Len(s))
        BY <4>2, SubSeqOfConcat2
      <4>4. (Len(s) + 1) - Len(s) = 1 /\ Len(q) - Len(s) = Len(t)
        BY <1>1, <1>2
      <4>5. SubSeq(t, 1, Len(t)) = t
        BY SubSeqFull
      <4> QED
        BY <1>1, <4>3, <4>4, <4>5
    <3> QED
      BY <3>1, <3>2
  <2>4. SubSeq(q, m, Len(s)) = SubSeq(s, m, Len(s))
    BY <1>1, <1>2, PartOfBoth
  <2> QED
    BY <2>2, <2>3, <2>4
<1> QED
  BY <1>1, <1>4

(* What reopening a branch gives, and what comes behind it as it does.      *)
LEMMA ContextBoth ==
  ASSUME NEW es \in Seq(SessionMessage), Sound(es), NEW qs \in Seq(SessionMessage),
         \A i \in 1..Len(qs) : qs[i].is # "compaction"
  PROVE  Context(es) \in Seq(SessionMessage) /\ Context(es \o qs) = Context(es) \o qs
<1>1. PICK fs \in Seq(SessionMessage) :
        /\ fs = es \o qs /\ Len(fs) = Len(es) + Len(qs)
        /\ \A i \in 1..(Len(es) + Len(qs)) : fs[i] = IF i <= Len(es) THEN es[i] ELSE qs[i - Len(es)]
  BY Joined
<1>2. Len(es) \in Nat /\ Len(qs) \in Nat /\ DOMAIN es = 1..Len(es) /\ DOMAIN fs = 1..Len(fs)
  OBVIOUS
<1>3. Compactions(fs) = Compactions(es)
  <2>1. ASSUME NEW i \in 1..Len(es) PROVE i \in 1..Len(fs) /\ fs[i] = es[i]
    BY <1>1, <1>2
  <2>2. ASSUME NEW i \in 1..Len(fs), i \notin 1..Len(es) PROVE fs[i].is # "compaction"
    <3>1. i - Len(es) \in 1..Len(qs) /\ ~(i <= Len(es)) /\ i \in 1..(Len(es) + Len(qs))
      BY <1>1, <1>2, <2>2
    <3>2. fs[i] = qs[i - Len(es)]
      BY <1>1, <3>1
    <3> QED
      BY <3>1, <3>2
  <2> QED
    BY <1>2, <2>1, <2>2 DEF Compactions
<1>4. CASE Compactions(es) = {}
  BY <1>1, <1>3, <1>4 DEF Context
<1>5. CASE Compactions(es) # {}
  <2>1. PICK c : c = Newest(es)
    OBVIOUS
  <2>2. c \in 1..Len(es) /\ es[c].is = "compaction"
    BY <1>5, <2>1, NewestIs
  <2>3. Newest(fs) = c
    BY <1>3, <2>1 DEF Newest
  <2>4. fs[c] = es[c] /\ es[c] \in SessionMessage /\ es[c].n \in 1..Len(es)
    BY <1>1, <1>2, <2>2 DEF Sound
  <2>5. PICK n \in Nat \ {0} : n = es[c].n
    BY <2>4
  <2>6. c - 1 \in Nat /\ c - 1 <= Len(es) /\ c + 1 \in Nat \ {0} /\ c + 1 <= Len(es) + 1 /\ Len(es) <= Len(es)
    BY <1>2, <2>2
  <2>7. <<es[c]>> \in Seq(SessionMessage)
    BY <2>4
  <2>8. PICK head \in Seq(SessionMessage) : head = <<es[c]>>
    BY <2>7
  <2>9. SubSeq(es, n, c - 1) \in Seq(SessionMessage) /\ SubSeq(fs, n, c - 1) = SubSeq(es, n, c - 1)
    BY <1>1, <2>6, PartOfBoth
  <2>10. PICK kept \in Seq(SessionMessage) : kept = SubSeq(es, n, c - 1)
    BY <2>9
  <2>11. /\ SubSeq(es, c + 1, Len(es)) \in Seq(SessionMessage)
         /\ SubSeq(fs, c + 1, Len(fs)) = SubSeq(es, c + 1, Len(es)) \o qs
    <3>1. PICK k \in Nat \ {0} : k = c + 1 /\ k <= Len(es) + 1
      BY <2>6
    <3>2. SubSeq(es, k, Len(es)) \in Seq(SessionMessage)
      BY <1>2, <2>6, PartOfBoth
    <3>3. SubSeq(es \o qs, k, Len(es \o qs)) = SubSeq(es, k, Len(es)) \o qs
      BY <3>1, RestOfBoth
    <3> QED
      BY <1>1, <3>1, <3>2, <3>3
  <2>12. PICK rest \in Seq(SessionMessage) : rest = SubSeq(es, c + 1, Len(es))
    BY <2>11
  <2>13. Context(es) = (head \o kept) \o rest
    BY <1>5, <2>1, <2>5, <2>8, <2>10, <2>12 DEF Context
  <2>14. Context(fs) = (head \o kept) \o (rest \o qs)
    <3>1. Context(fs) = <<fs[c]>> \o SubSeq(fs, fs[c].n, c - 1) \o SubSeq(fs, c + 1, Len(fs))
      BY <1>3, <1>5, <2>3 DEF Context
    <3> QED
      BY <3>1, <2>4, <2>5, <2>8, <2>9, <2>10, <2>11, <2>12
  <2>18. head \o kept \in Seq(SessionMessage)
    BY ConcatProperties
  <2>15. PICK hk \in Seq(SessionMessage) : hk = head \o kept
    BY <2>18
  <2>16. (hk \o rest) \o qs = hk \o (rest \o qs)
    BY ConcatAssociative
  <2>17. hk \o rest \in Seq(SessionMessage)
    BY ConcatProperties
  <2> QED
    BY <1>1, <2>13, <2>14, <2>15, <2>16, <2>17
<1> QED
  BY <1>4, <1>5

(* The same of one entry more.                                              *)
LEMMA ContextMore ==
  ASSUME NEW es \in Seq(SessionMessage), Sound(es), NEW m \in SessionMessage, m.is # "compaction"
  PROVE  Context(Append(es, m)) = Append(Context(es), m)
<1>1. <<m>> \in Seq(SessionMessage) /\ Len(<<m>>) = 1 /\ <<m>>[1] = m
  OBVIOUS
<1>2. PICK one \in Seq(SessionMessage) : one = <<m>> /\ Len(one) = 1 /\ one[1] = m
  BY <1>1
<1>3. \A i \in 1..Len(one) : one[i].is # "compaction"
  BY <1>2
<1>4. Context(es) \in Seq(SessionMessage) /\ Context(es \o one) = Context(es) \o one
  BY <1>3, ContextBoth
<1>5. Append(es, m) = es \o one /\ Append(Context(es), m) = Context(es) \o one
  BY <1>2, <1>4, AppendIsConcat
<1> QED
  BY <1>4, <1>5

----------------------------------------------------------------------------
(* The invariant of their agreement *)

(* The transcript is what reopening the session would give, but for failed  *)
(* replies that were dropped; a message that is announced comes behind it.  *)
Agreement ==
  Same(messages, IF event.kind = "end" THEN Append(Context(entries), event.message) ELSE Context(entries))

(* The reply heard last is looked at before a summary replaces it, and a    *)
(* transcript that ends with a reply ends with that one: what is dropped    *)
(* for a retry is the failure.                                              *)
ReplyHeld ==
  lastAssistant # NoMessage => (run.pc # "off" /\ compaction.pc # "summarizing") \/ At("post") # {}
FailureLast(ms) == EndsWithReply(ms) => Last(ms).ended \in Faulty
FailureHeld == event.kind # "end" /\ lastAssistant.ended \in Faulty => FailureLast(messages)

Agreeing == ~astray => Agreement /\ ReplyHeld /\ FailureHeld

(* Deferred results are put behind both.                                    *)
LEMMA FlushedAgrees ==
  ASSUME NEW ms \in Seq(SessionMessage), NEW es \in Seq(SessionMessage), Sound(es),
         NEW bash \in Seq(BashMsg), Same(ms, Context(es))
  PROVE  /\ Same(ms \o bash, Context(es \o bash))
         /\ FailureLast(ms) => FailureLast(ms \o bash)
<1>1. bash \in Seq(SessionMessage) /\ \A i \in 1..Len(bash) : bash[i].is = "bash"
  <2>1. \A i \in 1..Len(bash) : bash[i] \in BashMsg
    OBVIOUS
  <2> QED
    BY <2>1, Said
<1>2. \A i \in 1..Len(bash) : bash[i].is # "compaction"
  BY <1>1
<1>3. Context(es) \in Seq(SessionMessage) /\ Context(es \o bash) = Context(es) \o bash
  BY <1>1, <1>2, ContextBoth
<1>4. Same(ms \o bash, Context(es) \o bash)
  BY <1>1, <1>3, SameMore
<1>5. ASSUME FailureLast(ms) PROVE FailureLast(ms \o bash)
  <2>1. CASE bash = <<>>
    <3>1. ms \o bash = ms
      BY <2>1, ConcatEmptySeq
    <3> QED
      BY <1>5, <3>1
  <2>2. CASE bash # <<>>
    <3>1. PICK q \in Seq(SessionMessage) :
            /\ q = ms \o bash /\ Len(q) = Len(ms) + Len(bash)
            /\ \A i \in 1..(Len(ms) + Len(bash)) : q[i] = IF i <= Len(ms) THEN ms[i] ELSE bash[i - Len(ms)]
      BY <1>1, Joined
    <3>2. Len(bash) \in Nat \ {0} /\ Len(ms) \in Nat
      BY <1>1, <2>2, EmptySeq
    <3>3. q[Len(q)] = bash[Len(q) - Len(ms)] /\ Len(q) - Len(ms) \in 1..Len(bash)
      BY <3>1, <3>2
    <3>4. Last(q).is = "bash"
      BY <1>1, <3>3 DEF Last
    <3> QED
      BY <3>1, <3>4 DEF FailureLast, EndsWithReply
  <2> QED
    BY <2>1, <2>2
<1> QED
  BY <1>3, <1>4, <1>5

(* So is what a caller leaves.                                              *)
LEMMA LeftAgrees ==
  ASSUME NEW ms \in Seq(SessionMessage), NEW es \in Seq(SessionMessage), Sound(es),
         NEW bash \in Seq(BashMsg), Same(ms, Context(es)), Flushes(ms, es, bash)
  PROVE  /\ Same(messages', Context(entries'))
         /\ FailureLast(ms) => FailureLast(messages')
<1>1. CASE State(ms, es, bash)
  BY <1>1 DEF State
<1>2. CASE State(ms \o bash, es \o bash, <<>>)
  <2>1. messages' = ms \o bash /\ entries' = es \o bash
    BY <1>2 DEF State
  <2> QED
    BY <2>1, FlushedAgrees
<1> QED
  BY <1>1, <1>2 DEF Flushes

(* The reply heard last still is to be looked at.                           *)
LEMMA StillHeld ==
  ASSUME Types, ReplyHeld, UNCHANGED lastAssistant,
         run.pc # "off" => run'.pc # "off",
         compaction'.pc = "summarizing" => compaction.pc = "summarizing",
         \/ UNCHANGED driver
         \/ \E d, w : d \in Caller /\ driver[d].pc # "post" /\ driver' = [driver EXCEPT ![d] = w]
  PROVE  ReplyHeld'
  BY PostStays DEF ReplyHeld

(* Nothing is to be looked at.                                              *)
LEMMA NothingHeld ==
  ASSUME lastAssistant' = NoMessage
  PROVE  ReplyHeld' /\ FailureHeld'
<1>1. NoMessage.ended \notin Faulty
  BY DEF NoMessage, Message, Faulty
<1> QED
  BY <1>1 DEF ReplyHeld, FailureHeld

(* What the invariant says of a step that goes not astray.                  *)
LEMMA Accords ==
  ASSUME Inv, Watched, Agreeing
  PROVE  /\ Types
         /\ ~astray' => ~astray /\ ~Strays /\ Orderly /\ Agreement /\ ReplyHeld /\ FailureHeld
         /\ ~astray /\ event.kind # "end" => Same(messages, Context(entries))
         /\ ~astray /\ run.pc = "off" /\ Urgent = {} => lastAssistant = NoMessage
         /\ run.pc = "off" => event = NoEvent
         /\ NoEvent.kind = "none"
<1>1. ~astray' => ~astray /\ ~Strays
  BY Watching
<1>2. Types /\ (~astray => Orderly)
  BY DEF Inv
<1>3. run.pc = "off" => event = NoEvent
  BY <1>2 DEF Types, EventOK
<1>4. Urgent = {} => At("post") = {}
  BY DEF Urgent
<1> QED
  BY <1>1, <1>2, <1>3, <1>4 DEF Agreeing, Agreement, ReplyHeld, NoEvent

(* Transcript and branch are the same, and what is announced is.            *)
LEMMA UntouchedAgrees ==
  ASSUME Agreement, FailureHeld, UNCHANGED <<messages, entries, lastAssistant>>,
         event'.kind = "end" => event' = event, event.kind = "end" => event' = event
  PROVE  Agreement' /\ FailureHeld'
  BY DEF Agreement, FailureHeld

(* A caller moves between runs.                                             *)
LEMMA CallerAgrees ==
  ASSUME Inv, Watched, Agreeing, UNCHANGED event,
         NEW ms \in Seq(SessionMessage), NEW es \in Seq(SessionMessage), Sound(es),
         NEW bash \in Seq(BashMsg), Flushes(ms, es, bash),
         ~astray' => /\ run.pc = "off" /\ Same(ms, Context(es))
                     /\ \/ lastAssistant' = NoMessage
                        \/ ReplyHeld' /\ (lastAssistant'.ended \in Faulty => FailureLast(ms))
  PROVE  Agreeing'
<1> SUFFICES ASSUME ~astray' PROVE Agreement' /\ ReplyHeld' /\ FailureHeld'
  BY DEF Agreeing
<1>1. event' = NoEvent /\ event'.kind = "none"
  BY Accords
<1>2. Same(messages', Context(entries')) /\ (FailureLast(ms) => FailureLast(messages'))
  BY LeftAgrees
<1>3. Agreement'
  BY <1>1, <1>2 DEF Agreement
<1>4. CASE lastAssistant' = NoMessage
  BY <1>3, <1>4, NothingHeld
<1>5. CASE ReplyHeld' /\ (lastAssistant'.ended \in Faulty => FailureLast(ms))
  BY <1>2, <1>3, <1>5 DEF FailureHeld
<1> QED
  BY <1>4, <1>5

----------------------------------------------------------------------------
(* It is kept *)

(* The caller has moved, outside of a run.                                  *)
LEMMA MovedAlone ==
  ASSUME Inv, Watched, NEW d \in Caller, driver[d].pc \notin {"idle", "running"},
         driver'[d].pc # driver[d].pc, ~astray'
  PROVE  run.pc = "off"
<1>1. ~Strays /\ Types
  BY Watching DEF Inv
<1> QED
  BY <1>1, Alone

(* Agreement and the steps of callers.                                      *)
LEMMA RetryAgrees ==
  ASSUME Inv, Watched, Agreeing, Urgent = {}, NEW d \in Caller, Retry(d)
  PROVE  Agreeing'
<1>1. Types /\ MaxRetries \in Nat
  BY SessionAssumption DEF Inv, SessionAssumption
<1>2. /\ messages \in Seq(SessionMessage) /\ entries \in Seq(SessionMessage)
      /\ pendingBash \in Seq(BashMsg) /\ Sound(entries)
  BY <1>1 DEF Types, BranchOK
<1>3. UNCHANGED event /\ UNCHANGED lastAssistant /\ Flushes(messages, entries, pendingBash)
  BY DEF Retry, agentVars, Flushes, State
<1>4. driver[d].pc = "backoff" /\ driver'[d].pc = "again"
  <2>1. driver'[d] = [Idle EXCEPT !.pc = "again", !.holds = <<>>]
    BY <1>1 DEF Retry, Goto, Types, DriverOK
  <2>2. [Idle EXCEPT !.pc = "again", !.holds = <<>>].pc = "again"
    BY DEF Idle
  <2> QED
    BY <2>1, <2>2 DEF Retry
<1>5. ASSUME ~astray'
      PROVE  run.pc = "off" /\ Same(messages, Context(entries)) /\ lastAssistant' = NoMessage
  <2>1. run.pc = "off"
    BY <1>4, <1>5, MovedAlone
  <2>2. ~astray /\ event.kind # "end"
    BY <1>5, <2>1, Accords
  <2>3. Same(messages, Context(entries))
    BY <2>2, Accords
  <2>4. lastAssistant = NoMessage
    BY <2>1, <2>2, Accords
  <2> QED
    BY <1>3, <2>1, <2>3, <2>4
<1> QED
  BY <1>2, <1>3, <1>5, CallerAgrees

(* Nothing is dropped when a retry is cancelled.                            *)
LEMMA RetryCancelledAgrees ==
  ASSUME Inv, Watched, Agreeing, NEW d \in Caller, RetryCancelled(d)
  PROVE  Agreeing'
<1>1. Types
  BY DEF Inv
<1>2. /\ messages \in Seq(SessionMessage) /\ entries \in Seq(SessionMessage)
      /\ pendingBash \in Seq(BashMsg) /\ Sound(entries)
  BY <1>1 DEF Types, BranchOK
<1>3. /\ driver[d].pc = "cancelled" /\ UNCHANGED <<event, run, compaction, lastAssistant>>
      /\ CheckCompaction(d, Reply("error", 0), <<>>, messages, entries, pendingBash)
  BY DEF RetryCancelled
<1>4. Leaves(d, messages, entries, pendingBash)
  <2>1. <<>> \in Seq(UserMsg) /\ overflowTried \in BOOLEAN
    BY <1>1, EmptySeq DEF Types, CountsOK
  <2>2. Reply("error", 0).ended = "error"
    BY DEF Reply, Message
  <2> QED
    BY <1>2, <1>3, <2>1, <2>2, CheckLeaves
<1>5. driver'[d].pc # "cancelled"
  BY <1>1, <1>4, PlacesAfter
<1>6. Flushes(messages, entries, pendingBash)
  BY <1>4 DEF Leaves
<1>7. ASSUME ~astray'
      PROVE  /\ run.pc = "off" /\ Same(messages, Context(entries))
             /\ ReplyHeld' /\ (lastAssistant'.ended \in Faulty => FailureLast(messages))
  <2>1. run.pc = "off"
    BY <1>3, <1>5, <1>7, MovedAlone
  <2>2. ~astray /\ event.kind # "end"
    BY <1>7, <2>1, Accords
  <2>3. Same(messages, Context(entries))
    BY <2>2, Accords
  <2>4. ReplyHeld /\ FailureHeld
    BY <1>7, Accords
  <2>5. \E w : driver' = [driver EXCEPT ![d] = w]
    BY <1>4 DEF Leaves
  <2>6. ReplyHeld'
    BY <1>1, <1>3, <2>4, <2>5, StillHeld
  <2> QED
    BY <1>3, <2>1, <2>2, <2>3, <2>4, <2>6 DEF FailureHeld
<1> QED
  BY <1>2, <1>3, <1>6, <1>7, CallerAgrees

(* A run that begins leaves transcript and branch as they are.              *)
LEMMA RunAgrees ==
  ASSUME Inv, Watched, Agreeing, NEW d \in Caller, driver[d].pc # "post",
         \E w : driver' = [driver EXCEPT ![d] = w], run.pc = "off",
         UNCHANGED <<messages, entries, event, lastAssistant, compaction>>
  PROVE  Agreeing'
<1> SUFFICES ASSUME ~astray' PROVE Agreement' /\ ReplyHeld' /\ FailureHeld'
  BY DEF Agreeing
<1>1. Types /\ Agreement /\ ReplyHeld /\ FailureHeld
  BY Accords
<1>2. ReplyHeld'
  BY <1>1, StillHeld
<1>3. Agreement' /\ FailureHeld'
  BY <1>1, UntouchedAgrees
<1> QED
  BY <1>2, <1>3

(* prompt() starts its run, or is refused and flushes what is deferred.     *)
LEMMA StartAgrees ==
  ASSUME Inv, Watched, Agreeing, NEW d \in Caller, Start(d)
  PROVE  Agreeing'
<1>1. Types /\ driver[d].pc = "starting" /\ UNCHANGED <<event, lastAssistant, compaction>>
  BY DEF Inv, Start
<1>2. /\ messages \in Seq(SessionMessage) /\ entries \in Seq(SessionMessage)
      /\ pendingBash \in Seq(BashMsg) /\ Sound(entries)
  BY <1>1 DEF Types, BranchOK
<1>3. CASE isStreaming
  <2>1. Return(d, messages, entries, pendingBash)
    BY <1>3 DEF Start
  <2>2. driver'[d].pc = "idle"
    BY <1>1, <2>1, PlacesAfter
  <2>3. ~astray' => FALSE
    BY <1>1, <1>3, <2>2, MovedAlone DEF isStreaming
  <2> QED
    BY <2>3 DEF Agreeing
<1>4. CASE ~isStreaming
  <2>1. Goto(d, "running", <<>>) /\ State(messages, entries, pendingBash)
    BY <1>4 DEF Start
  <2>2. \E w : driver' = [driver EXCEPT ![d] = w]
    BY <2>1 DEF Goto
  <2>3. UNCHANGED <<messages, entries>> /\ run.pc = "off"
    BY <1>4, <2>1 DEF State, isStreaming
  <2> QED
    BY <1>1, <2>2, <2>3, RunAgrees
<1> QED
  BY <1>3, <1>4

(* A caller continues, or what it called throws.                            *)
LEMMA AgainAgrees ==
  ASSUME Inv, Watched, Agreeing, NEW d \in Caller, Again(d)
  PROVE  Agreeing'
<1>1. Types /\ driver[d].pc = "again" /\ UNCHANGED <<event, lastAssistant, compaction>>
  BY DEF Inv, Again
<1>2. /\ messages \in Seq(SessionMessage) /\ entries \in Seq(SessionMessage)
      /\ pendingBash \in Seq(BashMsg) /\ Sound(entries)
  BY <1>1 DEF Types, BranchOK
<1>3. CASE Return(d, messages, entries, pendingBash) /\ UNCHANGED run
  <2>1. Leaves(d, messages, entries, pendingBash)
    BY <1>3, ReturnLeaves
  <2>2. driver'[d].pc = "idle"
    BY <1>1, <1>3, PlacesAfter
  <2>3. Flushes(messages, entries, pendingBash) /\ \E w : driver' = [driver EXCEPT ![d] = w]
    BY <2>1 DEF Leaves
  <2>4. ASSUME ~astray'
        PROVE  /\ run.pc = "off" /\ Same(messages, Context(entries))
               /\ ReplyHeld' /\ (lastAssistant'.ended \in Faulty => FailureLast(messages))
    <3>1. run.pc = "off"
      BY <1>1, <2>2, <2>4, MovedAlone
    <3>2. ~astray /\ event.kind # "end"
      BY <2>4, <3>1, Accords
    <3>3. Same(messages, Context(entries))
      BY <3>2, Accords
    <3>4. ReplyHeld /\ FailureHeld
      BY <2>4, Accords
    <3>5. ReplyHeld'
      BY <1>1, <1>3, <2>3, <3>4, StillHeld
    <3> QED
      BY <1>1, <3>1, <3>2, <3>3, <3>4, <3>5 DEF FailureHeld
  <2> QED
    BY <1>1, <1>2, <2>3, <2>4, CallerAgrees
<1>4. CASE ContinueRun(d) /\ Goto(d, "running", <<>>) /\ State(messages, entries, pendingBash)
  <2>1. run.pc = "off" /\ UNCHANGED <<messages, entries>>
    BY <1>4 DEF ContinueRun, isStreaming, State
  <2>2. \E w : driver' = [driver EXCEPT ![d] = w]
    BY <1>4 DEF Goto
  <2> QED
    BY <1>1, <2>1, <2>2, RunAgrees
<1> QED
  BY <1>3, <1>4 DEF Again

(* After a run: the failure that is dropped for a retry is the last reply.  *)
LEMMA PostAgrees ==
  ASSUME Inv, Watched, Agreeing, NEW d \in Caller, Post(d)
  PROVE  Agreeing'
<1>1. Types /\ driver[d].pc = "post" /\ lastAssistant' = NoMessage /\ UNCHANGED <<event, run>>
  BY DEF Inv, Post
<1>2. /\ messages \in Seq(SessionMessage) /\ entries \in Seq(SessionMessage)
      /\ pendingBash \in Seq(BashMsg) /\ Sound(entries) /\ overflowTried \in BOOLEAN
      /\ <<>> \in Seq(UserMsg)
  BY <1>1, EmptySeq DEF Types, BranchOK, CountsOK
<1>3. PICK ms \in Seq(SessionMessage) :
        /\ Flushes(ms, entries, pendingBash) /\ driver'[d].pc # "post"
        /\ ms = messages \/ (lastAssistant.ended \in Faulty /\ ms = WithoutReply(messages))
  <2>0. WithoutReply(messages) \in Seq(SessionMessage)
    BY <1>2, Shortened
  <2>1. CASE Return(d, messages, entries, pendingBash)
    <3>1. Leaves(d, messages, entries, pendingBash) /\ driver'[d].pc = "idle"
      BY <1>1, <2>1, ReturnLeaves, PlacesAfter
    <3> QED
      BY <1>2, <3>1 DEF Leaves
  <2>2. CASE Retries(lastAssistant) /\ Goto(d, "backoff", <<>>) /\ State(WithoutReply(messages), entries, pendingBash)
    <3>1. lastAssistant.ended \in Faulty
      BY <2>2 DEF Retries, Faulty
    <3>2. driver'[d] = [Idle EXCEPT !.pc = "backoff", !.holds = <<>>]
      BY <1>1, <2>2 DEF Goto, Types, DriverOK
    <3>3. [Idle EXCEPT !.pc = "backoff", !.holds = <<>>].pc = "backoff"
      BY DEF Idle
    <3> QED
      BY <2>0, <2>2, <3>1, <3>2, <3>3 DEF Flushes
  <2>3. CASE CheckCompaction(d, lastAssistant, <<>>, messages, entries, pendingBash)
    <3>1. \/ Leaves(d, messages, entries, pendingBash)
          \/ /\ lastAssistant.ended \in {"overflow", "length"}
             /\ Leaves(d, WithoutReply(messages), entries, pendingBash)
      BY <1>2, <2>3, CheckLeaves
    <3>2. driver'[d].pc # "post"
      BY <1>1, <3>1, PlacesAfter
    <3>3. lastAssistant.ended \in {"overflow", "length"} => lastAssistant.ended \in Faulty
      BY DEF Faulty
    <3>4. CASE Leaves(d, messages, entries, pendingBash)
      BY <1>2, <3>2, <3>4 DEF Leaves
    <3>5. CASE /\ lastAssistant.ended \in {"overflow", "length"}
               /\ Leaves(d, WithoutReply(messages), entries, pendingBash)
      BY <2>0, <3>2, <3>3, <3>5 DEF Leaves
    <3> QED
      BY <3>1, <3>4, <3>5
  <2> QED
    BY <2>1, <2>2, <2>3 DEF Post
<1>4. ASSUME ~astray' PROVE run.pc = "off" /\ Same(ms, Context(entries))
  <2>1. run.pc = "off"
    BY <1>1, <1>3, <1>4, MovedAlone
  <2>2. ~astray /\ event.kind # "end"
    BY <1>4, <2>1, Accords
  <2>3. Same(messages, Context(entries)) /\ FailureHeld
    BY <1>4, <2>2, Accords
  <2>4. CASE lastAssistant.ended \in Faulty /\ ms = WithoutReply(messages)
    <3>1. EndsWithReply(messages) => Last(messages).ended \in Faulty
      BY <2>2, <2>3, <2>4 DEF FailureHeld, FailureLast
    <3>2. Same(WithoutReply(messages), messages)
      BY <1>2, <3>1, SameShortened
    <3> QED
      BY <2>1, <2>3, <2>4, <3>2 DEF Same
  <2> QED
    BY <1>3, <2>1, <2>3, <2>4
<1> QED
  BY <1>1, <1>2, <1>3, <1>4, CallerAgrees

(* The summary takes its place in both.                                     *)
LEMMA CompactedAgrees ==
  ASSUME Inv, Watched, Agreeing, Urgent = {}, NEW d \in Caller, NEW ok \in BOOLEAN, Compacted(d, ok)
  PROVE  Agreeing'
<1>1. /\ Types /\ driver[d].pc = "compacting" /\ driver[d] \in Driver /\ MayKeep(entries, driver[d].kept)
      /\ UNCHANGED <<event, lastAssistant>>
  BY DEF Inv, Compacted, Types, DriverOK, CallerOK
<1>2. /\ messages \in Seq(SessionMessage) /\ entries \in Seq(SessionMessage)
      /\ pendingBash \in Seq(BashMsg) /\ Sound(entries)
  BY <1>1 DEF Types, BranchOK
<1>3. PICK holds, k : holds \in Seq(UserMsg) /\ holds = driver[d].holds /\ k = driver[d].kept /\ MayKeep(entries, k)
  BY <1>1 DEF Driver
<1>4. PICK new : new = Append(entries, Summary(k))
  OBVIOUS
<1>5. new \in Seq(SessionMessage) /\ Context(new) \in Seq(SessionMessage) /\ Sound(new)
  BY <1>1, <1>3, <1>4, Summarized
<1>6. WithoutError(Context(new)) \in Seq(SessionMessage) /\ Same(WithoutError(Context(new)), Context(new))
  BY <1>5, Shortened, SameShortened
<1>7. PICK ms \in Seq(SessionMessage), es \in Seq(SessionMessage) :
        /\ Sound(es) /\ (Same(messages, Context(entries)) => Same(ms, Context(es)))
        /\ \/ GoOn(d, holds, ms, es, pendingBash)
           \/ Goto(d, "again", <<>>) /\ State(ms, es, pendingBash)
  <2>1. \/ GoOn(d, holds, messages, entries, pendingBash)
        \/ Goto(d, "again", <<>>) /\ State(WithoutError(Context(new)), new, pendingBash)
        \/ GoOn(d, holds, WithoutError(Context(new)), new, pendingBash)
        \/ GoOn(d, holds, Context(new), new, pendingBash)
    BY <1>3, <1>4 DEF Compacted, Summary
  <2>2. CASE GoOn(d, holds, messages, entries, pendingBash)
    BY <1>2, <2>2
  <2>3. CASE GoOn(d, holds, Context(new), new, pendingBash)
    BY <1>5, <2>3 DEF Same
  <2>4. CASE \/ Goto(d, "again", <<>>) /\ State(WithoutError(Context(new)), new, pendingBash)
             \/ GoOn(d, holds, WithoutError(Context(new)), new, pendingBash)
    BY <1>5, <1>6, <2>4
  <2> QED
    BY <2>1, <2>2, <2>3, <2>4
<1>8. Flushes(ms, es, pendingBash) /\ driver'[d].pc # "compacting"
  <2>1. CASE GoOn(d, holds, ms, es, pendingBash)
    <3>1. Leaves(d, ms, es, pendingBash)
      BY <1>3, <2>1, GoOnLeaves
    <3>2. driver'[d].pc # "compacting"
      BY <1>1, <2>1, PlacesAfter
    <3> QED
      BY <3>1, <3>2 DEF Leaves
  <2>2. CASE Goto(d, "again", <<>>) /\ State(ms, es, pendingBash)
    <3>1. driver'[d] = [Idle EXCEPT !.pc = "again", !.holds = <<>>]
      BY <1>1, <2>2 DEF Goto, Types, DriverOK
    <3>2. [Idle EXCEPT !.pc = "again", !.holds = <<>>].pc = "again"
      BY DEF Idle
    <3> QED
      BY <2>2, <3>1, <3>2 DEF Flushes
  <2> QED
    BY <1>7, <2>1, <2>2
<1>9. ASSUME ~astray'
      PROVE  run.pc = "off" /\ Same(ms, Context(es)) /\ lastAssistant' = NoMessage
  <2>1. run.pc = "off"
    BY <1>1, <1>8, <1>9, MovedAlone
  <2>2. ~astray /\ event.kind # "end"
    BY <1>9, <2>1, Accords
  <2>3. Same(messages, Context(entries)) /\ lastAssistant = NoMessage
    BY <2>1, <2>2, Accords
  <2> QED
    BY <1>1, <1>7, <2>1, <2>3
<1> QED
  BY <1>1, <1>2, <1>7, <1>8, <1>9, CallerAgrees

(* A prompt drops the last reply only when it has overflowed.               *)
LEMMA PromptAgrees ==
  ASSUME Inv, Watched, Agreeing, Urgent = {}, NEW u \in Msg, Prompt(u)
  PROVE  Agreeing'
<1>1. Types /\ run.pc = "off" /\ UNCHANGED <<event, run, lastAssistant>>
  BY DEF Inv, Prompt, isStreaming
<1>2. /\ messages \in Seq(SessionMessage) /\ entries \in Seq(SessionMessage)
      /\ pendingBash \in Seq(BashMsg) /\ Sound(entries) /\ overflowTried \in BOOLEAN
      /\ <<>> \in Seq(BashMsg) /\ MaxRetries \in Nat
  BY <1>1, EmptySeq, SessionAssumption DEF Types, BranchOK, CountsOK, SessionAssumption
<1>3. PICK ms, es : ms = messages \o pendingBash /\ es = entries \o pendingBash
  OBVIOUS
<1>4. ms \in Seq(SessionMessage) /\ es \in Seq(SessionMessage) /\ Sound(es)
  BY <1>2, <1>3, Flushed
<1>5. PICK d : d = CHOOSE c \in At("idle") : \A e \in At("idle") : c <= e
  OBVIOUS
<1>6. d \in Caller
  <2>1. At("idle") \subseteq Caller /\ Caller \subseteq Nat /\ At("idle") # {}
    BY AgentAssumption DEF Prompt, At, AgentAssumption
  <2>2. PICK c \in At("idle") : \A e \in At("idle") : c <= e
    <3>1. At("idle") \subseteq Nat
      BY <2>1
    <3> QED
      BY <2>1, <3>1, LeastFailure
  <2>3. d \in At("idle")
    BY <1>5, <2>2, Zenon
  <2> QED
    BY <2>1, <2>3
<1>7. PICK holds : holds = <<User(u)>>
  OBVIOUS
<1>8. holds \in Seq(UserMsg)
  <2>1. PICK m \in UserMsg : m = User(u)
    BY DEF UserMsg
  <2>2. <<m>> \in Seq(UserMsg)
    OBVIOUS
  <2> QED
    BY <1>7, <2>1, <2>2
<1>9. PICK left \in Seq(SessionMessage) : Flushes(left, es, <<>>) /\ Same(left, ms)
  <2>1. CASE Replied(ms) = {}
    <3>1. GoOn(d, holds, ms, es, <<>>)
      BY <1>3, <1>5, <1>7, <2>1 DEF Prompt
    <3>2. Leaves(d, ms, es, <<>>)
      BY <1>6, <1>8, <3>1, GoOnLeaves
    <3> QED
      BY <1>4, <3>2 DEF Leaves, Same
  <2>2. CASE Replied(ms) # {}
    <3>1. PICK k : k = CHOOSE i \in Replied(ms) : \A j \in Replied(ms) : j <= i
      OBVIOUS
    <3>2. CheckCompaction(d, ms[k], holds, ms, es, <<>>)
      BY <1>3, <1>5, <1>7, <2>2, <3>1 DEF Prompt
    <3>3. Replied(ms) \in SUBSET (1..Len(ms)) /\ Len(ms) \in Nat
      BY <1>4 DEF Replied
    <3>4. k \in Replied(ms) /\ \A j \in Replied(ms) : j <= k
      <4>1. Max(Replied(ms)) \in Replied(ms) /\ \A i \in Replied(ms) : Max(Replied(ms)) >= i
        BY <2>2, <3>3, Greatest
      <4>2. PICK i \in Replied(ms) : \A j \in Replied(ms) : j <= i
        BY <3>3, <4>1
      <4> QED
        BY <3>1, <4>2, Zenon
    <3>5. \/ Leaves(d, ms, es, <<>>)
          \/ ms[k].ended \in {"overflow", "length"} /\ Leaves(d, WithoutReply(ms), es, <<>>)
      BY <1>2, <1>4, <1>6, <1>8, <3>2, CheckLeaves
    <3>6. CASE Leaves(d, ms, es, <<>>)
      BY <1>4, <3>6 DEF Leaves, Same
    <3>7. CASE ms[k].ended \in {"overflow", "length"} /\ Leaves(d, WithoutReply(ms), es, <<>>)
      <4>1. EndsWithReply(ms) => Last(ms).ended \in Faulty
        <5> SUFFICES ASSUME EndsWithReply(ms) PROVE Last(ms).ended \in Faulty
          OBVIOUS
        <5>1. ms # <<>> /\ Last(ms).is = "assistant" /\ Last(ms) = ms[Len(ms)]
          BY DEF EndsWithReply, Last
        <5>2. Len(ms) \in 1..Len(ms)
          BY <1>4, <5>1, EmptySeq
        <5>3. Len(ms) \in Replied(ms)
          BY <1>4, <5>1, <5>2 DEF Replied
        <5>4. k = Len(ms)
          BY <3>3, <3>4, <5>3
        <5> QED
          BY <3>7, <5>1, <5>4 DEF Faulty
      <4>2. WithoutReply(ms) \in Seq(SessionMessage) /\ Same(WithoutReply(ms), ms)
        BY <1>4, <4>1, Shortened, SameShortened
      <4> QED
        BY <3>7, <4>2 DEF Leaves
    <3> QED
      BY <3>5, <3>6, <3>7
  <2> QED
    BY <2>1, <2>2
<1>10. ASSUME ~astray'
       PROVE  run.pc = "off" /\ Same(left, Context(es)) /\ lastAssistant' = NoMessage
  <2>1. ~astray /\ event.kind # "end"
    BY <1>1, <1>10, Accords
  <2>2. Same(messages, Context(entries)) /\ lastAssistant = NoMessage
    BY <1>1, <2>1, Accords
  <2>3. Same(ms, Context(es))
    BY <1>2, <1>3, <2>2, FlushedAgrees
  <2> QED
    BY <1>1, <1>9, <2>2, <2>3 DEF Same
<1> QED
  BY <1>1, <1>2, <1>4, <1>9, <1>10, CallerAgrees

(* A message is put behind the transcript and announced.                    *)
LEMMA AnnouncedAgrees ==
  ASSUME Inv, Watched, Agreeing, Inv', event.kind # "end", NEW m, event' = Emit("end", m),
         messages' = Append(messages, m),
         UNCHANGED <<entries, lastAssistant, driver, compaction>>
  PROVE  Agreeing'
<1> SUFFICES ASSUME ~astray' PROVE Agreement' /\ ReplyHeld' /\ FailureHeld'
  BY DEF Agreeing
<1>1. Types /\ ~astray /\ ReplyHeld
  BY Accords
<1>2. Same(messages, Context(entries))
  BY <1>1, Accords
<1>3. event'.kind = "end" /\ event'.message = m
  BY DEF Emit
<1>4. m \in SessionMessage
  BY <1>3 DEF Inv, Types, EventOK
<1>5. messages \in Seq(SessionMessage) /\ entries \in Seq(SessionMessage) /\ Sound(entries)
  BY <1>1 DEF Types, BranchOK
<1>6. Context(entries) \in Seq(SessionMessage)
  <2>1. <<>> \in Seq(SessionMessage) /\ \A i \in 1..Len(<<>>) : <<>>[i].is # "compaction"
    OBVIOUS
  <2> QED
    BY <1>5, <2>1, ContextBoth
<1>7. Same(Append(messages, m), Append(Context(entries), m))
  BY <1>2, <1>4, <1>5, <1>6, SameMore
<1>8. Agreement'
  BY <1>3, <1>7 DEF Agreement
<1>11. run'.pc # "off"
  BY <1>3 DEF Inv, Types, EventOK, NoEvent
<1>9. ReplyHeld'
  BY <1>1, <1>11, StillHeld
<1>10. FailureHeld'
  BY <1>3 DEF FailureHeld
<1> QED
  BY <1>8, <1>9, <1>10

(* A step that neither says nor persists anything.                          *)
LEMMA SilentAgrees ==
  ASSUME Inv, Watched, Agreeing, run.pc # "off" => run'.pc # "off",
         compaction'.pc = "summarizing" => compaction.pc = "summarizing",
         \/ UNCHANGED driver
         \/ \E d, w : d \in Caller /\ driver[d].pc # "post" /\ driver' = [driver EXCEPT ![d] = w],
         event'.kind = "end" => event' = event, event.kind = "end" => event' = event,
         UNCHANGED <<messages, entries, lastAssistant>>
  PROVE  Agreeing'
<1> SUFFICES ASSUME ~astray' PROVE Agreement' /\ ReplyHeld' /\ FailureHeld'
  BY DEF Agreeing
<1>1. Types /\ Agreement /\ ReplyHeld /\ FailureHeld
  BY Accords
<1>2. ReplyHeld'
  BY <1>1, StillHeld
<1>3. Agreement' /\ FailureHeld'
  BY <1>1, UntouchedAgrees
<1> QED
  BY <1>2, <1>3

(* The steps of the loop.                                                   *)
LEMMA LoopAgrees ==
  ASSUME Inv, Watched, Agreeing, Inv', Loop
  PROVE  Agreeing'
<1>1. Types /\ run \in Run /\ UNCHANGED <<entries, lastAssistant, driver, compaction>>
  BY DEF Inv, Types, RunOK, Loop, session
<1>2. NoEvent.kind = "none"
  BY DEF NoEvent
<1>3. CASE StoreMessage
  <2>1. /\ event.kind = "start" /\ event' = Emit("end", event.message)
        /\ messages' = Append(messages, event.message)
    BY <1>3 DEF StoreMessage
  <2> QED
    BY <1>1, <2>1, AnnouncedAgrees
<1>4. CASE Request
  <2>1. run'.pc # "off"
    <3>1. PICK polled, poll : run' = [run EXCEPT !.inbox = polled, !.poll = poll,
                                                 !.pc = IF polled = <<>> THEN "stream" ELSE "turn"]
      BY <1>4 DEF Request
    <3> QED
      BY <1>1, <3>1 DEF Run
  <2> QED
    BY <1>1, <1>4, <2>1, SilentAgrees DEF Request
<1>5. CASE Prepare
  <2>1. run'.pc = run.pc
    BY <1>1, <1>5 DEF Prepare, Run
  <2> QED
    BY <1>1, <1>5, <2>1, SilentAgrees DEF Prepare
<1>6. CASE Answer
  <2>1. PICK m : /\ event' = Emit("end", m) /\ messages' = Append(messages, m)
                 /\ event = NoEvent
    BY <1>6 DEF Answer, Ready
  <2> QED
    BY <1>1, <1>2, <2>1, AnnouncedAgrees
<1>7. CASE \E r \in Replies : Respond(r)
  <2>1. PICK r : Respond(r)
    BY <1>7
  <2>2. event' = Emit("end", r) /\ messages' = Append(messages, r) /\ event.kind # "end"
    BY <1>2, <2>1 DEF Respond, Ready
  <2> QED
    BY <1>1, <2>2, AnnouncedAgrees
<1>8. CASE \E c \in 1..MaxCalls : Execute(c)
  <2>1. PICK c : Execute(c)
    BY <1>8
  <2>2. run'.pc = run.pc
    BY <1>1, <2>1 DEF Execute, Run
  <2> QED
    BY <1>1, <2>1, <2>2, SilentAgrees DEF Execute
<1>9. CASE \E terminate \in BOOLEAN : EndTurn(terminate)
  <2>1. PICK terminate \in BOOLEAN : EndTurn(terminate)
    BY <1>9
  <2>2. run'.pc # "off"
    <3> DEFINE steered == Drained(steering)
               stops == steered = <<>> /\ (run.pc = "answered" \/ terminate)
               followed == IF stops THEN Drained(followUp) ELSE <<>>
               inbox == steered \o followed
               pc == IF stops /\ followed = <<>> THEN "end" ELSE "turn"
    <3>1. run' = [run EXCEPT !.inbox = inbox, !.calls = 0, !.prepared = 0, !.sent = 0, !.cut = FALSE, !.pc = pc]
      BY <2>1 DEF EndTurn
    <3>2. PICK i : i = inbox
      OBVIOUS
    <3>3. PICK c : c = pc /\ c # "off"
      <4>1. pc # "off"
        OBVIOUS
      <4> QED
        BY <4>1
    <3>4. run' = [run EXCEPT !.inbox = i, !.calls = 0, !.prepared = 0, !.sent = 0, !.cut = FALSE, !.pc = c]
      BY <3>1, <3>2, <3>3
    <3> HIDE DEF pc, inbox
    <3> QED
      BY <1>1, <3>3, <3>4 DEF Run
  <2>3. UNCHANGED <<messages, event>>
    BY <2>1 DEF EndTurn
  <2> QED
    BY <1>1, <2>2, <2>3, SilentAgrees
<1> QED
  BY <1>3, <1>4, <1>5, <1>6, <1>7, <1>8, <1>9 DEF Loop

(* A message starts.                                                        *)
LEMMA StartedAgrees ==
  ASSUME Inv, Watched, Agreeing, Started
  PROVE  Agreeing'
<1>1. run \in Run /\ NoEvent.kind = "none"
  BY DEF Inv, Types, RunOK, NoEvent
<1>2. /\ event = NoEvent /\ run' = [run EXCEPT !.inbox = Tail(@)]
      /\ event' = Emit("start", Head(run.inbox))
      /\ UNCHANGED <<messages, entries, driver, compaction, lastAssistant>>
  BY DEF Started, StartMessage, Ready
<1>3. run'.pc = run.pc
  BY <1>1, <1>2 DEF Run
<1>4. event.kind # "end" /\ event'.kind # "end"
  BY <1>1, <1>2 DEF Emit
<1> QED
  BY <1>2, <1>3, <1>4, SilentAgrees

(* What was announced is persisted; a reply is the one to be looked at.     *)
LEMMA PersistAgrees ==
  ASSUME Inv, Watched, Agreeing, Persist
  PROVE  Agreeing'
<1> SUFFICES ASSUME ~astray' PROVE Agreement' /\ ReplyHeld' /\ FailureHeld'
  BY DEF Agreeing
<1>1. Types /\ Orderly /\ Agreement /\ NoEvent.kind = "none"
  BY Accords
<1>2. PICK m : m = event.message
  OBVIOUS
<1>3. event.kind = "end" /\ event' = NoEvent /\ UNCHANGED <<messages, run, driver, compaction>>
  BY DEF Persist
<1>4. event # NoEvent
  BY <1>1, <1>3
<1>5. /\ event.heard /\ compaction.pc # "summarizing" /\ m = Last(messages) /\ run.pc # "off"
      /\ m \in SessionMessage /\ m.is # "compaction"
  BY <1>1, <1>2, <1>3, <1>4 DEF Orderly, EventCounted, Types, EventOK
<1>6. entries' = Append(entries, m) /\ lastAssistant' = IF m.is = "assistant" THEN m ELSE lastAssistant
  BY <1>2, <1>5 DEF Persist
<1>7. entries \in Seq(SessionMessage) /\ Sound(entries)
  BY <1>1 DEF Types, BranchOK
<1>8. Same(messages, Append(Context(entries), m))
  BY <1>1, <1>2, <1>3 DEF Agreement
<1>9. Context(Append(entries, m)) = Append(Context(entries), m)
  BY <1>5, <1>7, ContextMore
<1>10. Agreement'
  BY <1>1, <1>3, <1>6, <1>8, <1>9 DEF Agreement
<1>11. ReplyHeld'
  BY <1>3, <1>5 DEF ReplyHeld
<1>12. FailureHeld'
  <2>1. EndsWithReply(messages) => lastAssistant' = m
    BY <1>5, <1>6 DEF EndsWithReply
  <2> QED
    BY <1>3, <1>5, <2>1 DEF FailureHeld, FailureLast
<1> QED
  BY <1>10, <1>11, <1>12

(* A run ends, and its caller is to look at its reply.                      *)
LEMMA FinishAgrees ==
  ASSUME Inv, Watched, Agreeing, Finish
  PROVE  Agreeing'
<1> SUFFICES ASSUME ~astray' PROVE Agreement' /\ ReplyHeld' /\ FailureHeld'
  BY DEF Agreeing
<1>1. Types /\ Agreement /\ FailureHeld
  BY Accords
<1>2. run.pc = "end" /\ UNCHANGED <<messages, event, entries, lastAssistant>> /\ Goto(run.by, "post", <<>>)
  BY DEF Finish, FinishRun, Ready
<1>3. run.by \in Caller /\ driver \in [Caller -> Driver]
  BY <1>1, <1>2 DEF Types, RunOK, Run, DriverOK
<1>4. driver'[run.by] = [Idle EXCEPT !.pc = "post", !.holds = <<>>]
  BY <1>2, <1>3 DEF Goto
<1>5. [Idle EXCEPT !.pc = "post", !.holds = <<>>].pc = "post"
  BY DEF Idle
<1>6. At("post")' # {}
  BY <1>3, <1>4, <1>5 DEF At
<1>7. Agreement' /\ FailureHeld'
  BY <1>1, <1>2, UntouchedAgrees
<1> QED
  BY <1>6, <1>7 DEF ReplyHeld

(* A message is queued; the queues are cleared.                             *)
LEMMA QueueAgrees ==
  ASSUME Inv, Watched, Agreeing, NEW u \in Msg, NEW how \in {"steer", "followUp"}, Queue(u, how)
  PROVE  Agreeing'
<1>1. UNCHANGED <<messages, entries, lastAssistant, run, event, compaction, driver>>
  BY DEF Queue
<1> QED
  BY <1>1, SilentAgrees

(* clearQueue() says nothing.                                               *)
LEMMA ClearQueueAgrees ==
  ASSUME Inv, Watched, Agreeing, ClearQueue
  PROVE  Agreeing'
<1>1. UNCHANGED <<messages, entries, lastAssistant, run, event, compaction, driver>>
  BY DEF ClearQueue
<1> QED
  BY <1>1, SilentAgrees

(* An abort moves only who sleeps before a retry.                           *)
LEMMA InterruptMoves ==
  ASSUME Types, Interrupt
  PROVE  /\ run'.pc = run.pc
         /\ \/ UNCHANGED driver
            \/ \E d, w : d \in Caller /\ driver[d].pc # "post" /\ driver' = [driver EXCEPT ![d] = w]
<1>1. run'.pc = run.pc
  BY DEF Interrupt, AbortRun, Types, RunOK, Run
<1>2. CASE sleeper \in Caller
  BY <1>1, <1>2 DEF Interrupt, Goto, Types, DriverOK
<1>3. CASE sleeper \notin Caller
  BY <1>1, <1>3 DEF Interrupt
<1> QED
  BY <1>2, <1>3

(* abort() says nothing.                                                    *)
LEMMA AbortAgrees ==
  ASSUME Inv, Watched, Agreeing, Abort
  PROVE  Agreeing'
<1>1. UNCHANGED <<messages, entries, lastAssistant, event, compaction>> /\ Interrupt /\ Types
  BY DEF Abort, Inv
<1> QED
  BY <1>1, InterruptMoves, SilentAgrees

(* compact() begins when no reply is to be looked at, or waits for the run. *)
LEMMA BeginCompactAgrees ==
  ASSUME Inv, Watched, Agreeing, Urgent = {}, BeginCompact
  PROVE  Agreeing'
<1>1. UNCHANGED <<messages, entries, lastAssistant, event>> /\ Interrupt /\ Types
  BY DEF BeginCompact, Inv
<1>2. CASE isStreaming
  <2>1. compaction'.pc # "summarizing"
    BY <1>2 DEF BeginCompact
  <2> QED
    BY <1>1, <2>1, InterruptMoves, SilentAgrees
<1>3. CASE ~isStreaming
  <2> SUFFICES ASSUME ~astray' PROVE Agreement' /\ ReplyHeld' /\ FailureHeld'
    BY DEF Agreeing
  <2>1. ~astray /\ Agreement /\ FailureHeld
    BY Accords
  <2>2. lastAssistant = NoMessage
    BY <1>3, <2>1, Accords DEF isStreaming
  <2>3. Agreement'
    BY <1>1, <2>1, UntouchedAgrees
  <2> QED
    BY <1>1, <2>2, <2>3, NothingHeld
<1> QED
  BY <1>2, <1>3

(* A command's result is put behind both, or deferred.                      *)
LEMMA BashReturnsAgrees ==
  ASSUME Inv, Watched, Agreeing, Urgent = {}, NEW b \in Bash, BashReturns(b)
  PROVE  Agreeing'
<1>1. UNCHANGED <<run, event, driver, compaction, lastAssistant>> /\ Types
  BY DEF BashReturns, Inv
<1>2. CASE Deferred
  <2>1. UNCHANGED <<messages, entries>>
    BY <1>2 DEF BashReturns, State
  <2> QED
    BY <1>1, <2>1, SilentAgrees
<1>3. CASE ~Deferred
  <2> SUFFICES ASSUME ~astray' PROVE Agreement' /\ ReplyHeld' /\ FailureHeld'
    BY DEF Agreeing
  <2>1. PICK m : m = BashResult(b)
    OBVIOUS
  <2>2. m \in SessionMessage /\ m.is # "compaction"
    BY <2>1 DEF BashResult, Message, SessionMessage
  <2>3. messages' = Append(messages, m) /\ entries' = Append(entries, m)
    BY <1>3, <2>1 DEF BashReturns, State
  <2>4. messages \in Seq(SessionMessage) /\ entries \in Seq(SessionMessage) /\ Sound(entries)
    BY <1>1 DEF Types, BranchOK
  <2>5. run.pc = "off" /\ ~astray /\ event' = NoEvent /\ event'.kind = "none" /\ event.kind # "end"
    BY <1>1, <1>3, Accords DEF Deferred, isStreaming
  <2>6. lastAssistant = NoMessage
    BY <2>5, Accords
  <2>7. Same(messages, Context(entries))
    BY <2>5, Accords
  <2>8. Context(entries) \in Seq(SessionMessage)
    <3>1. <<>> \in Seq(SessionMessage) /\ \A i \in 1..Len(<<>>) : <<>>[i].is # "compaction"
      OBVIOUS
    <3> QED
      BY <2>4, <3>1, ContextBoth
  <2>9. Same(Append(messages, m), Append(Context(entries), m))
    BY <2>2, <2>4, <2>7, <2>8, SameMore
  <2>10. Context(Append(entries, m)) = Append(Context(entries), m)
    BY <2>2, <2>4, ContextMore
  <2>11. Agreement'
    BY <2>3, <2>5, <2>9, <2>10 DEF Agreement
  <2> QED
    BY <1>1, <2>6, <2>11, NothingHeld
<1> QED
  BY <1>2, <1>3

(* The summary of compact() replaces transcript and context.                *)
LEMMA EndCompactAgrees ==
  ASSUME Inv, Watched, Agreeing, Urgent = {}, NEW ok \in BOOLEAN, EndCompact(ok)
  PROVE  Agreeing'
<1> SUFFICES ASSUME ~astray' PROVE Agreement' /\ ReplyHeld' /\ FailureHeld'
  BY DEF Agreeing
<1>1. UNCHANGED <<event, lastAssistant>> /\ compaction.pc = "summarizing"
  BY DEF EndCompact
<1>2. Orderly /\ ReplyHeld /\ Agreement /\ NoEvent.kind = "none"
  BY Accords
<1>3. lastAssistant = NoMessage
  BY <1>1, <1>2 DEF ReplyHeld, Urgent
<1>4. event = NoEvent
  BY <1>1, <1>2 DEF Orderly, EventCounted
<1>5. Agreement'
  <2>1. CASE ok
    <3>1. messages' = Context(entries')
      BY <2>1 DEF EndCompact, State
    <3> QED
      BY <1>1, <1>2, <1>4, <3>1 DEF Agreement, Same
  <2>2. CASE ~ok
    <3>1. UNCHANGED <<messages, entries>>
      BY <2>2 DEF EndCompact, State
    <3> QED
      BY <1>1, <1>2, <3>1 DEF Agreement
  <2> QED
    BY <2>1, <2>2
<1> QED
  BY <1>1, <1>3, <1>5, NothingHeld

(* A session begins with nothing on either side.                            *)
LEMMA InitAgrees == Init => Agreeing
<1> SUFFICES ASSUME Init PROVE Agreeing
  OBVIOUS
<1>1. messages = <<>> /\ entries = <<>> /\ event = NoEvent /\ lastAssistant = NoMessage
  BY DEF Init, AgentInit
<1>2. NoEvent.kind = "none" /\ NoMessage.ended \notin Faulty
  BY DEF NoEvent, NoMessage, Message, Faulty
<1>3. Context(entries) = <<>>
  <2>1. Compactions(entries) = {}
    BY <1>1 DEF Compactions
  <2> QED
    BY <1>1, <2>1 DEF Context
<1> QED
  BY <1>1, <1>2, <1>3 DEF Agreeing, Agreement, Same, ReplyHeld, FailureHeld

(* No step drops a message from one side that stays on the other.           *)
LEMMA StepAgrees == Inv /\ Inv' /\ Agreeing /\ [Next]_vars => Agreeing'
<1> SUFFICES ASSUME Inv, Inv', Agreeing, [Next]_vars PROVE Agreeing'
  OBVIOUS
<1>1. CASE UNCHANGED vars
  <2>1. UNCHANGED <<messages, entries, event, lastAssistant, run, driver, compaction, astray>>
    BY <1>1 DEF vars, agentVars, session
  <2> QED
    BY <2>1 DEF Agreeing, Agreement, ReplyHeld, FailureHeld, At
<1>2. CASE SessionStep
  <2>1. Watched
    BY <1>2 DEF SessionStep, Watched
  <2>2. CASE \E d \in Caller : PromptStep(d)
    BY <2>1, <2>2, PostAgrees, RetryCancelledAgrees, AgainAgrees, StartAgrees DEF PromptStep
  <2>3. CASE Loop \/ Started \/ Persist \/ Finish
    BY <2>1, <2>3, LoopAgrees, StartedAgrees, PersistAgrees, FinishAgrees
  <2>4. CASE Urgent = {} /\ \E d \in Caller : Retry(d) \/ \E ok \in BOOLEAN : Compacted(d, ok)
    BY <2>1, <2>4, RetryAgrees, CompactedAgrees
  <2>5. CASE Urgent = {} /\ \E ok \in BOOLEAN : EndCompact(ok)
    BY <2>1, <2>5, EndCompactAgrees
  <2> QED
    BY <1>2, <2>2, <2>3, <2>4, <2>5 DEF SessionStep
<1>3. CASE ClientStep
  <2>1. Watched /\ Urgent = {}
    BY <1>3 DEF ClientStep, Watched
  <2>2. CASE \E u \in Msg : Prompt(u) \/ Queue(u, "steer") \/ Queue(u, "followUp")
    BY <2>1, <2>2, PromptAgrees, QueueAgrees
  <2>3. CASE Abort \/ ClearQueue \/ BeginCompact
    BY <2>1, <2>3, AbortAgrees, ClearQueueAgrees, BeginCompactAgrees
  <2>4. CASE \E b \in Bash : BashReturns(b)
    BY <2>1, <2>4, BashReturnsAgrees
  <2> QED
    BY <1>3, <2>2, <2>3, <2>4 DEF ClientStep
<1> QED
  BY <1>1, <1>2, <1>3 DEF Next

(* When the session is at rest, the agent's transcript is what reopening    *)
(* the session would give, but for the failed replies that were dropped     *)
(* before a request was sent again: what _handleAgentEvent() persists late, *)
(* what recordBashResult() defers and what a compaction rebuilds all end up *)
(* on both sides, in the same order.                                        *)
THEOREM TranscriptAgrees == Spec => []AgreesWithSession
<1>1. Agreeing => AgreesWithSession
  <2>1. NoEvent.kind = "none"
    BY DEF NoEvent
  <2> QED
    BY <2>1 DEF Agreeing, Agreement, Same, AgreesWithSession, AtRest
<1> QED
  BY <1>1, Invariant, InitAgrees, StepAgrees, PTL DEF Spec

=============================================================================
