--------------------------- MODULE DecodeLoopProofs ---------------------------
(***************************************************************************)
(* The safety of speculation for every target, drafter and trie, every     *)
(* length of turns and drafts, and every window.                           *)
(***************************************************************************)
EXTENDS DecodeLoop, SequenceTheorems, WellFoundedInduction, TLAPS

Text == Seq(Token) \ {<<>>}
Live == attached /\ ready

(* Rounds are run only where the target's choice is what sampling gives.    *)
Deterministic == Greedy \/ Steering

(* How many of the generated tokens have not been decoded, and what the     *)
(* target has decoded when nothing was lost.                                *)
Undecoded == IF pc = "plain" /\ generated # <<>> THEN 1
             ELSE IF pc = "sync" THEN pending.tail ELSE 0
Counted(text, out, n) == text \o SubSeq(out, 1, Len(out) - n)
Committed == Counted(transcript, generated, Undecoded)

(* Every variable has its type, and no context is empty.                    *)
Typed ==
  /\ TypeOK
  /\ target.kv \in Text /\ target.lg \in Text /\ transcript \in Text
  /\ Live => draft.kv \in Text

(* What is in use at which point of a turn.                                 *)
Phases ==
  /\ pc = "idle" => generated = <<>>
  /\ pc # "sync" => pending = NoPending
  /\ pending.tail <= Len(generated)
  /\ pc = "sync" /\ pending.next = "turn" => generated = <<>> /\ pending.tail = 0
  /\ pc = "sync" /\ pending.next = "round" => pending.tail = 0
  /\ pc = "sync" /\ pending.next # "turn" => Deterministic
  /\ pc \in {"round", "draft", "verify"} => Deterministic
  /\ pc \in {"idle", "sync", "round", "plain"} => proposal = <<>>
  /\ pc = "plain" => ~(Live /\ Deterministic)
  /\ ready => attached
  /\ pc = "draft" /\ attached => ready

(* The target's cells are those that count, and its logits are theirs where *)
(* a choice is made by them.                                                *)
InStep ==
  ~lost /\ pc # "over" =>
    /\ target.kv = Committed /\ target.n = Len(target.kv)
    /\ \/ pc \in {"round", "draft", "verify"}
       \/ pc = "sync" /\ pending.next # "idle"
       \/ pc = "plain" /\ generated = <<>>
       => target.lg = target.kv

(* What may follow ctx when out was generated before.                       *)
Allowed(ctx, out) == IF Steering THEN {Best(ctx, Poison(out))} ELSE Pick(ctx, out)
Own ==
  ~lost => \A i \in 1..Len(generated) :
    LET before == SubSeq(generated, 1, i - 1) IN
    generated[i] \in Allowed(transcript \o before, before)

(* Nothing that ends a turn was decoded.                                    *)
CleanAt(out, i) ==
  /\ out[i] \notin Stop
  /\ out[i] \notin Poison(SubSeq(out, 1, i - 1))
  /\ ~(Steering /\ EditEnds(SubSeq(out, 1, i)))
Clean ==
  \A i \in 1..(Len(generated) - (IF pc = "sync" THEN pending.tail ELSE 0)) : CleanAt(generated, i)

(* Where the turn is short enough to go on.                                 *)
Short ==
  /\ Len(generated) <= MaxTokens + Most(MaxSpec, 2)
  /\ pc = "plain" => Len(generated) <= MaxTokens
  /\ pc \in {"draft", "verify"} => Len(generated) < MaxTokens
  /\ Len(proposal) <= MaxTokens - Len(generated) + 1 \/ proposal = <<>>

(* The live drafter has seen what counts, but for what is to be appended to *)
(* its context, and what it has drafted itself.                             *)
Drafted == Committed \o proposal
SameTokens == \A s \in Text : Retokenize(s) = s
Shadow ==
  SameTokens /\ ~lost /\ Deterministic /\ Live /\ pc # "over" =>
    /\ draft.n = Len(draft.kv)
    /\ draft.kv \o pending.toks = Drafted
    /\ pc # "draft" => draftNPast = Len(draft.kv)
    /\ pc = "draft" => draftNPast = Len(Committed)
    /\ \/ pc \in {"round", "draft"}
       \/ pc = "sync" /\ pending.next # "idle" /\ pending.toks = <<>>
       => draft.lg = draft.kv

TurnInv == Typed /\ Phases /\ InStep /\ Own /\ Clean /\ Short
Inv == TurnInv /\ Shadow

(* What is assumed of the target, the drafter and the sampler.              *)
Setting == Sampler(Text, Seq(Token))

----------------------------------------------------------------------------
(* Sequences *)

(* What a sequence that is put behind another is, place by place.           *)
LEMMA Joined ==
  ASSUME NEW S, NEW s \in Seq(S), NEW t \in Seq(S)
  PROVE  /\ s \o t \in Seq(S) /\ Len(s \o t) = Len(s) + Len(t)
         /\ \A i \in 1..Len(s) : (s \o t)[i] = s[i]
         /\ \A i \in 1..Len(t) : (s \o t)[Len(s) + i] = t[i]
         /\ s # <<>> => s \o t # <<>>
         /\ s \o <<>> = s
OBVIOUS

(* What the first n elements of a sequence are.                             *)
LEMMA Initial ==
  ASSUME NEW S, NEW s \in Seq(S), NEW n \in 0..Len(s)
  PROVE  /\ SubSeq(s, 1, n) \in Seq(S) /\ Len(SubSeq(s, 1, n)) = n
         /\ \A i \in 1..n : SubSeq(s, 1, n)[i] = s[i]
         /\ Upto(s, n) = SubSeq(s, 1, n)
         /\ n = 0 => SubSeq(s, 1, n) = <<>>
         /\ n > 0 => SubSeq(s, 1, n) # <<>>
         /\ n = Len(s) => SubSeq(s, 1, n) = s
         /\ \A m \in 0..n : SubSeq(SubSeq(s, 1, n), 1, m) = SubSeq(s, 1, m)
BY DEF Upto

(* The first elements of two sequences put together.                        *)
LEMMA InitialOfJoined ==
  ASSUME NEW S, NEW s \in Seq(S), NEW t \in Seq(S)
  PROVE  /\ \A n \in 0..Len(s) : SubSeq(s \o t, 1, n) = SubSeq(s, 1, n)
         /\ \A n \in 0..Len(t) : SubSeq(s \o t, 1, Len(s) + n) = s \o SubSeq(t, 1, n)
         /\ SubSeq(s \o t, Len(s) + 1, Len(s \o t)) = t
OBVIOUS

(* Putting sequences behind one another may be grouped either way.         *)
LEMMA JoinedTwice ==
  ASSUME NEW S, NEW s \in Seq(S), NEW t \in Seq(S), NEW u \in Seq(S)
  PROVE  (s \o t) \o u = s \o (t \o u)
OBVIOUS

(* A sequence with one more element.                                        *)
LEMMA OneMore ==
  ASSUME NEW S, NEW s \in Seq(S), NEW e \in S
  PROVE  /\ Append(s, e) \in Seq(S) /\ Len(Append(s, e)) = Len(s) + 1
         /\ Append(s, e) = s \o <<e>> /\ <<e>> \in Seq(S) /\ Len(<<e>>) = 1
         /\ \A i \in 1..Len(s) : Append(s, e)[i] = s[i]
         /\ Append(s, e)[Len(s) + 1] = e
         /\ Last(Append(s, e)) = e
         /\ \A n \in 0..Len(s) : SubSeq(Append(s, e), 1, n) = SubSeq(s, 1, n)
         /\ Append(s, e) # <<>>
BY DEF Last

(* A piece of a sequence, behind what is before it.                         *)
LEMMA Piece ==
  ASSUME NEW S, NEW s \in Seq(S), NEW m \in 0..Len(s), NEW n \in m..Len(s)
  PROVE  /\ SubSeq(s, m + 1, n) \in Seq(S) /\ Len(SubSeq(s, m + 1, n)) = n - m
         /\ SubSeq(s, 1, m) \o SubSeq(s, m + 1, n) = SubSeq(s, 1, n)
OBVIOUS

(* Two sequences that agree up to a place have the same beginning.          *)
LEMMA SameBeginning ==
  ASSUME NEW S, NEW s \in Seq(S), NEW t \in Seq(S), NEW n \in 0..Len(s), n <= Len(t),
         \A i \in 1..n : s[i] = t[i]
  PROVE  SubSeq(s, 1, n) = SubSeq(t, 1, n)
OBVIOUS

(* A sequence over a set is one over every larger set.                     *)
LEMMA InLarger ==
  ASSUME NEW S, NEW T, S \subseteq T, NEW s \in Seq(S)
  PROVE  s \in Seq(T)
OBVIOUS

----------------------------------------------------------------------------
(* Contexts *)

(* Texts, prompts and inputs are sequences of tokens, of which cells may   *)
(* be made.                                                                *)
LEMMA TextIsText ==
  /\ Text \subseteq Seq(Token) /\ Text \subseteq Seq(Token \cup {Hole})
  /\ Seq(Token \ Stop) \subseteq Seq(Token)
  /\ Seq(Token) \subseteq Seq(Token \cup {Hole})
  /\ Prompt \subseteq Text /\ Input \subseteq Text
BY TextAssumption DEF Text

(* A text stays one when something is put behind it.                        *)
LEMMA TextGrows ==
  ASSUME NEW s \in Text, NEW t \in Seq(Token)
  PROVE  /\ s \o t \in Text /\ Len(s \o t) = Len(s) + Len(t)
         /\ Len(s) \in Nat \ {0} /\ Len(t) \in Nat
         /\ s \o <<>> = s
BY DEF Text

(* The same grouping, of what is put behind a text.                        *)
LEMMA TextRegroups ==
  ASSUME NEW s \in Text, NEW t \in Seq(Token), NEW u \in Seq(Token)
  PROVE  (s \o t) \o u = s \o (t \o u)
BY JoinedTwice DEF Text

(* The beginning of a joined sequence that is longer than its first part.  *)
LEMMA InitialBeyond ==
  ASSUME NEW s \in Seq(Token), NEW t \in Seq(Token)
  PROVE  \A n \in 0..Len(t) : SubSeq(s \o t, 1, Len(s) + n) = s \o SubSeq(t, 1, n)
OBVIOUS

(* A decode behind a text.                                                  *)
LEMMA AppendedText ==
  ASSUME NEW c \in Context, c.kv \in Text, NEW toks \in Seq(Token)
  PROVE  /\ Appended(c, toks) \in Context
         /\ Appended(c, toks).kv = c.kv \o toks
         /\ Appended(c, toks).lg = c.kv \o toks
         /\ Appended(c, toks).n = c.n + Len(toks)
         /\ c.kv \o toks \in Text
<1>1. c.kv \o toks \in Text /\ Len(toks) \in Nat /\ c.n \in Nat /\ c.kv # <<>>
  BY TextGrows DEF Context, Text
<1>2. Appended(c, toks) = [kv |-> c.kv \o toks, n |-> c.n + Len(toks), lg |-> c.kv \o toks]
  BY <1>1 DEF Appended, Cells
<1> QED
  BY <1>1, <1>2, TextIsText DEF Context

(* What is left of it after a rollback to some of its cells.                *)
LEMMA RewoundText ==
  ASSUME NEW c \in Context, c.kv \in Text, NEW pos \in Nat \ {0}
  PROVE  /\ Rewind(c, pos) \in Context /\ Rewind(c, pos).kv \in Text
         /\ Rewind(c, pos).n = pos /\ Rewind(c, pos).lg = c.lg
         /\ pos <= Len(c.kv) => /\ Rewind(c, pos).kv = SubSeq(c.kv, 1, pos)
                                /\ Len(Rewind(c, pos).kv) = pos
<1>1. c.kv \in Seq(Token) /\ Len(c.kv) \in Nat \ {0}
  BY DEF Text
<1>2. PICK n \in Nat \ {0} : /\ n <= Len(c.kv) /\ Upto(c.kv, pos) = SubSeq(c.kv, 1, n)
                             /\ (pos <= Len(c.kv) => n = pos)
  BY <1>1 DEF Upto
<1>3. SubSeq(c.kv, 1, n) \in Text /\ Len(SubSeq(c.kv, 1, n)) = n
  <2>1. n \in 0..Len(c.kv) /\ n > 0
    BY <1>1, <1>2
  <2> QED
    BY <1>1, <2>1, Initial DEF Text
<1>4. Rewind(c, pos) = [kv |-> SubSeq(c.kv, 1, n), n |-> pos, lg |-> c.lg]
  <2>1. Rewind(c, pos) = [c EXCEPT !.kv = SubSeq(c.kv, 1, n), !.n = pos]
    BY <1>2 DEF Rewind
  <2> QED
    BY <2>1 DEF Context
<1>5. /\ SubSeq(c.kv, 1, n) \in Seq(Token \cup {Hole}) /\ pos \in Nat
      /\ c.lg \in Seq(Token \cup {Hole})
  BY <1>3, TextIsText DEF Context
<1> QED
  BY <1>2, <1>3, <1>4, <1>5 DEF Context

(* A context that has just read a text.                                     *)
LEMMA ForwardText ==
  ASSUME NEW s \in Text
  PROVE  /\ Forward(s) \in Context /\ Forward(s).kv = s /\ Forward(s).lg = s
         /\ Forward(s).n = Len(s) /\ Len(s) \in Nat
BY TextIsText DEF Forward, Context, Text

(* What counts, when all that was generated has been decoded.               *)
LEMMA Counting ==
  ASSUME NEW t \in Text, NEW g \in Seq(Token)
  PROVE  /\ Counted(t, g, 0) = t \o g
         /\ Len(t \o g) = Len(t) + Len(g) /\ t \o g \in Text
         /\ g = <<>> => t \o g = t
         /\ Len(g) \in Nat /\ Len(t) \in Nat
<1>1. Len(g) \in Nat /\ Len(t) \in Nat
  BY DEF Text
<1>2. SubSeq(g, 1, Len(g) - 0) = g
  BY <1>1
<1> QED
  BY <1>1, <1>2, TextGrows DEF Counted

(* Where all that was generated has been decoded, what counts is the       *)
(* transcript with it.                                                     *)
LEMMA AllCommitted ==
  ASSUME Typed, Undecoded = 0
  PROVE  /\ Committed = transcript \o generated
         /\ Len(Committed) = NPast + Len(generated)
         /\ generated = <<>> => Committed = transcript
<1>1. transcript \in Text /\ generated \in Seq(Token)
  BY DEF Typed, TypeOK
<1> QED
  BY <1>1, Counting DEF Committed, NPast

----------------------------------------------------------------------------
(* What the output is when it grows *)

(* More tokens, each of them what may follow the ones before it.            *)
LEMMA OwnGrows ==
  ASSUME Own, transcript \in Seq(Token), generated \in Seq(Token),
         NEW more \in Seq(Token),
         generated' = generated \o more, transcript' = transcript, lost' = lost,
         ~lost => \A j \in 1..Len(more) :
                    LET before == generated \o SubSeq(more, 1, j - 1) IN
                    more[j] \in Allowed(transcript \o before, before)
  PROVE  Own'
<1> SUFFICES ASSUME ~lost, NEW i \in 1..Len(generated')
             PROVE  LET before == SubSeq(generated', 1, i - 1) IN
                    generated'[i] \in Allowed(transcript \o before, before)
  BY DEF Own, Allowed
<1>1. Len(generated') = Len(generated) + Len(more) /\ Len(more) \in Nat /\ Len(generated) \in Nat
  BY Joined
<1>2. CASE i <= Len(generated)
  <2>1. i \in 1..Len(generated) /\ i - 1 \in 0..Len(generated)
    BY <1>1, <1>2
  <2>2. generated'[i] = generated[i] /\ SubSeq(generated', 1, i - 1) = SubSeq(generated, 1, i - 1)
    BY <2>1, Joined, InitialOfJoined
  <2> QED
    BY <2>1, <2>2 DEF Own
<1>3. CASE i > Len(generated)
  <2> DEFINE j == i - Len(generated)
  <2>1. j \in 1..Len(more) /\ i = Len(generated) + j /\ i - 1 = Len(generated) + (j - 1) /\ j - 1 \in 0..Len(more)
    BY <1>1, <1>3
  <2> HIDE DEF j
  <2>2. generated'[i] = more[j] /\ SubSeq(generated', 1, i - 1) = generated \o SubSeq(more, 1, j - 1)
    <3>1. (generated \o more)[Len(generated) + j] = more[j]
      BY <2>1, Joined
    <3>2. SubSeq(generated \o more, 1, Len(generated) + (j - 1)) = generated \o SubSeq(more, 1, j - 1)
      BY <2>1
    <3> QED
      BY <1>1, <2>1, <3>1, <3>2
  <2> QED
    BY <2>1, <2>2
<1> QED
  BY <1>1, <1>2, <1>3

(* The same of what does not end the turn.                                  *)
LEMMA CleanGrows ==
  ASSUME NEW out \in Seq(Token), NEW more \in Seq(Token), NEW n \in 0..Len(more),
         \A i \in 1..Len(out) : CleanAt(out, i),
         \A j \in 1..n : /\ more[j] \notin Stop
                         /\ more[j] \notin Poison(out \o SubSeq(more, 1, j - 1))
                         /\ ~(Steering /\ EditEnds(out \o SubSeq(more, 1, j)))
  PROVE  \A i \in 1..(Len(out) + n) : CleanAt(out \o more, i)
<1> SUFFICES ASSUME NEW i \in 1..(Len(out) + n)
             PROVE  CleanAt(out \o more, i)
  OBVIOUS
<1>1. Len(more) \in Nat /\ Len(out) \in Nat
  OBVIOUS
<1>2. CASE i <= Len(out)
  <2>1. i \in 1..Len(out) /\ i \in 0..Len(out) /\ i - 1 \in 0..Len(out)
    BY <1>1, <1>2
  <2>2. /\ (out \o more)[i] = out[i]
        /\ SubSeq(out \o more, 1, i - 1) = SubSeq(out, 1, i - 1)
        /\ SubSeq(out \o more, 1, i) = SubSeq(out, 1, i)
    BY <2>1, Joined, InitialOfJoined
  <2> QED
    BY <2>1, <2>2 DEF CleanAt
<1>3. CASE i > Len(out)
  <2> DEFINE j == i - Len(out)
  <2>1. /\ j \in 1..n /\ j \in 1..Len(more) /\ j \in 0..Len(more) /\ j - 1 \in 0..Len(more)
        /\ i = Len(out) + j /\ i - 1 = Len(out) + (j - 1)
    BY <1>1, <1>3
  <2> HIDE DEF j
  <2>2. /\ (out \o more)[i] = more[j]
        /\ SubSeq(out \o more, 1, i - 1) = out \o SubSeq(more, 1, j - 1)
        /\ SubSeq(out \o more, 1, i) = out \o SubSeq(more, 1, j)
    <3>1. (out \o more)[Len(out) + j] = more[j]
      BY <2>1, Joined
    <3>2. \A k \in 0..Len(more) : SubSeq(out \o more, 1, Len(out) + k) = out \o SubSeq(more, 1, k)
      OBVIOUS
    <3>3. /\ SubSeq(out \o more, 1, Len(out) + (j - 1)) = out \o SubSeq(more, 1, j - 1)
          /\ SubSeq(out \o more, 1, Len(out) + j) = out \o SubSeq(more, 1, j)
      BY <1>1, <2>1, <3>2
    <3> QED
      BY <1>1, <2>1, <3>1, <3>3
  <2> QED
    BY <2>1, <2>2 DEF CleanAt
<1> QED
  BY <1>1, <1>2, <1>3

(* Between turns there is little left to say.                               *)
LEMMA TurnOver ==
  ASSUME Typed', pc' = "idle", generated' = <<>>, proposal' = <<>>, pending' = NoPending,
         ready' => attached',
         lost' \/ (target'.kv = transcript' /\ target'.n = Len(transcript'))
  PROVE  TurnInv'
<1> USE DraftAssumption
<1>1. Phases'
  BY DEF Phases, Typed, TypeOK, NoPending
<1>2. Committed' = transcript' /\ Undecoded' = 0
  BY Counting DEF Committed, Undecoded, Typed, TypeOK, Text
<1>3. InStep'
  BY <1>2 DEF InStep
<1>4. Own' /\ Clean' /\ Short'
  BY DEF Own, Clean, Short, Most
<1> QED
  BY <1>1, <1>3, <1>4 DEF TurnInv

(* What the end of a turn makes of transcript and output.                  *)
LEMMA EndedTurn ==
  ASSUME Typed, NEW out \in Seq(Token), NEW tail \in 0..Len(out), EndTurn(out, tail)
  PROVE  /\ pc' = "idle" /\ generated' = <<>> /\ transcript' \in Text
         /\ transcript' = transcript \o SubSeq(out, 1, Len(out) - tail)
         /\ SubSeq(out, 1, Len(out) - tail) \in Seq(Token)
         /\ tail = 0 => transcript' = transcript \o out
<1>1. Len(out) \in Nat /\ Len(out) - tail \in 0..Len(out)
  OBVIOUS
<1>2. SubSeq(out, 1, Len(out) - tail) \in Seq(Token)
      /\ (tail = 0 => SubSeq(out, 1, Len(out) - tail) = out)
  BY <1>1, Initial
<1> QED
  BY <1>2, TextGrows DEF EndTurn, Typed

----------------------------------------------------------------------------
(* The host, and the errors that end the loop *)

(* The input of a turn is appended to cells and transcript alike.          *)
LEMMA BeginTurnKeeps ==
  ASSUME Setting, Inv, NEW toks \in Input, BeginTurn(toks), lost' = lost
  PROVE  Inv'
<1> USE TokenAssumption, DraftAssumption
<1>1. toks \in Text /\ toks \in Seq(Token) /\ Len(toks) \in Nat
  BY TextIsText DEF Text
<1>2. /\ target \in Context /\ target.kv \in Text /\ transcript \in Text /\ generated = <<>>
      /\ generated \in Seq(Token) /\ pending = NoPending /\ proposal = <<>>
      /\ (Live => draft.kv \in Text)
  BY DEF Inv, TurnInv, Typed, TypeOK, Phases, BeginTurn
<1>3. /\ target'.kv = target.kv \o toks /\ target'.lg = target.kv \o toks
      /\ target'.n = target.n + Len(toks) /\ target' \in Context /\ target'.kv \in Text
  BY <1>1, <1>2, AppendedText DEF BeginTurn
<1>4. transcript' = transcript \o toks /\ transcript' \in Text
  BY <1>1, <1>2, TextGrows DEF BeginTurn
<1>5. /\ pending' = [toks |-> toks, next |-> "turn", tail |-> 0] /\ pc' = "sync"
      /\ generated' = <<>> /\ generated' \in Seq(Token) /\ proposal' = <<>>
  BY <1>2 DEF BeginTurn, NoPending
<1>6. Undecoded = 0 /\ Undecoded' = 0 /\ Committed = transcript /\ Committed' = transcript'
  <2>1. Undecoded = 0 /\ Undecoded' = 0
    BY <1>5 DEF Undecoded, BeginTurn
  <2> QED
    BY <2>1, <1>2, <1>4, <1>5, Counting DEF Committed
<1>7. Typed'
  <2>1. pending' \in [toks : Seq(Token), next : {"turn", "round", "idle"}, tail : 0..1]
    BY <1>1, <1>5
  <2>2. target'.lg \in Text /\ transcript' \in Seq(Token)
    BY <1>1, <1>2, <1>3, <1>4, TextGrows, TextIsText
  <2> QED
    BY <2>1, <2>2, <1>3, <1>4, <1>5 DEF Typed, TypeOK, Inv, TurnInv, BeginTurn, draftVars, Live
<1>8. Phases'
  BY <1>5 DEF Phases, Inv, TurnInv, BeginTurn, draftVars, Live, Deterministic
<1>9. InStep'
  <2> SUFFICES ASSUME ~lost PROVE target'.kv = transcript' /\ target'.n = Len(target'.kv) /\ target'.lg = target'.kv
    BY <1>5, <1>6 DEF InStep, BeginTurn
  <2>1. target.kv = transcript /\ target.n = Len(target.kv)
    BY <1>6 DEF Inv, TurnInv, InStep, BeginTurn
  <2> QED
    BY <1>1, <1>2, <1>3, <1>4, <2>1, TextGrows
<1>10. Own' /\ Clean' /\ Short'
  BY <1>5 DEF Own, Clean, Short, Most
<1>11. Shadow'
  <2> SUFFICES ASSUME SameTokens, ~lost, Deterministic, Live
               PROVE  /\ draft.n = Len(draft.kv) /\ draft.kv \o toks = transcript' \o <<>>
                      /\ draftNPast = Len(draft.kv) /\ toks # <<>>
    BY <1>5, <1>6 DEF Shadow, Drafted, BeginTurn, draftVars, Live, Deterministic
  <2>1. /\ draft.n = Len(draft.kv) /\ draft.kv \o <<>> = transcript \o <<>>
        /\ draftNPast = Len(draft.kv)
    BY <1>2, <1>6 DEF Inv, Shadow, Drafted, BeginTurn, NoPending
  <2>2. draft.kv = transcript
    BY <1>2, <2>1, TextGrows DEF Text
  <2> QED
    BY <1>1, <1>4, <2>1, <2>2, TextGrows DEF Text
<1> QED
  BY <1>7, <1>8, <1>9, <1>10, <1>11 DEF Inv, TurnInv

(* An input that does not fit ends the loop.                               *)
LEMMA BeginTurnOverflowsKeeps ==
  ASSUME Inv, NEW toks \in Input, BeginTurnOverflows(toks), lost' = lost
  PROVE  Inv'
<1> USE DEF BeginTurnOverflows, draftVars, loopVars, Inv, TurnInv
<1>1. Typed' /\ Phases'
  BY DEF Typed, TypeOK, Phases, Live, Deterministic
<1>2. Own' /\ Clean' /\ Short'
  BY DEF Own, Clean, CleanAt, Short, Phases
<1> QED
  BY <1>1, <1>2 DEF InStep, Shadow

(* A token that does not fit ends the loop.                                *)
LEMMA PlainStepOverflowsKeeps ==
  ASSUME Inv, PlainStepOverflows, lost' = lost
  PROVE  Inv'
<1> USE DEF PlainStepOverflows, draftVars, loopVars, Inv, TurnInv
<1>1. Typed' /\ Phases'
  BY DEF Typed, TypeOK, Phases, Live, Deterministic
<1>2. Own' /\ Clean' /\ Short'
  BY DEF Own, Clean, CleanAt, Short, Phases
<1> QED
  BY <1>1, <1>2 DEF InStep, Shadow

(* A drafter that is taken away leaves nothing to be in step with.          *)
LEMMA DetachKeeps ==
  ASSUME Inv, Detach, lost' = lost
  PROVE  Inv'
<1> USE DEF Detach, loopVars, Inv, TurnInv
<1>1. Typed' /\ Phases'
  BY DEF Typed, TypeOK, Phases, Live, Deterministic
<1>2. InStep'
  BY DEF InStep, Committed, Undecoded
<1>3. Own' /\ Clean' /\ Short'
  BY DEF Own, Allowed, Clean, CleanAt, Short
<1> QED
  BY <1>1, <1>2, <1>3 DEF Shadow, Live

(* What a new drafter leaves is typed, and it is only ready when it has    *)
(* read the transcript.                                                    *)
LEMMA AttachTypes ==
  ASSUME Setting, TurnInv, Attach, lost' = lost
  PROVE  TurnInv'
<1>1. Retokenize(transcript) \in Text
  BY DEF Setting, Sampler, TurnInv, Typed
<1>2. /\ attached' \in BOOLEAN /\ ready' \in BOOLEAN /\ draft' \in Context /\ draftNPast' \in Nat
      /\ (ready' => draft'.kv \in Text) /\ (ready' => attached')
  BY <1>1, ForwardText DEF Attach, TurnInv, Typed, TypeOK
<1>3. draftK' \in DraftMin..DraftMax
  BY DraftAssumption DEF Attach
<1>4. Typed'
  BY <1>2, <1>3 DEF Attach, loopVars, TurnInv, Typed, TypeOK, Live
<1>5. Phases'
  BY <1>2 DEF Attach, loopVars, TurnInv, Phases, Live, Deterministic
<1>6. InStep'
  BY DEF Attach, loopVars, TurnInv, InStep, Committed, Undecoded
<1>7. Own' /\ Clean' /\ Short'
  BY DEF Attach, loopVars, TurnInv, Own, Allowed, Clean, CleanAt, Short
<1> QED
  BY <1>4, <1>5, <1>6, <1>7 DEF TurnInv

(* A new drafter that has read the text has seen what counts, if reading    *)
(* the text again gives the same tokens.                                    *)
LEMMA AttachKeeps ==
  ASSUME Setting, Inv, Attach, lost' = lost
  PROVE  Inv'
<1>1. generated = <<>> /\ proposal = <<>> /\ pending = NoPending /\ Typed /\ transcript \in Text
      /\ generated \in Seq(Token)
  BY DEF Inv, TurnInv, Phases, Attach, Typed, TypeOK
<1>2. Committed' = transcript
  <2>1. Undecoded' = 0
    BY <1>1 DEF Undecoded, Attach
  <2> QED
    BY <1>1, <2>1, Counting DEF Committed, Attach, loopVars
<1>3. ASSUME SameTokens
      PROVE  ready' => /\ draft'.kv = transcript /\ draft'.lg = transcript
                       /\ draft'.n = Len(transcript) /\ draftNPast' = Len(transcript)
  <2>1. Retokenize(transcript) = transcript
    BY <1>1, <1>3 DEF SameTokens
  <2> QED
    BY <1>1, <2>1, ForwardText DEF Attach
<1>4. transcript \o <<>> = transcript
  BY <1>1, TextGrows
<1>5. Shadow'
  BY <1>1, <1>2, <1>3, <1>4 DEF Shadow, Drafted, Live, Attach, loopVars, NoPending
<1>6. TurnInv'
  BY AttachTypes DEF Inv
<1> QED
  BY <1>5, <1>6 DEF Inv

----------------------------------------------------------------------------
(* The shadow context is brought in step, or given up *)

(* draftAppend() takes what is pending into the shadow context, or         *)
(* drafting is given up.                                                   *)
LEMMA SyncShadows ==
  ASSUME Inv, Sync
  PROVE  /\ draft' \in Context /\ draftNPast' \in Nat /\ ready' \in BOOLEAN
         /\ (ready' => ready) /\ attached' = attached
         /\ Live' => /\ Live /\ draft'.kv = draft.kv \o pending.toks /\ draft'.kv \in Text
                     /\ draft'.n = draft.n + Len(pending.toks)
                     /\ draftNPast' = draftNPast + Len(pending.toks)
                     /\ draft'.lg = draft'.kv \/ (pending.toks = <<>> /\ draft' = draft)
                     /\ Len(draft'.kv) = Len(draft.kv) + Len(pending.toks)
<1> DEFINE toks == pending.toks
<1>1. /\ toks \in Seq(Token) /\ Len(toks) \in Nat /\ draft \in Context /\ draftNPast \in Nat
      /\ (Live => draft.kv \in Text) /\ attached \in BOOLEAN /\ ready \in BOOLEAN
      /\ draft.n \in Nat
  BY DEF Inv, TurnInv, Typed, TypeOK, Context
<1>2. attached' = attached
  BY DEF Sync
<1>3. CASE UNCHANGED <<draft, ready, draftNPast>> /\ (toks = <<>> \/ ~ready \/ ~attached)
  <2>1. Live' => /\ Live /\ toks = <<>> /\ Len(toks) = 0 /\ draft' = draft /\ draftNPast' = draftNPast
                 /\ draft.kv \in Text
    BY <1>1, <1>2, <1>3 DEF Live
  <2>2. \A s \in Text : s \o <<>> = s
    BY TextGrows
  <2>3. ASSUME Live'
        PROVE  /\ draft'.kv = draft.kv \o toks /\ draft'.kv \in Text
               /\ draft'.n = draft.n + Len(toks) /\ draftNPast' = draftNPast + Len(toks)
               /\ Len(draft'.kv) = Len(draft.kv) + Len(toks)
    <3>1. Len(draft.kv) \in Nat
      BY <2>1, <2>3 DEF Text
    <3>2. draft.kv \o toks = draft.kv /\ draft' = draft /\ draftNPast' = draftNPast /\ Len(toks) = 0
      BY <2>1, <2>2, <2>3
    <3> HIDE DEF toks
    <3> QED
      BY <1>1, <2>1, <2>3, <3>1, <3>2
  <2> QED
    BY <1>1, <1>2, <1>3, <2>1, <2>3
<1>4. CASE ready' = FALSE /\ UNCHANGED <<draft, draftNPast>>
  BY <1>1, <1>2, <1>4 DEF Live
<1>5. CASE /\ ready /\ attached /\ draft' = Appended(draft, toks)
           /\ draftNPast' = draftNPast + Len(toks) /\ UNCHANGED ready
  <2>1. Live /\ draft.kv \in Text /\ draftNPast + Len(toks) \in Nat
    BY <1>1, <1>5 DEF Live
  <2>2. /\ draft' \in Context /\ draft'.kv = draft.kv \o toks /\ draft'.lg = draft.kv \o toks
        /\ draft'.n = draft.n + Len(toks) /\ draft.kv \o toks \in Text
    BY <1>1, <1>5, <2>1, AppendedText
  <2>3. Len(draft.kv \o toks) = Len(draft.kv) + Len(toks)
    BY <1>1, <2>1, TextGrows
  <2> QED
    BY <1>1, <1>2, <1>5, <2>1, <2>2, <2>3
<1> QED
  BY <1>3, <1>4, <1>5 DEF Sync

(* draftAppend(), and what follows it: a round, the plain loop or the end  *)
(* of the turn.                                                            *)
LEMMA SyncKeeps ==
  ASSUME Inv, Sync, lost' = lost
  PROVE  Inv'
<1> USE DraftAssumption
<1>1. /\ Typed /\ pc = "sync" /\ proposal = <<>> /\ transcript \in Text /\ generated \in Seq(Token)
      /\ Undecoded = pending.tail /\ pending.tail \in 0..Len(generated) /\ Len(generated) \in Nat
      /\ pending.next \in {"turn", "round", "idle"}
      /\ UNCHANGED <<target, attached, draftK, proposal>> /\ pending' = NoPending
  BY DEF Inv, TurnInv, Phases, Sync, Undecoded, Typed, TypeOK
<1>2. pending' \in [toks : Seq(Token), next : {"turn", "round", "idle"}, tail : 0..1]
  BY <1>1 DEF NoPending
<1>3. CASE pending.next = "idle"
  <2>1. EndTurn(generated, pending.tail)
    BY <1>3 DEF Sync
  <2>2. /\ pc' = "idle" /\ generated' = <<>> /\ transcript' \in Text
        /\ transcript' = Committed
    BY <1>1, <2>1, EndedTurn DEF Committed, Counted
  <2>3. Typed'
    BY <1>1, <1>2, <2>2, SyncShadows DEF Typed, TypeOK, Live, Text
  <2>4. TurnInv'
    <3>1. lost' \/ (target'.kv = transcript' /\ target'.n = Len(transcript'))
      BY <1>1, <2>2 DEF Inv, TurnInv, InStep
    <3>2. ready' => attached'
      BY <1>1, SyncShadows DEF Inv, TurnInv, Phases
    <3> QED
      BY <1>1, <2>2, <2>3, <3>1, <3>2, TurnOver
  <2>5. Shadow'
    <3> SUFFICES ASSUME SameTokens, ~lost, Deterministic, Live'
                 PROVE  /\ draft'.n = Len(draft'.kv) /\ draft'.kv \o <<>> = transcript' \o <<>>
                        /\ draftNPast' = Len(draft'.kv)
      <4>1. Undecoded' = 0 /\ generated' \in Seq(Token)
        BY <2>2 DEF Undecoded
      <4>2. Committed' = transcript'
        <5>1. Committed' = Counted(transcript', generated', 0)
          BY <4>1 DEF Committed
        <5> QED
          BY <2>2, <4>1, <5>1, Counting
      <4> QED
        BY <1>1, <2>2, <4>2 DEF Shadow, Drafted, NoPending, Deterministic
    <3>1. /\ Live /\ draft.n = Len(draft.kv) /\ draft.kv \o pending.toks = Committed \o <<>>
          /\ draftNPast = Len(draft.kv)
      BY <1>1, SyncShadows DEF Inv, Shadow, Drafted
    <3>2. transcript' \o <<>> = transcript'
      BY <2>2, TextGrows
    <3>3. draft'.kv = transcript'
      BY <2>2, <3>1, <3>2, SyncShadows
    <3> QED
      BY <3>1, <3>3, SyncShadows
  <2> QED
    BY <2>4, <2>5 DEF Inv
<1>4. CASE pending.next # "idle"
  <2>1. /\ UNCHANGED loopVars /\ pending.tail = 0 /\ (pending.next = "turn" => generated = <<>>)
        /\ pc' \in {"round", "plain"} /\ (pc' = "plain" => pending.next = "turn")
        /\ (pc' = "round" => Deterministic) /\ (pc' = "plain" => ~(Live' /\ Deterministic))
    BY <1>1, <1>4 DEF Sync, Inv, TurnInv, Phases, Live, Deterministic
  <2>2. transcript' = transcript /\ generated' = generated
    BY <2>1 DEF loopVars
  <2>3. Undecoded = 0 /\ Undecoded' = 0 /\ Committed' = Committed
    BY <1>1, <2>1, <2>2 DEF Undecoded, Committed
  <2>4. Typed'
    BY <1>1, <1>2, <2>1, <2>2, SyncShadows DEF Typed, TypeOK, Live
  <2>5. Phases'
    BY <1>1, <2>1, <2>2, SyncShadows DEF Phases, NoPending, Deterministic, Live, Inv, TurnInv
  <2>6. InStep'
    BY <1>1, <1>4, <2>1, <2>2, <2>3 DEF InStep, Inv, TurnInv
  <2>7. Own' /\ Clean'
    BY <1>1, <2>1, <2>2 DEF Own, Clean, CleanAt, Inv, TurnInv
  <2>8. Short'
    BY <1>1, <2>1, <2>2 DEF Short, Inv, TurnInv
  <2>9. Shadow'
    <3> SUFFICES ASSUME SameTokens, ~lost, Deterministic, Live'
                 PROVE  /\ draft'.n = Len(draft'.kv) /\ draft'.kv \o <<>> = Committed \o <<>>
                        /\ draftNPast' = Len(draft'.kv) /\ draft'.lg = draft'.kv
      BY <1>1, <2>1, <2>3 DEF Shadow, Drafted, NoPending, Deterministic
    <3>1. /\ Live /\ draft.n = Len(draft.kv) /\ draft.kv \o pending.toks = Committed \o <<>>
          /\ draftNPast = Len(draft.kv)
          /\ (pending.toks = <<>> => draft.lg = draft.kv)
      BY <1>1, <1>4, SyncShadows DEF Inv, Shadow, Drafted
    <3>2. draft.kv \in Text /\ Committed \in Text
      BY <1>1, <2>3, <3>1, AllCommitted, Counting DEF Typed
    <3>3. Committed \o <<>> = Committed
      BY <3>2, TextGrows
    <3>4. draft'.kv = Committed
      BY <3>1, <3>3, SyncShadows
    <3> QED
      BY <3>1, <3>3, <3>4, SyncShadows
  <2> QED
    BY <2>4, <2>5, <2>6, <2>7, <2>8, <2>9 DEF Inv, TurnInv
<1> QED
  BY <1>3, <1>4

----------------------------------------------------------------------------
(* A turn ends with what has been decoded *)

(* A turn that ends with what was decoded keeps the invariant.             *)
LEMMA StopsHere ==
  ASSUME Inv, lost' = lost, pc \in {"round", "verify", "plain"},
         pc' = "idle", generated' = <<>>, proposal' = <<>>, transcript' = Committed,
         transcript' \in Text, ready' \in BOOLEAN, ready' => ready /\ proposal = <<>>,
         UNCHANGED <<target, draft, attached, draftK, draftNPast, pending>>
  PROVE  Inv'
<1> USE DEF Inv, TurnInv
<1>1. Typed'
  BY DEF Inv, TurnInv, Typed, TypeOK, Live, Text
<1>2. TurnInv'
  <2>1. pending' = NoPending /\ (ready' => attached')
    BY DEF Inv, TurnInv, Phases
  <2>2. lost' \/ (target'.kv = transcript' /\ target'.n = Len(transcript'))
    BY DEF Inv, TurnInv, InStep
  <2> QED
    BY <1>1, <2>1, <2>2, TurnOver
<1>3. Shadow'
  <2> SUFFICES ASSUME SameTokens, ~lost, Deterministic, Live'
               PROVE  /\ draft.n = Len(draft.kv) /\ draft.kv \o <<>> = transcript' \o <<>>
                      /\ draftNPast = Len(draft.kv)
    <3>1. Undecoded' = 0 /\ generated' \in Seq(Token)
      BY DEF Undecoded
    <3>2. Committed' = Counted(transcript', generated', 0)
      BY <3>1 DEF Committed
    <3>3. Committed' = transcript'
      BY <3>1, <3>2, Counting
    <3>4. pending' = NoPending
      BY DEF Inv, TurnInv, Phases
    <3> QED
      BY <3>3, <3>4 DEF Shadow, Drafted, NoPending, Deterministic
  <2>1. Live /\ proposal = <<>> /\ pending = NoPending
    BY DEF Live, Inv, TurnInv, Phases
  <2> QED
    BY <2>1 DEF Inv, Shadow, Drafted, NoPending
<1> QED
  BY <1>2, <1>3 DEF Inv

(* The same where all that was generated has been decoded.                  *)
LEMMA AllDecoded ==
  ASSUME Inv, pc \in {"round", "draft", "verify"}
  PROVE  /\ Undecoded = 0 /\ Committed = transcript \o generated
         /\ Committed \in Text /\ Len(Committed) = NPast + Len(generated)
         /\ transcript \in Text /\ generated \in Seq(Token) /\ Len(generated) \in Nat
         /\ pending = NoPending /\ Deterministic
<1>1. transcript \in Text /\ generated \in Seq(Token)
  BY DEF Inv, TurnInv, Typed, TypeOK
<1>2. Undecoded = 0
  BY DEF Undecoded
<1> QED
  BY <1>1, <1>2, Counting DEF Committed, Inv, TurnInv, Phases, NPast

(* The end of a turn in a round commits all that was generated.            *)
LEMMA EndsHere ==
  ASSUME Inv, pc \in {"round", "verify"}, EndTurn(generated, 0)
  PROVE  /\ pc' = "idle" /\ generated' = <<>> /\ transcript' = Committed /\ transcript' \in Text
<1>1. generated \in Seq(Token) /\ 0 \in 0..Len(generated) /\ Typed
  BY DEF Inv, TurnInv, Typed, TypeOK
<1> QED
  BY <1>1, AllDecoded, EndedTurn

(* The turn ends between two rounds.                                       *)
LEMMA RoundsEndKeeps ==
  ASSUME Inv, RoundsEnd, lost' = lost
  PROVE  Inv'
<1>1. proposal = <<>> /\ pc = "round" /\ EndTurn(generated, 0)
  BY DEF Inv, TurnInv, Phases, RoundsEnd
<1>2. ready' \in BOOLEAN /\ (ready' => ready)
  BY DEF RoundsEnd, draftVars, Inv, TurnInv, Typed, TypeOK
<1> QED
  BY <1>1, <1>2, EndsHere, StopsHere DEF RoundsEnd, draftVars

(* The turn ends by a decode without a draft that fails.                   *)
LEMMA PlainRoundFailsKeeps ==
  ASSUME Inv, PlainRoundFails, lost' = lost
  PROVE  Inv'
<1>1. ready' \in BOOLEAN /\ (ready' => ready)
  BY DEF PlainRoundFails, draftVars, Inv, TurnInv, Typed, TypeOK
<1> QED
  BY <1>1, EndsHere, StopsHere DEF PlainRoundFails, draftVars

(* The turn ends by an error in the round that the target has not seen.    *)
LEMMA GiveUpRoundKeeps ==
  ASSUME Inv, pc = "verify", GiveUpRound, target' = target, lost' = lost
  PROVE  Inv'
BY EndsHere, StopsHere DEF GiveUpRound

(* The turn ends in the plain loop, without the token pushed last.         *)
LEMMA PlainEndsKeeps ==
  ASSUME Inv, PlainEnds, lost' = lost
  PROVE  Inv'
<1>1. /\ Typed /\ generated \in Seq(Token) /\ pc = "plain" /\ proposal = <<>>
      /\ Undecoded \in 0..Len(generated)
  BY DEF Inv, TurnInv, Typed, TypeOK, Phases, PlainEnds, Undecoded
<1>2. EndTurn(generated, Undecoded)
  BY <1>1 DEF PlainEnds, Undecoded
<1>3. /\ pc' = "idle" /\ generated' = <<>> /\ transcript' \in Text
      /\ transcript' = Committed
  BY <1>1, <1>2, EndedTurn DEF Committed, Counted
<1>4. ready' \in BOOLEAN /\ (ready' => ready)
  BY DEF PlainEnds, draftVars, Inv, TurnInv, Typed, TypeOK
<1> QED
  BY <1>1, <1>3, <1>4, StopsHere DEF PlainEnds, draftVars

(* A failed decode leaves cells that do not count.                          *)
LEMMA PlainStepFailsKeeps ==
  ASSUME Inv, PlainStepFails, lost' = TRUE
  PROVE  Inv'
<1>1. Typed'
  BY DEF Inv, TurnInv, Typed, TypeOK, Live, Text, PlainStepFails, draftVars
<1>2. TurnInv'
  <2>1. pending' = NoPending /\ proposal' = <<>> /\ (ready' => attached')
    BY DEF Inv, TurnInv, Phases, PlainStepFails, draftVars
  <2> QED
    BY <1>1, <2>1, TurnOver DEF PlainStepFails
<1> QED
  BY <1>2 DEF Inv, Shadow

(* The correction's decode fails: the turn ends, and what the target holds  *)
(* is not what counts any more.                                             *)
LEMMA CorrectionThrowsKeeps ==
  ASSUME Inv, NEW toks \in Seq(Token), NEW accepted \in 0..Len(toks),
         CorrectionThrows(toks, accepted), lost' = TRUE
  PROVE  Inv'
<1>1. /\ target \in Context /\ target.kv \in Text /\ pc = "verify"
      /\ pending = NoPending /\ pending' = pending /\ ready' = FALSE /\ proposal' = <<>>
      /\ UNCHANGED <<draft, attached, draftNPast, draftK>>
      /\ proposal' \in Seq(Token \ Stop)
  BY DEF Inv, TurnInv, Typed, TypeOK, Phases, CorrectionThrows, GiveUpRound
<1>2. /\ pc' = "idle" /\ generated' = <<>> /\ transcript' \in Text
  BY <1>1, EndsHere DEF CorrectionThrows, GiveUpRound
<1>3. target' \in Context /\ target'.kv \in Text /\ target'.lg \in Text
  <2>1. Upto(toks, accepted) \in Seq(Token)
    BY Initial
  <2> DEFINE c == Appended(target, Upto(toks, accepted))
  <2>2. c \in Context /\ c.kv \in Text
    BY <1>1, <2>1, AppendedText
  <2>3. target.kv \o toks \in Text /\ target.kv \o toks \in Seq(Token \cup {Hole})
    BY <1>1, TextGrows, TextIsText
  <2>4. target' = [c EXCEPT !.lg = target.kv \o toks]
    BY DEF CorrectionThrows
  <2> HIDE DEF c
  <2> QED
    BY <2>2, <2>3, <2>4 DEF Context
<1>4. Typed'
  <2>1. ~Live' /\ transcript' \in Seq(Token) /\ generated' \in Seq(Token) /\ lost' \in BOOLEAN
    BY <1>1, <1>2 DEF Live, Text
  <2>2. TypeOK'
    BY <1>1, <1>2, <1>3, <2>1 DEF Inv, TurnInv, Typed, TypeOK
  <2> QED
    BY <1>2, <1>3, <2>1, <2>2 DEF Typed
<1>5. TurnInv'
  BY <1>1, <1>2, <1>4, TurnOver DEF CorrectionThrows, GiveUpRound
<1> QED
  BY <1>5 DEF Inv, Shadow

----------------------------------------------------------------------------
(* The drafter's part of a round *)

(* What Shadow says in a round.                                             *)
LEMMA ShadowInRound ==
  ASSUME Inv, pc \in {"round", "draft", "verify"}, SameTokens, ~lost, Live
  PROVE  /\ draft.kv \in Text /\ draft.n = Len(draft.kv) /\ draft.kv = Committed \o proposal
         /\ pc = "draft" => draftNPast = Len(Committed)
         /\ pc # "draft" => draftNPast = Len(draft.kv)
         /\ pc # "verify" => draft.lg = draft.kv
         /\ Len(draft.kv) = Len(Committed) + Len(proposal)
<1>1. draft.kv \in Text /\ proposal \in Seq(Token)
  BY TextIsText DEF Inv, TurnInv, Typed, TypeOK
<1>2. Deterministic /\ Committed \in Text
  BY AllDecoded
<1>3. pending.toks = <<>>
  BY DEF Inv, TurnInv, Phases, NoPending
<1>4. draft.kv \o <<>> = draft.kv /\ Len(Committed \o proposal) = Len(Committed) + Len(proposal)
  BY <1>1, <1>2, TextGrows
<1>5. pc # "over"
  OBVIOUS
<1>6. draft.n = Len(draft.kv) /\ draft.kv \o pending.toks = Committed \o proposal
  BY <1>2, <1>5 DEF Inv, Shadow, Drafted
<1>7. /\ pc = "draft" => draftNPast = Len(Committed)
      /\ pc # "draft" => draftNPast = Len(draft.kv)
      /\ pc # "verify" => draft.lg = draft.kv
  BY <1>2, <1>5 DEF Inv, Shadow
<1> QED
  BY <1>1, <1>3, <1>4, <1>6, <1>7

(* What leaves drafter, target and output alone keeps the shadow aligned.  *)
LEMMA ShadowStays ==
  ASSUME pc' \in {"round", "draft", "verify"}, pending' = NoPending,
         SameTokens /\ ~lost' /\ Live' =>
           /\ draft'.kv \in Text /\ draft'.n = Len(draft'.kv)
           /\ draft'.kv = Committed' \o proposal'
           /\ pc' = "draft" => draftNPast' = Len(Committed')
           /\ pc' # "draft" => draftNPast' = Len(draft'.kv)
           /\ pc' # "verify" => draft'.lg = draft'.kv
  PROVE  Shadow'
<1>1. pending'.toks = <<>> /\ pc' # "sync"
  BY DEF NoPending
<1>2. \A s \in Text : s \o <<>> = s
  BY TextGrows
<1> SUFFICES ASSUME SameTokens, ~lost', Live'
             PROVE  Shadow'
  BY DEF Shadow
<1>3. draft'.kv \o pending'.toks = Drafted'
  BY <1>1, <1>2 DEF Drafted
<1> QED
  BY <1>1, <1>3 DEF Shadow

(* A round starts with or without the drafter.                             *)
LEMMA StartRoundKeeps ==
  ASSUME Inv, StartRound, lost' = lost
  PROVE  Inv'
<1> USE DEF Inv, TurnInv
<1>1. /\ proposal = <<>> /\ proposal' = <<>> /\ pc' \in {"draft", "verify"} /\ pc = "round"
      /\ UNCHANGED <<target, draftVars, loopVars, pending>>
      /\ attached \in BOOLEAN /\ ready \in BOOLEAN /\ pending = NoPending /\ Deterministic
      /\ (pc' = "draft" => ready /\ attached) /\ Len(generated) < MaxTokens
      /\ (pc' = "verify" => ~(ready /\ attached))
  BY DEF Phases, StartRound, Typed, TypeOK
<1>2. Undecoded = 0 /\ Undecoded' = 0 /\ Committed' = Committed
  BY <1>1 DEF Undecoded, Committed, loopVars
<1>3. Typed'
  BY <1>1 DEF Typed, TypeOK, Live, draftVars, loopVars
<1>4. Phases'
  BY <1>1 DEF Phases, Live, Deterministic, draftVars, loopVars
<1>5. InStep'
  BY <1>1, <1>2 DEF InStep
<1>6. Own' /\ Clean'
  BY <1>1 DEF Own, Clean, CleanAt, loopVars
<1>7. Short'
  BY <1>1 DEF Short, loopVars
<1>8. Shadow'
  <2> SUFFICES ASSUME SameTokens, ~lost, Live'
               PROVE  /\ draft.kv \in Text /\ draft.n = Len(draft.kv) /\ draft.kv = Committed \o <<>>
                      /\ pc' = "draft" /\ draftNPast = Len(Committed) /\ draft.lg = draft.kv
    BY <1>1, <1>2, ShadowStays DEF draftVars
  <2>1. Live /\ pc' = "draft"
    BY <1>1 DEF Live, draftVars
  <2>2. Committed \in Text
    BY <1>1, AllDecoded
  <2> QED
    BY <1>1, <2>1, <2>2, ShadowInRound, TextGrows
<1> QED
  BY <1>3, <1>4, <1>5, <1>6, <1>7, <1>8

(* One more token is drafted: the shadow context runs ahead by it.         *)
LEMMA DraftTokenKeeps ==
  ASSUME Inv, NEW t \in Token, DraftToken(t), lost' = lost
  PROVE  Inv'
<1> USE DraftAssumption DEF Inv, TurnInv
<1>1. /\ pc = "draft" /\ pc' = "draft" /\ Live /\ ready /\ Live' /\ attached'
      /\ UNCHANGED <<target, ready, draftNPast, draftK, loopVars, pending>>
  BY DEF DraftToken, Phases, Live
<1>2. /\ t \in Token \ Stop /\ <<t>> \in Seq(Token) /\ Len(<<t>>) = 1
      /\ proposal \in Seq(Token \ Stop) /\ proposal \in Seq(Token)
      /\ draft.kv \in Text /\ draft \in Context /\ draft.n \in Nat
      /\ generated \in Seq(Token) /\ Len(generated) \in Nat /\ Len(proposal) \in Nat
  <2>1. proposal \in Seq(Token \ Stop) /\ t \in Token \ Stop
    BY DEF Typed, TypeOK, DraftToken
  <2>2. proposal \in Seq(Token)
    BY <2>1, TextIsText
  <2> QED
    BY <1>1, <2>1, <2>2 DEF Typed, TypeOK, Context
<1>3. /\ proposal' = Append(proposal, t) /\ proposal' = proposal \o <<t>>
      /\ proposal' \in Seq(Token \ Stop) /\ Len(proposal') = Len(proposal) + 1
  BY <1>2, OneMore DEF DraftToken
<1>4. /\ draft' \in Context /\ draft'.kv = draft.kv \o <<t>> /\ draft'.lg = draft'.kv
      /\ draft'.n = draft.n + 1 /\ draft'.kv \in Text
      /\ Len(draft'.kv) = Len(draft.kv) + 1
  <2>1. draft' = Appended(draft, <<t>>) /\ Len(draft.kv \o <<t>>) = Len(draft.kv) + 1
    BY <1>2, TextGrows DEF DraftToken
  <2> QED
    BY <1>2, <2>1, AppendedText
<1>5. Undecoded = 0 /\ Undecoded' = 0 /\ Committed' = Committed
  BY <1>1 DEF Undecoded, Committed, loopVars
<1>6. Typed'
  BY <1>1, <1>3, <1>4 DEF Typed, TypeOK, Live, loopVars, DraftToken
<1>7. Phases'
  BY <1>1 DEF Phases, Deterministic, loopVars
<1>8. InStep'
  BY <1>1, <1>5 DEF InStep
<1>9. Own' /\ Clean'
  BY <1>1 DEF Own, Clean, CleanAt, loopVars
<1>10. Short'
  <2>1. Len(proposal) < MaxTokens - Len(generated) + 1 \/ ~(Len(proposal) < DraftCap)
    BY <1>1, <1>2 DEF DraftCap, Least, Typed, TypeOK
  <2> QED
    BY <1>1, <1>2, <1>3, <2>1 DEF Short, loopVars, DraftToken
<1>11. Shadow'
  <2> SUFFICES ASSUME SameTokens, ~lost
               PROVE  /\ draft'.n = Len(draft'.kv) /\ draft'.kv = Committed \o proposal'
                      /\ draftNPast = Len(Committed)
    BY <1>1, <1>4, <1>5, ShadowStays, AllDecoded
  <2>1. /\ draft.n = Len(draft.kv) /\ draft.kv = Committed \o proposal
        /\ draftNPast = Len(Committed)
    BY <1>1, ShadowInRound
  <2>2. Committed \in Seq(Token)
    BY <1>1, AllDecoded, TextIsText
  <2>3. Committed \o (proposal \o <<t>>) = (Committed \o proposal) \o <<t>>
    BY <1>2, <2>2, JoinedTwice
  <2> QED
    BY <1>2, <1>3, <1>4, <2>1, <2>3
<1> QED
  BY <1>6, <1>7, <1>8, <1>9, <1>10, <1>11

(* When drafting ends, what was drafted is taken into account.              *)
LEMMA DraftEndsKeeps ==
  ASSUME Inv, DraftEnds, lost' = lost
  PROVE  Inv'
<1> USE DEF Inv, TurnInv
<1>1. /\ pc = "draft" /\ pc' = "verify" /\ (ready' => ready) /\ ready' \in BOOLEAN
      /\ draftNPast' = draftNPast + Len(proposal) /\ Len(proposal) \in Nat
      /\ UNCHANGED <<target, draft, attached, draftK, loopVars, proposal, pending>>
      /\ (Live' => Live)
  <2>1. ready \in BOOLEAN /\ attached \in BOOLEAN /\ proposal \in Seq(Token \ Stop)
    BY DEF Typed, TypeOK
  <2>2. ready' \in BOOLEAN /\ (ready' => ready)
    <3>1. ready' = ready \/ ready' = FALSE
      BY DEF DraftEnds
    <3>2. CASE ready' = ready
      BY <2>1, <3>2
    <3>3. CASE ready' = FALSE
      BY <3>3
    <3> QED
      BY <3>1, <3>2, <3>3
  <2> QED
    BY <2>1, <2>2 DEF DraftEnds, Live
<1>2. Undecoded = 0 /\ Undecoded' = 0 /\ Committed' = Committed
  BY <1>1 DEF Undecoded, Committed, loopVars
<1>3. Typed'
  BY <1>1 DEF Typed, TypeOK, loopVars
<1>4. Phases'
  BY <1>1 DEF Phases, Live, Deterministic, loopVars
<1>5. InStep'
  BY <1>1, <1>2 DEF InStep
<1>6. Own' /\ Clean' /\ Short'
  BY <1>1 DEF Own, Clean, CleanAt, Short, loopVars
<1>7. Shadow'
  <2> SUFFICES ASSUME SameTokens, ~lost, Live'
               PROVE  /\ draft.n = Len(draft.kv) /\ draft.kv = Committed \o proposal
                      /\ draftNPast' = Len(draft.kv) /\ draft.kv \in Text
    BY <1>1, <1>2, ShadowStays, AllDecoded
  <2>1. /\ draft.n = Len(draft.kv) /\ draft.kv = Committed \o proposal
        /\ draftNPast = Len(Committed) /\ Len(draft.kv) = Len(Committed) + Len(proposal)
        /\ draft.kv \in Text
    BY <1>1, ShadowInRound
  <2> QED
    BY <1>1, <2>1
<1> QED
  BY <1>3, <1>4, <1>5, <1>6, <1>7

(* Drafting is given up: the shadow context is not used any more.          *)
LEMMA DraftThrowsKeeps ==
  ASSUME Inv, DraftThrows, lost' = lost
  PROVE  Inv'
<1> USE DEF Inv, TurnInv
<1>1. /\ pc = "draft" /\ pc' = "verify" /\ ready' = FALSE /\ proposal' = <<>> /\ ~Live'
      /\ UNCHANGED <<target, draft, attached, draftNPast, draftK, loopVars, pending>>
      /\ proposal' \in Seq(Token \ Stop)
  BY DEF DraftThrows, Live
<1>2. Undecoded = 0 /\ Undecoded' = 0 /\ Committed' = Committed
  BY <1>1 DEF Undecoded, Committed, loopVars
<1>3. Typed'
  BY <1>1 DEF Typed, TypeOK, loopVars
<1>4. Phases'
  BY <1>1 DEF Phases, Live, Deterministic, loopVars
<1>5. InStep'
  BY <1>1, <1>2 DEF InStep
<1>6. Own' /\ Clean' /\ Short'
  BY <1>1 DEF Own, Clean, CleanAt, Short, loopVars
<1> QED
  BY <1>1, <1>3, <1>4, <1>5, <1>6 DEF Shadow

----------------------------------------------------------------------------
(* One more token *)

(* What sampling gives, and that a token that does not end the turn may     *)
(* stay.                                                                    *)
LEMMA Chosen ==
  ASSUME Setting, NEW ctx \in Text, NEW out \in Seq(Token)
  PROVE  /\ Best(ctx, {}) \in Token /\ Best(ctx, Poison(out)) \in Token \ Poison(out)
         /\ Pick(ctx, out) \subseteq Token
         /\ Best(ctx, {}) \notin Poison(out) => Best(ctx, Poison(out)) = Best(ctx, {})
         /\ Deterministic => Best(ctx, Poison(out)) \in Allowed(ctx, out)
<1>1. /\ Best(ctx, {}) \in Token /\ Best(ctx, Poison(out)) \in Token \ Poison(out)
      /\ Pick(ctx, out) \subseteq Token
      /\ (Best(ctx, {}) \notin Poison(out) => Best(ctx, Poison(out)) = Best(ctx, {}))
      /\ (Greedy /\ ~Steering => Best(ctx, {}) \in Pick(ctx, out))
  BY DEF Setting, Sampler
<1>2. ~Steering => Poison(out) = {}
  BY DEF Poison
<1> QED
  BY <1>1, <1>2 DEF Deterministic, Allowed

(* One more token that may follow the output.                              *)
LEMMA OneMoreOwn ==
  ASSUME Inv, NEW t \in Token, generated' = Append(generated, t), transcript' = transcript,
         lost' = lost, ~lost => t \in Allowed(transcript \o generated, generated)
  PROVE  Own' /\ generated' \in Seq(Token) /\ Len(generated') = Len(generated) + 1
<1>1. transcript \in Seq(Token) /\ generated \in Seq(Token) /\ Own
  BY DEF Inv, TurnInv, Typed, TypeOK
<1>2. /\ generated' = generated \o <<t>> /\ <<t>> \in Seq(Token) /\ Len(<<t>>) = 1
      /\ generated' \in Seq(Token) /\ Len(generated') = Len(generated) + 1
  BY <1>1, OneMore
<1>3. generated \o SubSeq(<<t>>, 1, 1 - 1) = generated
  BY <1>1
<1>4. \A j \in 1..Len(<<t>>) : j = 1 /\ <<t>>[j] = t
  BY <1>2
<1>5. ~lost => \A j \in 1..Len(<<t>>) :
                 LET before == generated \o SubSeq(<<t>>, 1, j - 1) IN
                 <<t>>[j] \in Allowed(transcript \o before, before)
  BY <1>3, <1>4
<1>6. Own'
  BY <1>1, <1>2, <1>5, OwnGrows
<1> QED
  BY <1>2, <1>6

(* One more token that does not end the turn.                              *)
LEMMA OneMoreClean ==
  ASSUME NEW out \in Seq(Token), NEW t \in Token, \A i \in 1..Len(out) : CleanAt(out, i),
         t \notin Poison(out), ~Ends(Append(out, t))
  PROVE  \A i \in 1..(Len(out) + 1) : CleanAt(Append(out, t), i)
<1>1. /\ Append(out, t) = out \o <<t>> /\ <<t>> \in Seq(Token) /\ 1 \in 0..Len(<<t>>)
      /\ Last(Append(out, t)) = t
  BY OneMore
<1>2. t \notin Stop /\ ~(Steering /\ EditEnds(out \o <<t>>))
  BY <1>1 DEF Ends
<1>3. /\ out \o SubSeq(<<t>>, 1, 1 - 1) = out
      /\ out \o SubSeq(<<t>>, 1, 1) = out \o <<t>>
  OBVIOUS
<1>4. \A j \in 1..1 : /\ <<t>>[j] \notin Stop
                      /\ <<t>>[j] \notin Poison(out \o SubSeq(<<t>>, 1, j - 1))
                      /\ ~(Steering /\ EditEnds(out \o SubSeq(<<t>>, 1, j)))
  <2> SUFFICES ASSUME NEW j \in 1..1
               PROVE  /\ <<t>>[j] \notin Stop
                      /\ <<t>>[j] \notin Poison(out \o SubSeq(<<t>>, 1, j - 1))
                      /\ ~(Steering /\ EditEnds(out \o SubSeq(<<t>>, 1, j)))
    OBVIOUS
  <2>1. j = 1 /\ <<t>>[j] = t
    OBVIOUS
  <2> QED
    BY <1>2, <1>3, <2>1
<1> QED
  BY <1>1, <1>4, CleanGrows

(* The plain loop goes on.                                                  *)
LEMMA PlainGoesOn ==
  ASSUME Inv, pc = "plain", pc' = "plain", lost' = lost, Len(generated) < MaxTokens,
         NEW t \in Token, generated' = Append(generated, t), transcript' = transcript,
         ~lost => t \in Allowed(transcript \o generated, generated),
         t \notin Poison(generated), ~Ends(Append(generated, t)),
         target' \in Context, target'.kv \in Text, target'.lg \in Text,
         ~lost => target'.kv = transcript \o generated /\ target'.n = Len(target'.kv),
         UNCHANGED <<draftVars, proposal, pending>>
  PROVE  Inv'
<1> USE DraftAssumption DEF Inv, TurnInv
<1>1. /\ generated \in Seq(Token) /\ Len(generated) \in Nat /\ transcript \in Text
      /\ pending = NoPending /\ proposal = <<>> /\ ~(Live /\ Deterministic)
  BY DEF Typed, TypeOK, Phases
<1>2. Own' /\ generated' \in Seq(Token) /\ Len(generated') = Len(generated) + 1
  BY OneMoreOwn
<1>3. Clean'
  <2>1. \A i \in 1..Len(generated) : CleanAt(generated, i)
    BY <1>1 DEF Clean
  <2>2. \A i \in 1..Len(generated') : CleanAt(generated', i)
    BY <1>1, <1>2, <2>1, OneMoreClean
  <2> QED
    BY <1>2, <2>2 DEF Clean, CleanAt
<1>4. Committed' = transcript \o generated
  <2>1. Undecoded' = 1
    BY <1>1, <1>2 DEF Undecoded
  <2>2. Committed' = Counted(transcript, Append(generated, t), 1)
    BY <2>1 DEF Committed
  <2>3. SubSeq(Append(generated, t), 1, Len(Append(generated, t)) - 1) = generated
    BY <1>1
  <2> QED
    BY <2>2, <2>3 DEF Counted
<1>5. Typed'
  BY <1>1, <1>2 DEF Typed, TypeOK, Live, draftVars
<1>6. Phases'
  BY <1>1, <1>2 DEF Phases, Live, Deterministic, draftVars, NoPending
<1>7. InStep'
  BY <1>1, <1>2, <1>4 DEF InStep
<1>8. Short'
  BY <1>1, <1>2 DEF Short, Most
<1>9. Shadow'
  BY <1>1 DEF Shadow, Live, Deterministic, draftVars
<1> QED
  BY <1>2, <1>3, <1>5, <1>6, <1>7, <1>8, <1>9

(* What the target holds after a decode of the plain loop.                  *)
LEMMA PlainDecodes ==
  ASSUME Inv, PlainStep
  PROVE  /\ target' \in Context /\ target'.kv \in Text /\ target'.lg \in Text
         /\ ~lost => /\ target'.kv = transcript \o generated /\ target'.lg = target'.kv
                     /\ target'.n = Len(target'.kv)
<1> USE DEF Inv, TurnInv
<1>0. /\ pc = "plain" /\ Typed
      /\ generated \in Seq(Token) /\ Len(generated) \in Nat /\ transcript \in Text
      /\ target \in Context /\ target.kv \in Text /\ target.lg \in Text
  BY DEF Typed, TypeOK, Phases, PlainStep
<1>1. CASE generated = <<>>
  <2>1. Undecoded = 0
    BY <1>0, <1>1 DEF Undecoded
  <2>2. Committed = transcript \o generated
    BY <1>0, <2>1, AllCommitted
  <2> QED
    BY <1>0, <1>1, <2>2 DEF PlainStep, InStep
<1>2. CASE generated # <<>>
  <2> DEFINE last == Last(generated)
  <2>1. /\ last \in Token /\ <<last>> \in Seq(Token) /\ Len(<<last>>) = 1
        /\ Len(generated) - 1 \in 0..Len(generated)
        /\ SubSeq(generated, 1, Len(generated) - 1) \in Seq(Token)
        /\ SubSeq(generated, 1, Len(generated) - 1) \o <<last>> = generated
    BY <1>0, <1>2 DEF Last
  <2>2. target' = Appended(target, <<last>>)
    BY <1>2 DEF PlainStep
  <2> HIDE DEF last
  <2>3. /\ target' \in Context /\ target'.kv = target.kv \o <<last>> /\ target'.lg = target'.kv
        /\ target'.n = target.n + 1 /\ target'.kv \in Text
    BY <1>0, <2>1, <2>2, AppendedText
  <2>4. Undecoded = 1
    BY <1>0, <1>2 DEF Undecoded
  <2>5. ASSUME ~lost
        PROVE  target'.kv = transcript \o generated /\ target'.n = Len(target'.kv)
    <3>1. target.kv = transcript \o SubSeq(generated, 1, Len(generated) - 1)
          /\ target.n = Len(target.kv)
      BY <1>0, <2>4, <2>5 DEF InStep, Committed, Counted
    <3>2. target'.kv = transcript \o generated
      <4> DEFINE front == SubSeq(generated, 1, Len(generated) - 1)
      <4>1. /\ transcript \in Seq(Token) /\ front \in Seq(Token) /\ <<last>> \in Seq(Token)
            /\ front \o <<last>> = generated /\ target'.kv = (transcript \o front) \o <<last>>
        BY <1>0, <2>1, <2>3, <3>1, TextIsText
      <4> HIDE DEF front
      <4>2. \A u \in Seq(Token) : (transcript \o front) \o u = transcript \o (front \o u)
        BY <4>1, JoinedTwice
      <4> QED
        BY <4>1, <4>2
    <3>3. Len(target.kv \o <<last>>) = Len(target.kv) + 1
      BY <1>0, <2>1, TextGrows
    <3> QED
      BY <2>3, <3>1, <3>2, <3>3
  <2> QED
    BY <2>3, <2>5
<1> QED
  BY <1>1, <1>2

(* A step of the plain loop, which goes on or ends the turn.               *)
LEMMA PlainStepKeeps ==
  ASSUME Setting, Inv, PlainStep, lost' = lost
  PROVE  Inv'
<1> USE DEF Inv, TurnInv
<1>1. /\ pc = "plain" /\ Len(generated) < MaxTokens /\ Typed
      /\ generated \in Seq(Token) /\ Len(generated) \in Nat /\ transcript \in Text
      /\ target \in Context /\ target.kv \in Text /\ target.lg \in Text
      /\ pending = NoPending /\ proposal = <<>> /\ (ready => attached)
      /\ ~(Live /\ Deterministic) /\ UNCHANGED <<draftVars, proposal, pending>>
  BY DEF Typed, TypeOK, Phases, PlainStep
<1>2. /\ target' \in Context /\ target'.kv \in Text /\ target'.lg \in Text
      /\ ~lost => /\ target'.kv = transcript \o generated /\ target'.lg = target'.kv
                  /\ target'.n = Len(target'.kv)
  BY PlainDecodes
<1>3. ASSUME pc' = "idle", generated' = <<>>, transcript' = transcript \o generated
      PROVE  Inv'
  <2>1. transcript' \in Text
    BY <1>1, <1>3, TextGrows
  <2>2. Typed'
    BY <1>1, <1>2, <1>3, <2>1 DEF Typed, TypeOK, Live, draftVars, Text
  <2>3. TurnInv'
    BY <1>1, <1>2, <1>3, <2>2, TurnOver DEF draftVars
  <2> QED
    BY <1>1, <2>3 DEF Shadow, Live, Deterministic, draftVars
<1>4. CASE Steering
  <2> DEFINE t == Best(target'.lg, Poison(generated))
             out == Append(generated, t)
  <2>1. t \in Token \ Poison(generated) /\ t \in Allowed(target'.lg, generated)
    BY <1>1, <1>2, <1>4, Chosen DEF Deterministic
  <2>2. IF Ends(out) THEN EndTurn(out, 1) ELSE generated' = out /\ UNCHANGED <<transcript, pc>>
    BY <1>4 DEF PlainStep
  <2> HIDE DEF t
  <2>3. CASE Ends(out)
    <3>1. out \in Seq(Token) /\ 1 \in 0..Len(out) /\ SubSeq(out, 1, Len(out) - 1) = generated
      BY <1>1, <2>1
    <3> QED
      BY <1>1, <1>3, <2>2, <2>3, <3>1, EndedTurn
  <2>4. CASE ~Ends(out)
    <3>1. generated' = out /\ transcript' = transcript /\ pc' = "plain"
      BY <1>1, <2>2, <2>4
    <3> QED
      BY <1>1, <1>2, <2>1, <2>4, <3>1, PlainGoesOn
  <2> QED
    BY <2>3, <2>4
<1>5. CASE ~Steering
  <2>1. PICK t \in Pick(target'.lg, generated) :
            IF t \in Stop THEN EndTurn(generated, 0)
                          ELSE /\ generated' = Append(generated, t)
                               /\ UNCHANGED <<transcript, pc>>
    BY <1>5 DEF PlainStep
  <2>2. t \in Token /\ t \in Allowed(target'.lg, generated) /\ t \notin Poison(generated)
    BY <1>1, <1>2, <1>5, Chosen DEF Allowed, Poison
  <2>3. CASE t \in Stop
    <3>1. 0 \in 0..Len(generated)
      BY <1>1
    <3> QED
      BY <1>1, <1>3, <2>1, <2>3, <3>1, EndedTurn
  <2>4. CASE t \notin Stop
    <3>1. generated' = Append(generated, t) /\ transcript' = transcript /\ pc' = "plain"
      BY <1>1, <2>1, <2>4
    <3>2. Last(Append(generated, t)) = t
      BY <1>1, <2>2, OneMore
    <3>3. ~Ends(Append(generated, t))
      BY <1>5, <2>4, <3>2 DEF Ends
    <3> QED
      BY <1>1, <1>2, <2>2, <3>1, <3>3, PlainGoesOn
  <2> QED
    BY <2>3, <2>4
<1> QED
  BY <1>4, <1>5

(* A round without a draft.                                                 *)
LEMMA PlainRoundKeeps ==
  ASSUME Setting, Inv, PlainRound, lost' = lost
  PROVE  Inv'
<1> USE DraftAssumption DEF Inv, TurnInv
<1> DEFINE t == Predicted(generated)
           out == Append(generated, t)
           one == <<t>>
<1>1. /\ pc = "verify" /\ proposal = <<>> /\ proposal' = <<>> /\ Typed
      /\ proposal' \in Seq(Token \ Stop)
      /\ generated \in Seq(Token) /\ Len(generated) \in Nat /\ transcript \in Text
      /\ target \in Context /\ target.kv \in Text /\ target.lg \in Text
      /\ pending = NoPending /\ (ready => attached) /\ UNCHANGED draftVars
      /\ Deterministic /\ Len(generated) < MaxTokens
  BY DEF Typed, TypeOK, Phases, Short, PlainRound
<1>2. /\ t \in Token \ Poison(generated) /\ t \in Allowed(target.lg, generated)
  BY <1>1, Chosen DEF Predicted
<1> HIDE DEF t
<1>3. /\ Committed = transcript \o generated /\ Committed \in Text
      /\ ~lost => target.kv = Committed /\ target.lg = Committed /\ target.n = Len(target.kv)
  BY <1>1, AllDecoded DEF InStep
<1>4. \/ /\ Ends(out)
         /\ IF Steering THEN EndTurn(out, 1) ELSE EndTurn(generated, 0)
         /\ UNCHANGED <<target, pending>>
      \/ /\ ~Ends(out) /\ target' = Appended(target, <<Last(out)>>)
         /\ generated' = out
         /\ pending' = [toks |-> <<Last(out)>>, next |-> "round", tail |-> 0]
         /\ pc' = "sync" /\ UNCHANGED transcript
  BY DEF PlainRound, t
<1>5. /\ out \in Seq(Token) /\ 1 \in 0..Len(out) /\ 0 \in 0..Len(generated)
      /\ SubSeq(out, 1, Len(out) - 1) = generated /\ Last(out) = t
      /\ Len(out) = Len(generated) + 1 /\ out = generated \o one /\ one \in Seq(Token)
      /\ Len(one) = 1 /\ one # <<>>
  BY <1>1, <1>2, OneMore
<1>6. CASE Ends(out)
  <2>1. pc' = "idle" /\ generated' = <<>> /\ transcript' = Committed /\ transcript' \in Text
    BY <1>1, <1>3, <1>4, <1>5, <1>6, EndedTurn
  <2>2. ready' \in BOOLEAN /\ (ready' => ready)
    BY <1>1 DEF draftVars, Typed, TypeOK
  <2> QED
    BY <1>1, <1>4, <1>6, <2>1, <2>2, StopsHere DEF draftVars
<1>7. CASE ~Ends(out)
  <2>1. /\ target' = Appended(target, one) /\ generated' = out /\ transcript' = transcript
        /\ pending' = [toks |-> one, next |-> "round", tail |-> 0] /\ pc' = "sync"
    BY <1>4, <1>5, <1>7
  <2> HIDE DEF out, one
  <2>2. /\ target' \in Context /\ target'.kv = target.kv \o one /\ target'.lg = target'.kv
        /\ target'.n = target.n + 1 /\ target'.kv \in Text
        /\ Len(target.kv \o one) = Len(target.kv) + 1
    <3>1. one \in Seq(Token) /\ Len(one) = 1
      BY <1>5
    <3>2. Len(target.kv \o one) = Len(target.kv) + 1
      BY <1>1, <3>1, TextGrows
    <3> QED
      BY <1>1, <2>1, <3>1, <3>2, AppendedText
  <2>3. Committed' = Committed \o one
    <3>1. Undecoded' = 0
      BY <2>1 DEF Undecoded
    <3>2. Committed' = Counted(transcript, out, 0)
      BY <2>1, <3>1 DEF Committed
    <3>3. Committed' = transcript \o (generated \o one)
      <4>1. out \in Seq(Token) /\ out = generated \o one
        BY <1>5
      <4> QED
        BY <1>1, <3>2, <4>1, Counting
    <3>4. one \in Seq(Token)
      BY <1>5
    <3>5. (transcript \o generated) \o one = transcript \o (generated \o one)
      BY <1>1, <3>4, TextRegroups
    <3> QED
      BY <1>3, <3>3, <3>5
  <2>4. Own' /\ Len(generated') = Len(generated) + 1 /\ generated' \in Seq(Token)
    <3>1. ~lost => t \in Allowed(transcript \o generated, generated)
      BY <1>2, <1>3
    <3> QED
      BY <1>2, <2>1, <3>1, OneMoreOwn DEF out
  <2>5. Clean'
    <3>1. \A i \in 1..Len(generated) : CleanAt(generated, i)
      BY <1>1 DEF Clean
    <3>2. \A i \in 1..Len(generated') : CleanAt(generated', i)
      BY <1>1, <1>2, <1>7, <2>1, <2>4, <3>1, OneMoreClean DEF out
    <3> QED
      BY <2>1, <2>4, <3>2 DEF Clean, CleanAt
  <2>6. Typed'
    <3>1. pending' \in [toks : Seq(Token), next : {"turn", "round", "idle"}, tail : 0..1]
      BY <1>5, <2>1
    <3> QED
      BY <1>1, <2>1, <2>2, <2>4, <3>1 DEF Typed, TypeOK, Live, draftVars
  <2>7. Phases'
    BY <1>1, <2>1, <2>4 DEF Phases, Live, Deterministic, draftVars
  <2>8. InStep'
    BY <1>3, <2>1, <2>2, <2>3 DEF InStep
  <2>9. Short'
    BY <1>1, <2>1, <2>4 DEF Short, Most
  <2>10. Shadow'
    <3> SUFFICES ASSUME SameTokens, ~lost, Live'
                 PROVE  /\ draft.n = Len(draft.kv) /\ draft.kv \o one = (Committed \o one) \o <<>>
                        /\ draftNPast = Len(draft.kv)
      BY <1>1, <1>5, <2>1, <2>3 DEF Shadow, Drafted, Deterministic, draftVars
    <3>1. /\ Live /\ draft.n = Len(draft.kv) /\ draft.kv = Committed \o <<>>
          /\ draftNPast = Len(draft.kv)
      BY <1>1, ShadowInRound DEF Live, draftVars
    <3>2. Committed \o <<>> = Committed /\ Committed \o one \in Text
      BY <1>3, <1>5, TextGrows
    <3>3. (Committed \o one) \o <<>> = Committed \o one
      BY <3>2, TextGrows
    <3> QED
      BY <3>1, <3>2, <3>3
  <2> QED
    BY <2>4, <2>5, <2>6, <2>7, <2>8, <2>9, <2>10
<1> QED
  BY <1>6, <1>7

(* A decode without a draft that does not fit ends the turn.               *)
LEMMA PlainRoundOverflowsKeeps ==
  ASSUME Inv, PlainRoundOverflows, lost' = lost
  PROVE  Inv'
BY GiveUpRoundKeeps DEF PlainRoundOverflows

(* A batch that is not decoded ends the turn.                              *)
LEMMA VerifyThrowsKeeps ==
  ASSUME Inv, NEW toks \in Drafts, VerifyThrows(toks), lost' = lost
  PROVE  Inv'
BY GiveUpRoundKeeps DEF VerifyThrows

----------------------------------------------------------------------------
(* The target's part of a round *)

(* A set of numbers that is not empty has a least element, and Min is it.   *)
LEMMA LeastNumber ==
  ASSUME NEW T \in SUBSET Nat, T # {}
  PROVE  \E m \in T : \A z \in T : m <= z
<1> DEFINE R == OpToRel(<, Nat)
<1>1. IsWellFoundedOn(R, Nat)
  BY NatLessThanWellFounded
<1>2. PICK x \in T : x \in Nat
  OBVIOUS
<1>3. PICK y \in T : \A z \in T : ~(<<z, y>> \in R)
  BY <1>1, <1>2, WFMin
<1>4. \A z, w \in Nat : z < w => <<z, w>> \in R
  BY DEF OpToRel
<1> HIDE DEF R
<1>5. ASSUME NEW z \in T
      PROVE  y <= z
  <2>1. y \in Nat /\ z \in Nat
    OBVIOUS
  <2>2. z < y => <<z, y>> \in R
    BY <1>4, <2>1
  <2> QED
    BY <1>3, <2>1, <2>2
<1> QED
  BY <1>5

(* Min() of a set of numbers is its least element.                         *)
LEMMA MinIsLeast ==
  ASSUME NEW T \in SUBSET Nat, T # {}
  PROVE  Min(T) \in T /\ \A y \in T : Min(T) <= y
<1>1. \E m \in T : \A z \in T : m <= z
  BY LeastNumber
<1> QED
  BY <1>1, Zenon DEF Min

(* How far the scan gets: nothing bad is kept, no edit is closed in what is *)
(* committed, and all is committed unless it stopped.                       *)
LEMMA Scanned ==
  ASSUME NEW emitted \in Seq(Token)
  PROVE  LET s == Scan(emitted) IN
         /\ s.commit \in 0..Len(emitted) /\ s.keep \in 0..Len(emitted)
         /\ s.keep = s.commit \/ (s.keep = s.commit + 1 /\ s.stopped)
         /\ ~s.stopped => s.commit = Len(emitted)
         /\ \A j \in 1..s.keep : j \notin Bad(emitted)
         /\ \A j \in 1..s.commit : j \notin Edit(emitted)
<1> DEFINE T == Bad(emitted) \cup Edit(emitted) \cup {Len(emitted) + 1}
           at == Min(T)
<1>1. /\ Len(emitted) \in Nat
      /\ Bad(emitted) \subseteq 1..Len(emitted) /\ Edit(emitted) \subseteq 1..Len(emitted)
  BY DEF Bad, Edit
<1>2. at \in T /\ \A y \in T : at <= y
  <2>1. T \in SUBSET Nat /\ T # {}
    BY <1>1
  <2> HIDE DEF T
  <2> QED
    BY <2>1, MinIsLeast
<1>3. Scan(emitted) = [keep |-> IF at \in Edit(emitted) \ Bad(emitted) THEN at ELSE at - 1,
                       commit |-> at - 1, stopped |-> at <= Len(emitted)]
  BY DEF Scan
<1> HIDE DEF at
<1>4. /\ at \in 1..(Len(emitted) + 1)
      /\ \A j \in 1..Len(emitted) : j < at => j \notin Bad(emitted) /\ j \notin Edit(emitted)
  BY <1>1, <1>2
<1> HIDE DEF T
<1>5. /\ Scan(emitted).commit = at - 1 /\ Scan(emitted).stopped = (at <= Len(emitted))
      /\ \/ at \in Edit(emitted) \ Bad(emitted) /\ Scan(emitted).keep = at
         \/ at \notin Edit(emitted) \ Bad(emitted) /\ Scan(emitted).keep = at - 1
  BY <1>3
<1> DEFINE s == Scan(emitted)
<1> HIDE DEF s
<1>6. /\ s.commit \in 0..Len(emitted) /\ s.keep \in 0..Len(emitted)
      /\ s.keep = s.commit \/ (s.keep = s.commit + 1 /\ s.stopped)
      /\ ~s.stopped => s.commit = Len(emitted)
  <2>1. CASE at <= Len(emitted)
    <3>1. s.stopped
      BY <1>5, <2>1 DEF s
    <3> QED
      BY <1>1, <1>4, <1>5, <2>1, <3>1 DEF s
  <2>2. CASE ~(at <= Len(emitted))
    <3>1. ~s.stopped
      BY <1>5, <2>2 DEF s
    <3>2. at = Len(emitted) + 1 /\ at \notin Edit(emitted)
      BY <1>1, <1>4, <2>2
    <3> QED
      BY <1>1, <1>5, <3>1, <3>2 DEF s
  <2> QED
    BY <2>1, <2>2
<1>7. /\ \A j \in 1..s.keep : j \notin Bad(emitted)
      /\ \A j \in 1..s.commit : j \notin Edit(emitted)
  BY <1>1, <1>4, <1>5, <1>6 DEF s
<1> QED
  BY <1>6, <1>7 DEF s

(* What may be verified is a sequence of tokens none of which is a stop    *)
(* token.                                                                  *)
LEMMA DraftTypes ==
  ASSUME Typed, NEW toks \in Drafts
  PROVE  /\ toks \in Seq(Token) /\ Len(toks) \in Nat /\ proposal \in Seq(Token)
         /\ proposal # <<>> => toks = proposal
         /\ proposal = <<>> => Len(toks) <= MaxSpec
<1>1. proposal \in Seq(Token) /\ MaxSpec \in Nat
  BY TextIsText, DraftAssumption DEF Typed, TypeOK
<1>2. CASE proposal # <<>>
  BY <1>1, <1>2 DEF Drafts
<1>3. CASE proposal = <<>>
  <2>1. PICK n \in 1..MaxSpec : toks \in [1..n -> Token \ Stop]
    BY <1>3 DEF Drafts, TrieDrafts
  <2>2. toks \in Seq(Token) /\ Len(toks) = n
    BY <1>1, <2>1
  <2> QED
    BY <1>1, <1>3, <2>1, <2>2
<1> QED
  BY <1>2, <1>3

(* What a batch yields are the target's choices, one after the other.       *)
LEMMA Emitted ==
  ASSUME Setting, target.lg \in Text, NEW toks \in Seq(Token), NEW accepted \in 0..Len(toks),
         NEW t \in Token, Verified(toks, accepted, t)
  PROVE  LET emitted == Append(Upto(toks, accepted), t) IN
         /\ emitted \in Seq(Token) /\ Len(emitted) = accepted + 1
         /\ \A j \in 1..Len(emitted) : emitted[j] = Best(target.lg \o SubSeq(emitted, 1, j - 1), {})
         /\ \A n \in 0..accepted : SubSeq(emitted, 1, n) = SubSeq(toks, 1, n)
<1> DEFINE front == SubSeq(toks, 1, accepted)
           emitted == Append(front, t)
<1>1. /\ Upto(toks, accepted) = front /\ front \in Seq(Token) /\ Len(front) = accepted
      /\ accepted \in Nat /\ Len(toks) \in Nat
      /\ \A i \in 1..accepted : front[i] = toks[i]
  BY Initial
<1>2. /\ emitted \in Seq(Token) /\ Len(emitted) = accepted + 1
      /\ \A i \in 1..accepted : emitted[i] = toks[i]
      /\ emitted[accepted + 1] = t
  <2> HIDE DEF front
  <2> QED
    BY <1>1
<1>3. \A n \in 0..accepted : SubSeq(emitted, 1, n) = SubSeq(toks, 1, n) /\ Upto(toks, n) = SubSeq(toks, 1, n)
  <2> SUFFICES ASSUME NEW n \in 0..accepted
               PROVE  SubSeq(emitted, 1, n) = SubSeq(toks, 1, n) /\ Upto(toks, n) = SubSeq(toks, 1, n)
    OBVIOUS
  <2> HIDE DEF emitted
  <2>1. Upto(toks, n) = SubSeq(toks, 1, n)
    BY <1>1 DEF Upto
  <2>2. SubSeq(emitted, 1, n) = SubSeq(toks, 1, n)
    BY <1>1, <1>2
  <2> QED
    BY <2>1, <2>2
<1>4. \A j \in 1..Len(emitted) : emitted[j] = Best(target.lg \o SubSeq(emitted, 1, j - 1), {})
  <2> SUFFICES ASSUME NEW j \in 1..Len(emitted)
               PROVE  emitted[j] = Best(target.lg \o SubSeq(emitted, 1, j - 1), {})
    OBVIOUS
  <2> HIDE DEF emitted
  <2>1. j - 1 \in 0..accepted
    BY <1>1, <1>2
  <2>2. Choice(toks, j - 1) = Best(target.lg \o SubSeq(emitted, 1, j - 1), {})
    BY <1>3, <2>1 DEF Choice
  <2>3. emitted[j] = Choice(toks, j - 1)
    <3>1. CASE j = accepted + 1
      <4>1. j - 1 = accepted
        BY <1>1, <3>1
      <4> QED
        BY <1>2, <3>1, <4>1 DEF Verified
    <3>2. CASE j # accepted + 1
      <4>1. j \in 1..accepted
        BY <1>1, <1>2, <3>2
      <4> QED
        BY <1>2, <4>1 DEF Verified
    <3> QED
      BY <3>1, <3>2
  <2> QED
    BY <2>2, <2>3
<1> QED
  BY <1>1, <1>2, <1>3, <1>4

(* The adaptive length of a draft stays within its limits.                 *)
LEMMA DraftKStays ==
  ASSUME NEW k \in DraftMin..DraftMax
  PROVE  /\ Least(DraftMax, k * 2) \in DraftMin..DraftMax
         /\ Most(DraftMin, k \div 2) \in DraftMin..DraftMax
<1>1. /\ DraftMin \in Nat \ {0} /\ DraftMax \in Nat /\ k \in Nat \ {0}
      /\ DraftMin <= DraftMax /\ DraftMin <= k /\ k <= DraftMax
  BY DraftAssumption
<1>2. k \div 2 \in Nat /\ k \div 2 <= k /\ k * 2 \in Nat /\ k <= k * 2
  BY <1>1
<1> QED
  BY <1>1, <1>2 DEF Least, Most

(* A verified batch: the committed tokens are the target's own, its cells  *)
(* are cut behind them, and the drafter is taken back to where both agree. *)
LEMMA VerifyRoundKeeps ==
  ASSUME Setting, Inv, NEW toks \in Drafts, NEW accepted \in 0..Len(toks), NEW t \in Token,
         VerifyRound(toks, accepted, t), lost' = lost
  PROVE  Inv'
<1> USE DraftAssumption DEF Inv, TurnInv
<1> DEFINE emitted == Append(Upto(toks, accepted), t)
           keep == Scan(emitted).keep
           commit == Scan(emitted).commit
           stopped == Scan(emitted).stopped
           kept == SubSeq(emitted, 1, keep)
           done == SubSeq(emitted, 1, commit)
           matched == Matched(accepted, commit)
           base == NPast + Len(generated)
           rollback == Live /\ draftNPast > base + matched
<1>1. /\ pc = "verify" /\ Typed /\ target \in Context /\ target.kv \in Text /\ target.lg \in Text
      /\ generated \in Seq(Token) /\ Len(generated) \in Nat /\ transcript \in Text
      /\ Len(transcript) \in Nat \ {0} /\ base \in Nat \ {0} /\ target.n \in Nat
      /\ draft \in Context /\ draftNPast \in Nat /\ draftK \in DraftMin..DraftMax
      /\ (Live => draft.kv \in Text) /\ Len(generated) < MaxTokens
      /\ Deterministic /\ Committed = transcript \o generated /\ Committed \in Text
      /\ Len(Committed) = base
  <2>1. /\ pc = "verify" /\ Typed /\ target \in Context /\ target.kv \in Text /\ target.lg \in Text
        /\ generated \in Seq(Token) /\ transcript \in Text
        /\ draft \in Context /\ draftNPast \in Nat /\ draftK \in DraftMin..DraftMax
        /\ (Live => draft.kv \in Text) /\ Len(generated) < MaxTokens
    BY DEF Typed, TypeOK, Short, VerifyRound
  <2>2. /\ Len(transcript) \in Nat \ {0} /\ Len(generated) \in Nat /\ target.n \in Nat
    BY <2>1 DEF Text, Context
  <2>3. base \in Nat \ {0}
    BY <2>2 DEF NPast
  <2> QED
    BY <2>1, <2>2, <2>3, AllDecoded
<1>2. /\ toks \in Seq(Token) /\ Len(toks) \in Nat /\ proposal \in Seq(Token) /\ Len(proposal) \in Nat
      /\ (proposal # <<>> => toks = proposal /\ Len(toks) <= MaxTokens - Len(generated) + 1)
      /\ (proposal = <<>> => Len(toks) <= MaxSpec /\ Len(proposal) = 0)
  BY <1>1, DraftTypes DEF Short
<1>3. /\ emitted \in Seq(Token) /\ Len(emitted) = accepted + 1 /\ accepted \in Nat
      /\ \A j \in 1..Len(emitted) : emitted[j] = Best(target.lg \o SubSeq(emitted, 1, j - 1), {})
      /\ \A n \in 0..accepted : SubSeq(emitted, 1, n) = SubSeq(toks, 1, n)
  <2>1. Verified(toks, accepted, t) /\ accepted \in Nat
    BY <1>2 DEF VerifyRound
  <2> QED
    BY <1>1, <1>2, <2>1, Emitted
<1>4. /\ UNCHANGED <<attached, ready, transcript>> /\ proposal' = <<>> /\ pc' = "sync"
      /\ target' = Settled(emitted, commit)
      /\ generated' = generated \o Upto(emitted, keep)
      /\ draft' = (IF rollback THEN Rewind(draft, base + matched) ELSE draft)
      /\ draftNPast' = (IF rollback THEN base + matched ELSE draftNPast)
      /\ draftK' = (IF proposal = <<>> THEN draftK
                    ELSE IF accepted >= Len(proposal) THEN Least(DraftMax, draftK * 2)
                    ELSE Most(DraftMin, draftK \div 2))
      /\ pending' = [toks |-> IF Live THEN SubSeq(emitted, matched + 1, commit) ELSE <<>>,
                     next |-> IF stopped THEN "idle" ELSE "round", tail |-> keep - commit]
  BY DEF VerifyRound, Live
<1> HIDE DEF emitted, base, rollback
<1>5. /\ commit \in 0..Len(emitted) /\ keep \in 0..Len(emitted)
      /\ keep = commit \/ (keep = commit + 1 /\ stopped)
      /\ ~stopped => commit = Len(emitted)
      /\ \A j \in 1..keep : j \notin Bad(emitted)
      /\ \A j \in 1..commit : j \notin Edit(emitted)
  BY <1>3, Scanned
<1> HIDE DEF keep, commit, stopped
<1>6. /\ kept \in Seq(Token) /\ Len(kept) = keep /\ Upto(emitted, keep) = kept
      /\ done \in Seq(Token) /\ Len(done) = commit /\ commit \in 0..keep
      /\ keep \in Nat /\ commit \in Nat /\ Len(emitted) \in Nat
      /\ \A j \in 1..keep : kept[j] = emitted[j] /\ j \in 1..Len(emitted)
      /\ \A m \in 0..keep : SubSeq(kept, 1, m) = SubSeq(emitted, 1, m)
  <2>1. commit \in 0..keep /\ keep \in Nat /\ commit \in Nat /\ Len(emitted) \in Nat
    BY <1>3, <1>5
  <2>2. /\ kept \in Seq(Token) /\ Len(kept) = keep /\ Upto(emitted, keep) = kept
        /\ \A j \in 1..keep : kept[j] = emitted[j]
        /\ \A m \in 0..keep : SubSeq(kept, 1, m) = SubSeq(emitted, 1, m)
    BY <1>3, <1>5, Initial
  <2>3. done \in Seq(Token) /\ Len(done) = commit
    BY <1>3, <1>5, Initial
  <2>4. \A j \in 1..keep : j \in 1..Len(emitted)
    BY <1>5, <2>1
  <2> HIDE DEF kept, done
  <2> QED
    BY <2>1, <2>2, <2>3, <2>4
<1>7. /\ generated' = generated \o kept /\ generated' \in Seq(Token)
      /\ Len(generated') = Len(generated) + keep
  <2>1. generated' = generated \o kept
    BY <1>4, <1>6
  <2> HIDE DEF kept
  <2>2. kept \in Seq(Token) /\ Len(kept) = keep
    BY <1>6
  <2> QED
    BY <1>1, <2>1, <2>2, Joined
<1>8. matched \in 0..commit /\ matched <= accepted /\ matched <= Len(proposal)
  BY <1>2, <1>3, <1>6 DEF Matched, Least
<1> HIDE DEF matched, kept, done
<1>9. Committed' = Committed \o done /\ Committed \o done \in Text
      /\ Len(Committed \o done) = base + commit
  <2>1. Undecoded' = keep - commit
    BY <1>4 DEF Undecoded
  <2>2. Committed' = transcript \o SubSeq(generated \o kept, 1, Len(generated \o kept) - (keep - commit))
    BY <1>4, <1>7, <2>1 DEF Committed, Counted
  <2>3. Len(generated \o kept) - (keep - commit) = Len(generated) + commit
    BY <1>1, <1>6, <1>7
  <2>4. SubSeq(generated \o kept, 1, Len(generated) + commit) = generated \o SubSeq(kept, 1, commit)
    <3>1. generated \in Seq(Token) /\ kept \in Seq(Token) /\ commit \in 0..Len(kept)
      BY <1>1, <1>6
    <3> QED
      BY <3>1, InitialBeyond
  <2>5. SubSeq(kept, 1, commit) = done
    BY <1>6 DEF done
  <2>6. transcript \o (generated \o done) = (transcript \o generated) \o done
    BY <1>1, <1>6, TextRegroups
  <2> QED
    BY <1>1, <1>6, <2>2, <2>3, <2>4, <2>5, <2>6, TextGrows
<1>10. /\ target' \in Context /\ target'.kv \in Text /\ target'.lg \in Text
       /\ ~lost => /\ target'.kv = Committed \o done /\ target'.n = Len(target'.kv)
                   /\ ~stopped => target'.lg = target'.kv
  <2> DEFINE c == Appended(target, emitted)
  <2>1. /\ c \in Context /\ c.kv = target.kv \o emitted /\ c.lg = c.kv /\ c.kv \in Text
        /\ c.n = target.n + Len(emitted) /\ Len(c.kv) = Len(target.kv) + Len(emitted)
    <3>1. target.kv \o emitted \in Text /\ Len(target.kv \o emitted) = Len(target.kv) + Len(emitted)
      BY <1>1, <1>3, TextGrows
    <3>2. /\ c \in Context /\ c.kv = target.kv \o emitted /\ c.lg = target.kv \o emitted
          /\ c.n = target.n + Len(emitted)
      BY <1>1, <1>3, AppendedText
    <3> QED
      BY <3>1, <3>2
  <2>2. target' = IF commit < Len(emitted) THEN Rewind(c, base + commit) ELSE c
    BY <1>4 DEF Settled, base
  <2>3. base + commit \in Nat \ {0}
    BY <1>1, <1>6
  <2>4. ~lost => target.kv = Committed /\ target.n = Len(target.kv)
    BY <1>1 DEF InStep
  <2> HIDE DEF c
  <2>5. CASE commit < Len(emitted)
    <3>1. target' = Rewind(c, base + commit)
      BY <2>2, <2>5
    <3>2. /\ target' \in Context /\ target'.kv \in Text /\ target'.lg = c.lg /\ target'.n = base + commit
          /\ base + commit <= Len(c.kv) => /\ target'.kv = SubSeq(c.kv, 1, base + commit)
                                           /\ Len(target'.kv) = base + commit
      BY <2>1, <2>3, <3>1, RewoundText
    <3>3. ASSUME ~lost
          PROVE  target'.kv = Committed \o done /\ target'.n = Len(target'.kv)
      <4>1. base + commit <= Len(c.kv) /\ Len(Committed) = base /\ c.kv = Committed \o emitted
        <5>1. Len(Committed) = base /\ base \in Nat /\ commit \in Nat /\ Len(emitted) \in Nat
          BY <1>1, <1>6
        <5>2. target.kv = Committed /\ Len(c.kv) = Len(target.kv) + Len(emitted)
          BY <2>1, <2>4, <3>3
        <5> QED
          BY <2>1, <2>5, <5>1, <5>2
      <4>2. SubSeq(Committed \o emitted, 1, Len(Committed) + commit) = Committed \o SubSeq(emitted, 1, commit)
        <5>1. Committed \in Seq(Token) /\ emitted \in Seq(Token) /\ commit \in 0..Len(emitted)
          BY <1>1, <1>3, <1>5, TextIsText
        <5> QED
          BY <5>1, InitialBeyond
      <4> QED
        BY <3>2, <4>1, <4>2 DEF done
    <3>4. stopped /\ target'.lg \in Text
      BY <1>5, <1>6, <2>1, <2>5, <3>2
    <3> QED
      BY <3>2, <3>3, <3>4
  <2>6. CASE ~(commit < Len(emitted))
    <3>1. target' = c /\ commit = Len(emitted)
      BY <1>5, <1>6, <2>2, <2>6
    <3>2. done = emitted
      BY <1>3, <1>6, <3>1 DEF done
    <3>3. target' \in Context /\ target'.kv \in Text /\ target'.lg = target'.kv
      BY <2>1, <3>1
    <3>4. ASSUME ~lost
          PROVE  target'.kv = Committed \o done /\ target'.n = Len(target'.kv)
      BY <2>1, <2>4, <3>1, <3>2, <3>4
    <3> QED
      BY <3>3, <3>4
  <2> QED
    BY <2>5, <2>6
<1>11. Own'
  <2>1. ASSUME ~lost, NEW j \in 1..Len(kept)
        PROVE  LET before == generated \o SubSeq(kept, 1, j - 1) IN
               kept[j] \in Allowed(transcript \o before, before)
    <3> DEFINE prefix == SubSeq(emitted, 1, j - 1)
               before == generated \o prefix
    <3>1. /\ j \in 1..keep /\ j \in 1..Len(emitted) /\ j - 1 \in 0..keep /\ j - 1 \in 0..Len(emitted)
          /\ kept[j] = emitted[j] /\ SubSeq(kept, 1, j - 1) = prefix
      BY <1>5, <1>6
    <3>2. prefix \in Seq(Token) /\ Upto(emitted, j - 1) = prefix
      BY <1>3, <3>1, Initial
    <3>3. emitted[j] = Best(target.lg \o prefix, {}) /\ emitted[j] \notin Poison(before)
      BY <1>3, <1>5, <3>1, <3>2 DEF Bad
    <3> HIDE DEF prefix
    <3>4. target.lg = transcript \o generated
      BY <1>1, <2>1 DEF InStep
    <3>5. (transcript \o generated) \o prefix = transcript \o before
      BY <1>1, <3>2, TextRegroups
    <3>6. before \in Seq(Token) /\ transcript \o before \in Text
      <4>1. before \in Seq(Token)
        BY <1>1, <3>2, Joined
      <4> HIDE DEF before
      <4> QED
        BY <1>1, <4>1, TextGrows
    <3> HIDE DEF before
    <3>7. emitted[j] = Best(transcript \o before, {})
      BY <3>3, <3>4, <3>5
    <3>8. emitted[j] \in Allowed(transcript \o before, before)
      BY <1>1, <3>3, <3>6, <3>7, Chosen
    <3> QED
      BY <3>1, <3>8 DEF before
  <2>2. transcript \in Seq(Token)
    BY <1>1, TextIsText
  <2> QED
    BY <1>1, <1>4, <1>6, <1>7, <2>1, <2>2, OwnGrows
<1>12. \A i \in 1..(Len(generated) + commit) : CleanAt(generated', i)
  <2>1. ASSUME NEW j \in 1..commit
        PROVE  /\ kept[j] \notin Stop
               /\ kept[j] \notin Poison(generated \o SubSeq(kept, 1, j - 1))
               /\ ~(Steering /\ EditEnds(generated \o SubSeq(kept, 1, j)))
    <3>1. /\ j \in 1..keep /\ j \in 1..Len(emitted) /\ j - 1 \in 0..keep /\ j \in 0..keep
          /\ j - 1 \in 0..Len(emitted) /\ j \in 0..Len(emitted)
      BY <1>5, <1>6
    <3>2. /\ kept[j] = emitted[j] /\ SubSeq(kept, 1, j - 1) = SubSeq(emitted, 1, j - 1)
          /\ SubSeq(kept, 1, j) = SubSeq(emitted, 1, j)
      BY <1>6, <3>1
    <3>3. Upto(emitted, j - 1) = SubSeq(emitted, 1, j - 1) /\ Upto(emitted, j) = SubSeq(emitted, 1, j)
      BY <1>3, <3>1, Initial
    <3>4. j \notin Bad(emitted) /\ j \notin Edit(emitted)
      BY <1>5, <3>1
    <3> QED
      BY <3>1, <3>2, <3>3, <3>4 DEF Bad, Edit
  <2>2. \A i \in 1..Len(generated) : CleanAt(generated, i)
    BY <1>1 DEF Clean
  <2>3. commit \in 0..Len(kept)
    BY <1>6
  <2> QED
    BY <1>1, <1>6, <1>7, <2>1, <2>2, <2>3, CleanGrows
<1>13. /\ pending'.toks = (IF Live THEN SubSeq(emitted, matched + 1, commit) ELSE <<>>)
       /\ pending'.toks \in Seq(Token) /\ pending'.tail = keep - commit /\ pending'.tail \in 0..1
       /\ pending'.next = (IF stopped THEN "idle" ELSE "round")
       /\ pending' \in [toks : Seq(Token), next : {"turn", "round", "idle"}, tail : 0..1]
  <2>1. matched \in 0..Len(emitted) /\ commit \in matched..Len(emitted)
    BY <1>5, <1>6, <1>8
  <2>2. SubSeq(emitted, matched + 1, commit) \in Seq(Token)
    BY <1>3, <2>1, Piece
  <2>3. keep - commit \in 0..1
    BY <1>5, <1>6
  <2> QED
    BY <1>4, <2>2, <2>3
<1>14. /\ draft' \in Context /\ draftNPast' \in Nat /\ (Live => draft'.kv \in Text)
       /\ draftK' \in DraftMin..DraftMax
  <2>1. base + matched \in Nat \ {0}
    BY <1>1, <1>6, <1>8
  <2>2. CASE rollback
    <3>1. Live /\ draft.kv \in Text
      BY <1>1, <2>2 DEF rollback
    <3> QED
      BY <1>1, <1>4, <2>1, <2>2, <3>1, RewoundText, DraftKStays
  <2>3. CASE ~rollback
    BY <1>1, <1>4, <2>3, DraftKStays
  <2> QED
    BY <2>2, <2>3
<1>15. Typed'
  BY <1>1, <1>4, <1>7, <1>10, <1>13, <1>14 DEF Typed, TypeOK, Live
<1>16. Phases'
  <2>1. pending'.tail <= Len(generated') /\ (pending'.next = "round" => pending'.tail = 0)
    <3>1. /\ pending'.tail = keep - commit /\ Len(generated') = Len(generated) + keep
          /\ Len(generated) \in Nat /\ keep \in Nat /\ commit \in Nat
      BY <1>1, <1>6, <1>7, <1>13
    <3>2. pending'.next = "round" => keep = commit
      BY <1>5, <1>13
    <3> QED
      BY <3>1, <3>2
  <2>2. pending'.next # "turn" /\ pc' = "sync" /\ proposal' = <<>> /\ (ready' => attached')
    BY <1>4, <1>13 DEF Phases
  <2>3. Deterministic'
    BY <1>1 DEF Deterministic
  <2> QED
    BY <2>1, <2>2, <2>3 DEF Phases
<1>17. InStep'
  BY <1>4, <1>9, <1>10, <1>13 DEF InStep
<1>18. Clean'
  <2>1. Len(generated') - pending'.tail = Len(generated) + commit
    BY <1>1, <1>6, <1>7, <1>13
  <2> QED
    BY <1>4, <1>12, <2>1 DEF Clean, CleanAt
<1>19. Short'
  <2>1. MaxTokens \in Nat /\ MaxSpec \in Nat /\ Len(proposal') = 0
    BY <1>4
  <2>2. keep <= accepted + 1 /\ accepted <= Len(toks)
    BY <1>2, <1>3, <1>5
  <2>3. Len(generated) + keep <= MaxTokens + Most(MaxSpec, 2)
    <3>1. CASE proposal # <<>>
      <4>1. Len(toks) <= MaxTokens - Len(generated) + 1
        BY <1>2, <3>1
      <4>2. Len(generated) \in Nat /\ keep \in Nat /\ accepted \in Nat /\ Len(toks) \in Nat
        BY <1>1, <1>2, <1>3, <1>6
      <4>3. Len(generated) + keep <= MaxTokens + 2
        BY <2>1, <2>2, <4>1, <4>2
      <4> QED
        BY <2>1, <4>2, <4>3 DEF Most
    <3>2. CASE proposal = <<>>
      <4>1. Len(toks) <= MaxSpec /\ Len(generated) < MaxTokens
        BY <1>1, <1>2, <3>2
      <4>2. Len(generated) \in Nat /\ keep \in Nat /\ accepted \in Nat /\ Len(toks) \in Nat
        BY <1>1, <1>2, <1>3, <1>6
      <4>3. Len(generated) + keep <= MaxTokens + MaxSpec
        BY <2>1, <2>2, <4>1, <4>2
      <4> QED
        BY <2>1, <4>2, <4>3 DEF Most
    <3> QED
      BY <3>1, <3>2
  <2> QED
    BY <1>4, <1>7, <2>3 DEF Short
<1>20. Shadow'
  <2> SUFFICES ASSUME SameTokens, ~lost, Live
               PROVE  /\ draft'.n = Len(draft'.kv)
                      /\ draft'.kv \o pending'.toks = Committed \o done
                      /\ draftNPast' = Len(draft'.kv)
                      /\ stopped \/ pending'.toks # <<>>
    <3>1. Drafted' = Committed \o done
      BY <1>4, <1>9, TextGrows DEF Drafted
    <3> QED
      BY <1>4, <1>13, <3>1 DEF Shadow, Live, Deterministic
  <2> DEFINE agreed == SubSeq(proposal, 1, matched)
  <2>1. /\ draft.kv \in Text /\ draft.n = Len(draft.kv) /\ draft.kv = Committed \o proposal
        /\ draftNPast = Len(draft.kv) /\ Len(draft.kv) = base + Len(proposal)
    BY <1>1, ShadowInRound
  <2>2. /\ agreed \in Seq(Token) /\ Len(agreed) = matched
        /\ matched = Len(proposal) => agreed = proposal
    <3>1. matched \in 0..Len(proposal)
      BY <1>2, <1>8
    <3> QED
      BY <1>2, <3>1, Initial
  <2>3. agreed = SubSeq(emitted, 1, matched)
    <3>1. CASE proposal = <<>>
      <4>1. matched = 0
        BY <1>2, <1>8, <3>1
      <4>2. 0 \in 0..Len(proposal) /\ 0 \in 0..Len(emitted)
        BY <1>2, <1>6
      <4> QED
        BY <1>2, <1>3, <4>1, <4>2, Initial
    <3>2. CASE proposal # <<>>
      <4>1. matched \in 0..accepted /\ toks = proposal
        BY <1>2, <1>3, <1>8, <3>2
      <4>2. \A n \in 0..accepted : SubSeq(emitted, 1, n) = SubSeq(toks, 1, n)
        BY <1>3
      <4> QED
        BY <4>1, <4>2
    <3> QED
      BY <3>1, <3>2
  <2>4. /\ draft'.kv = Committed \o agreed /\ draft'.n = base + matched
        /\ draftNPast' = base + matched /\ Len(draft'.kv) = base + matched
    <3>1. CASE Len(proposal) > matched
      <4>1. /\ rollback /\ base + matched \in Nat \ {0} /\ base + matched <= Len(draft.kv)
        <5>1. matched \in Nat /\ base \in Nat \ {0} /\ Len(proposal) \in Nat
          BY <1>1, <1>2, <1>6, <1>8
        <5>2. draftNPast = base + Len(proposal) /\ Len(draft.kv) = base + Len(proposal)
          BY <2>1
        <5>3. draftNPast > base + matched
          BY <3>1, <5>1, <5>2
        <5> QED
          BY <3>1, <5>1, <5>2, <5>3 DEF rollback
      <4>2. draft' = Rewind(draft, base + matched) /\ draftNPast' = base + matched
        BY <1>4, <4>1
      <4>3. /\ draft'.kv = SubSeq(draft.kv, 1, base + matched) /\ draft'.n = base + matched
            /\ Len(draft'.kv) = base + matched
        BY <1>1, <2>1, <4>1, <4>2, RewoundText
      <4>4. SubSeq(Committed \o proposal, 1, Len(Committed) + matched) = Committed \o agreed
        <5>1. Committed \in Seq(Token) /\ proposal \in Seq(Token) /\ matched \in 0..Len(proposal)
          BY <1>1, <1>2, <1>8, TextIsText
        <5> QED
          BY <5>1, InitialBeyond
      <4> QED
        BY <1>1, <2>1, <4>2, <4>3, <4>4
    <3>2. CASE ~(Len(proposal) > matched)
      <4>1. matched = Len(proposal) /\ agreed = proposal
        BY <1>2, <1>8, <2>2, <3>2
      <4>2. ~rollback
        BY <1>1, <2>1, <4>1 DEF rollback
      <4> QED
        BY <1>4, <2>1, <4>1, <4>2
    <3> QED
      BY <3>1, <3>2
  <2>5. /\ agreed \o pending'.toks = done
        /\ ~stopped => pending'.toks # <<>>
    <3>1. matched \in 0..Len(emitted) /\ commit \in matched..Len(emitted)
      BY <1>5, <1>6, <1>8
    <3>2. pending'.toks = SubSeq(emitted, matched + 1, commit)
      BY <1>13
    <3>3. /\ Len(SubSeq(emitted, matched + 1, commit)) = commit - matched
          /\ SubSeq(emitted, 1, matched) \o SubSeq(emitted, matched + 1, commit)
               = SubSeq(emitted, 1, commit)
      BY <1>3, <3>1, Piece
    <3>4. ~stopped => commit - matched > 0
      BY <1>3, <1>5, <1>8
    <3>5. \A s : s = <<>> => Len(s) = 0
      OBVIOUS
    <3>6. ~stopped => pending'.toks # <<>>
      <4>1. Len(pending'.toks) = commit - matched
        BY <3>2, <3>3
      <4> QED
        BY <3>4, <3>5, <4>1
    <3>7. agreed \o pending'.toks = SubSeq(emitted, 1, matched) \o SubSeq(emitted, matched + 1, commit)
      BY <2>3, <3>2
    <3> HIDE DEF agreed
    <3> QED
      BY <3>2, <3>3, <3>6, <3>7 DEF done
  <2>6. (Committed \o agreed) \o pending'.toks = Committed \o (agreed \o pending'.toks)
    BY <1>1, <1>13, <2>2, TextRegroups
  <2> QED
    BY <2>4, <2>5, <2>6
<1> QED
  BY <1>11, <1>15, <1>16, <1>17, <1>18, <1>19, <1>20

----------------------------------------------------------------------------
(* The invariant *)

(* The invariant holds when start() is over.                               *)
LEMMA InitHolds ==
  ASSUME Setting, Init
  PROVE  Inv
<1> USE DraftAssumption DEF Init
<1>1. PICK p \in Prompt :
        /\ target = Forward(p) /\ transcript = p /\ attached \in BOOLEAN
        /\ \/ ready = FALSE /\ draft = Fresh /\ draftNPast = 0
           \/ /\ attached /\ ShadowHasRoom(Len(p))
              /\ ready = TRUE /\ draft = Forward(p) /\ draftNPast = Len(p)
  OBVIOUS
<1>2. p \in Text /\ p \in Seq(Token) /\ Len(p) \in Nat
  BY TextIsText DEF Text
<1>3. /\ target \in Context /\ target.kv = p /\ target.lg = p /\ target.n = Len(p)
      /\ Forward(p) \in Context /\ Forward(p).kv = p /\ Forward(p).lg = p /\ Forward(p).n = Len(p)
  BY <1>1, <1>2, ForwardText
<1>4. Fresh \in Context
  BY DEF Fresh, Context
<1>5. /\ draft \in Context /\ draftNPast \in Nat /\ ready \in BOOLEAN /\ (ready => attached)
      /\ ready => draft.kv = p /\ draft.lg = p /\ draft.n = Len(p) /\ draftNPast = Len(p)
  <2>1. CASE ready = FALSE /\ draft = Fresh /\ draftNPast = 0
    <3>1. ~ready
      BY <2>1
    <3> QED
      BY ONLY <2>1, <3>1, <1>4
  <2>2. CASE attached /\ ready = TRUE /\ draft = Forward(p) /\ draftNPast = Len(p)
    <3>1. ready /\ attached
      BY <2>2
    <3> QED
      BY ONLY <2>2, <3>1, <1>2, <1>3
  <2> QED
    BY ONLY <1>1, <2>1, <2>2
<1>6. pending \in [toks : Seq(Token), next : {"turn", "round", "idle"}, tail : 0..1]
  BY DEF NoPending
<1>7. Typed
  <2>1. draftK \in DraftMin..DraftMax /\ pc = "sync"
    BY DEF Init
  <2>2. generated \in Seq(Token) /\ proposal \in Seq(Token \ Stop)
    BY DEF Init
  <2>3. attached \in BOOLEAN /\ lost \in BOOLEAN
    BY <1>1
  <2>4. TypeOK
    BY ONLY <2>1, <2>2, <2>3, <1>1, <1>2, <1>3, <1>5, <1>6 DEF TypeOK
  <2> QED
    BY ONLY <2>4, <1>1, <1>2, <1>3, <1>5 DEF Typed, Live
<1>8. Phases
  BY <1>5 DEF Phases, NoPending
<1>9. Committed = p
  <2>1. Undecoded = 0 /\ generated = <<>> /\ generated \in Seq(Token)
    BY DEF Undecoded, NoPending
  <2> QED
    BY <1>1, <1>2, <2>1, Counting DEF Committed
<1>10. InStep
  BY <1>3, <1>9 DEF InStep
<1>11. Own /\ Clean /\ Short
  BY DEF Own, Clean, Short, Most, NoPending
<1>12. Shadow
  BY <1>2, <1>5, <1>9, TextGrows DEF Shadow, Drafted, Live, NoPending
<1> QED
  BY <1>7, <1>8, <1>10, <1>11, <1>12 DEF Inv, TurnInv

(* It holds when nothing happens.                                          *)
LEMMA StutterKeeps ==
  ASSUME Inv, UNCHANGED vars
  PROVE  Inv'
<1> USE DEF vars, Inv, TurnInv
<1>1. Typed' /\ Phases'
  BY DEF Typed, TypeOK, Phases, Live, Deterministic
<1>2. InStep'
  BY DEF InStep, Committed, Undecoded
<1>3. Own' /\ Clean' /\ Short'
  BY DEF Own, Allowed, Clean, CleanAt, Short
<1>4. Shadow'
  BY DEF Shadow, Drafted, Committed, Undecoded, Live, Deterministic
<1> QED
  BY <1>1, <1>2, <1>3, <1>4

(* Every step of the host and of the loops keeps it.                       *)
LEMMA NextKeeps ==
  ASSUME Setting, Inv, Next
  PROVE  Inv'
<1>1. CASE (\E toks \in Input : BeginTurn(toks) \/ BeginTurnOverflows(toks)) /\ lost' = lost
  BY <1>1, BeginTurnKeeps, BeginTurnOverflowsKeeps
<1>2. CASE (Detach \/ Attach) /\ lost' = lost
  BY <1>2, DetachKeeps, AttachKeeps
<1>3. CASE Kept /\ lost' = lost
  <2>1. CASE Sync \/ PlainEnds \/ PlainStep \/ PlainStepOverflows \/ RoundsEnd \/ StartRound
    BY <1>3, <2>1, SyncKeeps, PlainEndsKeeps, PlainStepKeeps, PlainStepOverflowsKeeps,
       RoundsEndKeeps, StartRoundKeeps
  <2>2. CASE (\E t \in Token : DraftToken(t)) \/ DraftEnds \/ DraftThrows
    BY <1>3, <2>2, DraftTokenKeeps, DraftEndsKeeps, DraftThrowsKeeps
  <2>3. CASE PlainRound \/ PlainRoundFails \/ PlainRoundOverflows
    BY <1>3, <2>3, PlainRoundKeeps, PlainRoundFailsKeeps, PlainRoundOverflowsKeeps
  <2>4. CASE \E toks \in Drafts : VerifyThrows(toks)
    BY <1>3, <2>4, VerifyThrowsKeeps
  <2>5. CASE \E toks \in Drafts : \E accepted \in 0..Len(toks), t \in Token :
               VerifyRound(toks, accepted, t)
    BY <1>3, <2>5, VerifyRoundKeeps
  <2> QED
    BY <1>3, <2>1, <2>2, <2>3, <2>4, <2>5 DEF Kept
<1>4. CASE Lost /\ lost' = TRUE
  <2>1. CASE PlainStepFails
    BY <1>4, <2>1, PlainStepFailsKeeps
  <2>2. CASE \E toks \in Drafts : \E accepted \in 0..Len(toks) : CorrectionThrows(toks, accepted)
    <3>1. \A toks \in Drafts : toks \in Seq(Token)
      BY DraftTypes DEF Inv, TurnInv
    <3> QED
      BY <1>4, <2>2, <3>1, CorrectionThrowsKeeps
  <2> QED
    BY <1>4, <2>1, <2>2 DEF Lost
<1> QED
  BY <1>1, <1>2, <1>3, <1>4 DEF Next, LoopStep

(* What is inductive, and what the theorems below follow from.             *)
THEOREM Invariant ==
  ASSUME Setting
  PROVE  Spec => []Inv
<1>1. Init => Inv
  BY InitHolds
<1>2. Inv /\ [Next]_vars => Inv'
  BY NextKeeps, StutterKeeps
<1> QED
  BY <1>1, <1>2, PTL DEF Spec

(* Every variable has its type.                                             *)
THEOREM TypeCorrect ==
  ASSUME Setting
  PROVE  Spec => []TypeOK
<1>1. Inv => TypeOK
  BY DEF Inv, TurnInv, Typed
<1> QED
  BY <1>1, Invariant, PTL

(* Between turns the target's cells and position counter are the            *)
(* transcript's, unless one of the two failures was met.                    *)
THEOREM Mirrored ==
  ASSUME Setting
  PROVE  Spec => []Mirror
<1>1. Inv => Mirror
  <2> SUFFICES ASSUME Inv, pc = "idle", ~lost
               PROVE  target.kv = transcript /\ target.n = NPast
    BY DEF Mirror
  <2>1. Undecoded = 0 /\ generated = <<>> /\ Typed
    BY DEF Undecoded, Inv, TurnInv, Phases
  <2>2. Committed = transcript
    BY <2>1, AllCommitted
  <2> QED
    BY <2>2 DEF Inv, TurnInv, InStep, NPast
<1> QED
  BY <1>1, Invariant, PTL

(* Steered: whatever is drafted, rejected or rolled back, what was          *)
(* generated is what the target would have chosen alone, token by token,    *)
(* unless one of the two failures was met.                                  *)
THEOREM SameText ==
  ASSUME Setting, Steering
  PROVE  Spec => [](~lost => OwnOutput)
<1>1. Inv => (~lost => OwnOutput)
  BY DEF Inv, TurnInv, Own, Allowed, OwnOutput
<1> QED
  BY <1>1, Invariant, PTL

(* Without steering: every token is one that the plain loop could have      *)
(* picked after the ones before it, and a turn is at most the last round's  *)
(* surplus longer than maxTokens.                                           *)
THEOREM PlainText ==
  ASSUME Setting, ~Steering
  PROVE  Spec => []PlainOutput
<1>1. Inv => PlainOutput
  BY DEF Inv, TurnInv, Own, Allowed, Short, PlainOutput
<1> QED
  BY <1>1, Invariant, PTL

(* At the start of a round a live drafter has seen what the target has, and *)
(* its logits are those of its last cell, where tokenizing a text again     *)
(* gives the tokens it came from.                                           *)
THEOREM Aligned ==
  ASSUME Setting, SameTokens
  PROVE  Spec => [](~lost => ShadowAligned)
<1>1. Inv => (~lost => ShadowAligned)
  <2> SUFFICES ASSUME Inv, ~lost, pc = "round", attached, ready
               PROVE  /\ draft.kv = target.kv /\ LogitsValid(draft)
                      /\ draftNPast = Len(draft.kv) /\ draft.n = draftNPast
    BY DEF ShadowAligned
  <2>1. /\ draft.kv \in Text /\ draft.n = Len(draft.kv) /\ draft.kv = Committed \o proposal
        /\ draftNPast = Len(draft.kv) /\ draft.lg = draft.kv
    BY ShadowInRound DEF Live
  <2>2. target.kv = Committed /\ target.kv \in Text /\ proposal = <<>>
    BY DEF Inv, TurnInv, InStep, Typed, Phases
  <2>3. Committed \o proposal = target.kv
    BY <2>2, TextGrows
  <2> QED
    BY <2>1, <2>3 DEF LogitsValid, Text
<1> QED
  BY <1>1, Invariant, PTL

----------------------------------------------------------------------------
(* What a turn leaves in the context *)

(* How much of what was generated the end of a turn may commit.             *)
Decoded == Len(generated) - (IF pc = "sync" THEN pending.tail ELSE 0)

(* Whatever ends a turn commits a beginning of what was generated, without *)
(* what was never decoded.                                                 *)
LEMMA WhatEndsCommits ==
  ASSUME Setting, Inv, [Next]_vars, pc # "idle", pc' = "idle"
  PROVE  \E n \in 0..Decoded : transcript' = transcript \o SubSeq(generated, 1, n)
<1>1. /\ transcript \in Text /\ generated \in Seq(Token) /\ Len(generated) \in Nat
      /\ pending.tail \in 0..1 /\ pending.tail <= Len(generated)
      /\ target.lg \in Text
  BY DEF Inv, TurnInv, Typed, TypeOK, Phases
<1>2. ASSUME NEW tail \in 0..Len(generated), EndTurn(generated, tail),
             pc = "sync" => tail = pending.tail
      PROVE  \E n \in 0..Decoded : transcript' = transcript \o SubSeq(generated, 1, n)
  <2>1. Len(generated) - tail \in 0..Decoded
    BY <1>1, <1>2 DEF Decoded
  <2> QED
    BY <2>1, <1>2 DEF EndTurn
<1>3. ASSUME EndTurn(generated, 0), pc # "sync"
      PROVE  \E n \in 0..Decoded : transcript' = transcript \o SubSeq(generated, 1, n)
  BY <1>1, <1>2, <1>3
<1>4. ASSUME NEW t \in Token, EndTurn(Append(generated, t), 1), pc # "sync"
      PROVE  \E n \in 0..Decoded : transcript' = transcript \o SubSeq(generated, 1, n)
  <2>1. /\ Len(Append(generated, t)) - 1 = Len(generated)
        /\ SubSeq(Append(generated, t), 1, Len(generated)) = SubSeq(generated, 1, Len(generated))
    BY <1>1, OneMore
  <2>2. Len(generated) \in 0..Decoded
    BY <1>1, <1>4 DEF Decoded
  <2> QED
    BY <2>1, <2>2, <1>4 DEF EndTurn
<1>5. CASE Sync
  BY <1>1, <1>2, <1>5 DEF Sync
<1>6. CASE PlainEnds
  <2>1. (IF generated = <<>> THEN 0 ELSE 1) \in 0..Len(generated)
    BY <1>1
  <2> QED
    BY <1>2, <1>6, <2>1 DEF PlainEnds
<1>7. CASE PlainStep
  <2>1. pc = "plain" /\ target'.lg \in Text
    BY <1>7, PlainDecodes DEF PlainStep
  <2>2. CASE Steering
    <3> DEFINE t == Best(target'.lg, Poison(generated))
    <3>1. t \in Token
      BY <1>1, <2>1, Chosen
    <3>2. IF Ends(Append(generated, t)) THEN EndTurn(Append(generated, t), 1) ELSE pc' = pc
      BY <1>7, <2>2 DEF PlainStep
    <3> HIDE DEF t
    <3>3. EndTurn(Append(generated, t), 1) /\ pc # "sync"
      BY <2>1, <3>2
    <3> QED
      BY <1>4, <3>1, <3>3
  <2>3. CASE ~Steering
    <3>1. EndTurn(generated, 0) /\ pc # "sync"
      BY <1>7, <2>1, <2>3 DEF PlainStep
    <3> QED
      BY <1>3, <3>1
  <2> QED
    BY <2>2, <2>3
<1>8. CASE PlainStepFails
  <2>1. transcript' = transcript /\ pc = "plain"
    BY <1>8 DEF PlainStepFails
  <2>2. SubSeq(generated, 1, 0) = <<>> /\ 0 \in 0..Decoded
    BY <1>1, <2>1 DEF Decoded
  <2>3. transcript \o <<>> = transcript
    BY <1>1, TextGrows
  <2> QED
    BY <2>1, <2>2, <2>3
<1>9. CASE RoundsEnd \/ PlainRoundFails \/ PlainRoundOverflows
  BY <1>3, <1>9 DEF RoundsEnd, PlainRoundFails, PlainRoundOverflows, GiveUpRound
<1>10. CASE PlainRound
  <2> DEFINE t == Predicted(generated)
  <2>1. t \in Token
    BY <1>1, Chosen DEF Predicted
  <2>2. /\ pc = "verify"
        /\ \/ IF Steering THEN EndTurn(Append(generated, t), 1) ELSE EndTurn(generated, 0)
           \/ pc' = "sync"
    BY <1>10 DEF PlainRound
  <2> HIDE DEF t
  <2>3. pc # "sync" /\ (EndTurn(Append(generated, t), 1) \/ EndTurn(generated, 0))
    BY <2>2
  <2> QED
    BY <1>3, <1>4, <2>1, <2>3
<1>11. CASE \E toks \in Drafts : VerifyThrows(toks) \/ \E accepted \in 0..Len(toks) : CorrectionThrows(toks, accepted)
  <2>1. EndTurn(generated, 0) /\ pc # "sync"
    BY <1>11 DEF VerifyThrows, CorrectionThrows, GiveUpRound
  <2> QED
    BY <1>3, <2>1
<1>12. CASE UNCHANGED vars
  BY <1>12 DEF vars
<1>13. CASE \E toks \in Input : BeginTurn(toks) \/ BeginTurnOverflows(toks)
  BY <1>13 DEF BeginTurn, BeginTurnOverflows
<1>14. CASE Detach \/ Attach
  BY <1>14 DEF Detach, Attach
<1>15. CASE PlainStepOverflows \/ StartRound \/ DraftEnds \/ DraftThrows
  BY <1>15 DEF PlainStepOverflows, StartRound, DraftEnds, DraftThrows
<1>16. CASE \E t \in Token : DraftToken(t)
  BY <1>16 DEF DraftToken
<1>17. CASE \E toks \in Drafts : \E accepted \in 0..Len(toks), t \in Token :
              VerifyRound(toks, accepted, t)
  BY <1>17 DEF VerifyRound
<1> QED
  BY <1>5, <1>6, <1>7, <1>8, <1>9, <1>10, <1>11, <1>12, <1>13, <1>14, <1>15, <1>16, <1>17
     DEF Next, LoopStep, Kept, Lost

(* Neither a stop token nor poison, nor an edit's closing token, enters the *)
(* context when a turn ends, even from a batch that was already decoded.    *)
THEOREM CommitsClean ==
  ASSUME Setting
  PROVE  Spec => CleanCommit
<1> DEFINE New == SubSeq(transcript', NPast + 1, Len(transcript'))
           Step == pc # "idle" /\ pc' = "idle" =>
                     \A i \in 1..Len(New) : /\ New[i] \notin Stop
                                            /\ New[i] \notin Poison(SubSeq(New, 1, i - 1))
                                            /\ ~(Steering /\ EditEnds(SubSeq(New, 1, i)))
<1>1. Inv /\ [Next]_vars => Step
  <2> SUFFICES ASSUME Inv, [Next]_vars, pc # "idle", pc' = "idle", NEW i \in 1..Len(New)
               PROVE  CleanAt(New, i)
    BY DEF CleanAt
  <2>1. PICK n \in 0..Decoded : transcript' = transcript \o SubSeq(generated, 1, n)
    BY WhatEndsCommits
  <2>2. /\ transcript \in Seq(Token) /\ generated \in Seq(Token) /\ Len(generated) \in Nat
        /\ pending.tail \in 0..1 /\ pending.tail <= Len(generated)
    BY DEF Inv, TurnInv, Typed, TypeOK, Phases
  <2>3. n \in 0..Len(generated) /\ n <= Decoded
    BY <2>1, <2>2 DEF Decoded
  <2> DEFINE out == SubSeq(generated, 1, n)
  <2>4. /\ out \in Seq(Token) /\ Len(out) = n
        /\ \A j \in 1..n : out[j] = generated[j]
        /\ \A m \in 0..n : SubSeq(out, 1, m) = SubSeq(generated, 1, m)
    BY <2>2, <2>3, Initial
  <2>5. New = out
    BY <2>1, <2>2, <2>4, InitialOfJoined DEF NPast
  <2> HIDE DEF New, out
  <2>6. i \in 1..n /\ i - 1 \in 0..n /\ i \in 0..n
    BY <2>3, <2>4, <2>5
  <2>7. CleanAt(generated, i)
    <3>1. i \in 1..Decoded
      BY <2>2, <2>3, <2>6 DEF Decoded
    <3> QED
      BY <3>1 DEF Inv, TurnInv, Clean, Decoded
  <2> QED
    BY <2>4, <2>5, <2>6, <2>7 DEF CleanAt
<1> QED
  BY <1>1, Invariant, PTL DEF Spec, CleanCommit

============================================================================
