---------------------------- MODULE MCDecodeLoop ----------------------------
(* Two ordinary tokens, a stop token, one that closes an edit and one that  *)
(* steering refuses.  The target's choice depends on the length of the      *)
(* context and on its last token, so that every prompt leads elsewhere.     *)
EXTENDS DecodeLoop

CONSTANTS a, b, eot, close, poison

MCToken == {a, b, eot, close, poison}
MCStop == {eot}
MCPrompt == {<<a>>, <<b, a>>}
MCInput == {<<b>>}

Ranking == <<close, a, b, poison, eot, b, a>>
Rank(t) == Min({i \in 1..7 : Ranking[i] = t})
MCBest(ctx, masked) ==
  LET start == Len(ctx) + 2 * Rank(Last(ctx))
      at(i) == Ranking[((start + i) % 7) + 1]
  IN  at(Min({i \in 0..6 : at(i) \notin masked}))

(* The same with a stop token and no others; one prompt never leads to it.  *)
MCFew == {a, b, eot}
MCBestFew(ctx, masked) ==
  IF Len(ctx) % 4 = 0 /\ Head(ctx) = b THEN eot
  ELSE IF Len(ctx) % 2 = 0 THEN a ELSE b

MCPoisonous(out, t) == t = poison
MCEditEnds(out) == Last(out) = close /\ \E i \in 1..Len(out) : out[i] = b

(* Tokenizing the text again gives the same tokens, or fuses a with b.      *)
MCSame(toks) == toks
MCFused(toks) ==
  FoldLeft(LAMBDA out, t : IF out # <<>> /\ Last(out) = a /\ t = b
                           THEN Append(Front(out), b) ELSE Append(out, t),
           <<>>, toks)

(* Greedy sampling.                                                         *)
MCGreedy(ctx, out) == {Best(ctx, {})}

(* The instances are of the kind the proofs are about.                      *)
Sequences(least, most) == UNION {[1..n -> Token] : n \in least..most}
ASSUME SamplerAssumption == Sampler(Sequences(1, 3), Sequences(0, 2))

============================================================================
