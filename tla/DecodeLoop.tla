----------------------------- MODULE DecodeLoop -----------------------------
(***************************************************************************)
(* The generation of a turn: decodeLoop() and decodeLoopSuffixSpec() of    *)
(* encode/src/agentLoop.ts, the drafter's shadow context they keep in step *)
(* with the target, and mtpVerifyBatch() of the native binding.            *)
(*                                                                         *)
(* The target's next token is a function of the tokens before it (Best);   *)
(* what the drafter or the suffix trie proposes is arbitrary.  Every await *)
(* is a step: between two of them the host may take the drafter away       *)
(* (detachDraftModel) or ask for a stop (shouldStop).                      *)
(*                                                                         *)
(* nPast and transcript are updated together everywhere in the loop, so    *)
(* one variable stands for both: the tokens whose text is the transcript   *)
(* and whose number is nPast.                                              *)
(***************************************************************************)
EXTENDS LlamaContext, FiniteSets, SequencesExt, FiniteSetsExt

CONSTANTS
  Token,
  Prompt,            \* tokens of the prompts start() prefills
  Input,             \* tokens of the tool results and follow-ups appended later
  Best(_, _),        \* argmax of the logits after some tokens, leaving some out
  Pick(_, _),        \* plain loop only: tokens that may follow, after sampling;
                     \*   see Sampler for forceToolCallTagClose()
  Stop,              \* eotTokenIds
  Poisonous(_, _),   \* steering: the token must not follow the generated ones
  EditEnds(_),       \* steering: the generated tokens complete an edit
  Retokenize(_),     \* tokenize(detokenize(.))
  Steering, Suffix,  \* useSteering, useSuffixSpeculation
  Greedy,            \* temperature is 0
  MaxTokens,         \* maxTokens of one turn
  MaxSpec,           \* suffixMaxSpec
  DraftMin, DraftInit, DraftMax,   \* draftMinK, draftInitK, draftMaxK
  TargetCtx, DraftCtx,             \* contextSize of the two models
  Headroom,          \* what the caller keeps free for a turn (its compaction
                     \*   threshold); 0 for a caller that does not
  Faults             \* which native calls may return a status other than 0

ASSUME ModeAssumption == {Steering, Suffix, Greedy} \subseteq BOOLEAN
ASSUME TokenAssumption == Stop \subseteq Token /\ Hole \notin Token
ASSUME TextAssumption == Prompt \cup Input \subseteq Seq(Token) \ {<<>>}
ASSUME DraftAssumption ==
  /\ {DraftMin, DraftInit, DraftMax, MaxTokens, MaxSpec} \subseteq Nat \ {0}
  /\ Headroom \in Nat /\ Headroom <= TargetCtx /\ {TargetCtx, DraftCtx} \subseteq Nat
  /\ DraftMin <= DraftInit /\ DraftInit <= DraftMax

VARIABLES
  target,      \* the target's context
  draft,       \* the drafter's shadow context
  attached,    \* draftModel # null
  ready,       \* draftReady
  draftNPast,
  draftK,      \* adaptive number of tokens to draft
  transcript,  \* tokens of this.transcript; their number is this.nPast
  pc,          \* "idle" between turns, "sync" in draftAppend(), "round",
               \*   "draft", "verify", "plain"; "over" once an error escaped
  generated,
  proposal,    \* tokens the drafter has decoded this round
  pending,     \* draftAppend() in progress: its tokens, and what follows
  lost         \* a failed decode has left cells that nPast does not count
               \*   (history, not in the code)

loopVars == <<transcript, generated>>
draftVars == <<draft, attached, ready, draftNPast, draftK>>
vars == <<target, draft, attached, ready, draftNPast, draftK, transcript,
          pc, generated, proposal, pending, lost>>

Context == [kv : Seq(Token \cup {Hole}), n : Nat, lg : Seq(Token \cup {Hole})]

TypeOK ==
  /\ target \in Context /\ draft \in Context
  /\ attached \in BOOLEAN /\ ready \in BOOLEAN
  /\ draftNPast \in Nat /\ draftK \in DraftMin..DraftMax
  /\ transcript \in Seq(Token) /\ generated \in Seq(Token)
  /\ pc \in {"idle", "sync", "round", "draft", "verify", "plain", "over"}
  /\ proposal \in Seq(Token \ Stop)
  /\ pending \in [toks : Seq(Token), next : {"turn", "round", "idle"}, tail : 0..1]
  /\ lost \in BOOLEAN

Least(a, b) == IF a <= b THEN a ELSE b
Most(a, b) == IF a >= b THEN a ELSE b

NPast == Len(transcript)

(* draftPrefill(), draftAppend(): the drafter's context keeps room for the  *)
(* longest draft behind n tokens.                                           *)
ShadowHasRoom(n) == n + DraftMax < DraftCtx

NoPending == [toks |-> <<>>, next |-> "turn", tail |-> 0]

----------------------------------------------------------------------------
(* Start and end of a turn *)

(* After start(): the target holds the prompt, and so does a live drafter.  *)
Init ==
  /\ \E p \in Prompt :
       /\ target = Forward(p)
       /\ transcript = p
       /\ attached \in BOOLEAN
       /\ \/ ready = FALSE /\ draft = Fresh /\ draftNPast = 0
          \/ /\ attached /\ ShadowHasRoom(Len(p))
             /\ ready = TRUE /\ draft = Forward(p) /\ draftNPast = Len(p)
  /\ draftK = DraftInit
  /\ pc = "sync" /\ pending = NoPending
  /\ generated = <<>> /\ proposal = <<>>
  /\ lost = FALSE

(* The end of decodeLoop(): nPast and transcript take what was generated,   *)
(* but for the tail that never reached the KV.                              *)
EndTurn(out, tail) ==
  /\ transcript' = transcript \o SubSeq(out, 1, Len(out) - tail)
  /\ generated' = <<>>
  /\ pc' = "idle"

(* continue() or followUp(): the input is appended to the live KV.          *)
BeginTurn(toks) ==
  /\ pc = "idle" /\ Fits(target, toks, TargetCtx - Headroom)
  /\ Consecutive(target)
  /\ target' = Appended(target, toks)
  /\ transcript' = transcript \o toks
  /\ pending' = [NoPending EXCEPT !.toks = toks]
  /\ pc' = "sync"
  /\ UNCHANGED <<draftVars, generated, proposal>>

(* The caller drops the loop, or decodeAppendAsync() throws.                *)
BeginTurnOverflows(toks) ==
  /\ pc = "idle" /\ ~Fits(target, toks, TargetCtx - Headroom)
  /\ pc' = "over"
  /\ UNCHANGED <<target, draftVars, loopVars, proposal, pending>>

(* draftAppend(): keeps the shadow context in step, or gives drafting up.   *)
Sync ==
  /\ pc = "sync"
  /\ LET toks == pending.toks IN
     \/ /\ toks = <<>> \/ ~ready \/ ~attached
        /\ UNCHANGED <<draft, ready, draftNPast>>
     \/ /\ toks # <<>> /\ ready /\ attached
        /\ ready' = FALSE
        /\ UNCHANGED <<draft, draftNPast>>
     \/ /\ toks # <<>> /\ ready /\ attached
        /\ ShadowHasRoom(draftNPast + Len(toks))
        /\ Consecutive(draft)
        /\ draft' = Appended(draft, toks)
        /\ draftNPast' = draftNPast + Len(toks)
        /\ UNCHANGED ready
  /\ \/ /\ pending.next = "turn"
        /\ pc' = IF (Suffix \/ (attached /\ ready')) /\ (Greedy \/ Steering)
                 THEN "round" ELSE "plain"
        /\ UNCHANGED loopVars
     \/ pending.next = "round" /\ pc' = "round" /\ UNCHANGED loopVars
     \/ pending.next = "idle" /\ EndTurn(generated, pending.tail)
  /\ pending' = NoPending
  /\ UNCHANGED <<target, attached, draftK, proposal>>

----------------------------------------------------------------------------
(* The host *)

(* detachDraftModel(), before the host frees the drafter.                   *)
Detach ==
  /\ attached /\ pc # "over"
  /\ attached' = FALSE /\ ready' = FALSE /\ draftNPast' = 0
  /\ UNCHANGED <<target, draft, draftK, loopVars, pc, proposal, pending>>

(* attachDraftModel(): a new drafter reads the transcript's text, unless    *)
(* draftPrefill() finds it too long or fails.                               *)
Attach ==
  /\ ~attached /\ pc = "idle"
  /\ attached' = TRUE /\ draftK' = DraftInit
  /\ LET toks == Retokenize(transcript) IN
     \/ ready' = FALSE /\ UNCHANGED <<draft, draftNPast>>
     \/ /\ ShadowHasRoom(Len(toks))
        /\ ready' = TRUE /\ draft' = Forward(toks) /\ draftNPast' = Len(toks)
  /\ UNCHANGED <<target, loopVars, pc, proposal, pending>>

----------------------------------------------------------------------------
(* Sampling *)

(* Every poisonous token is masked.  sample() masks at most 20 (MAX_REJECTS) *)
(* and then takes the next best, whatever it is: texts whose 21 best tokens *)
(* are all poisonous are outside the model.                                 *)
Poison(out) == IF Steering THEN {t \in Token : Poisonous(out, t)} ELSE {}

(* What the target says comes next, by the logits it holds.                 *)
Predicted(out) == Best(target.lg, Poison(out))

(* Has the turn ended with the last of these generated tokens?              *)
Ends(out) == Last(out) \in Stop \/ (Steering /\ EditEnds(out))

(* What the loops rely on, of contexts C and generated tokens O: an argmax  *)
(* over the tokens that are not masked, which steering leaves some of; a    *)
(* temperature of 0 picks it, which leaves out the tag that the plain loop, *)
(* and no other, repairs (forceToolCallTagClose()); a text has tokens.      *)
Sampler(C, O) ==
  /\ \A s \in C : Best(s, {}) \in Token /\ Retokenize(s) \in C
  /\ \A s \in C, out \in O :
       /\ Pick(s, out) \subseteq Token
       /\ Best(s, Poison(out)) \in Token \ Poison(out)
       /\ Best(s, {}) \notin Poison(out) => Best(s, Poison(out)) = Best(s, {})
       /\ Greedy /\ ~Steering => Best(s, {}) \in Pick(s, out)

----------------------------------------------------------------------------
(* The plain loop *)

(* maxTokens reached, or shouldStop() between two tokens: the last token    *)
(* pushed was never decoded.                                                *)
PlainEnds ==
  /\ pc = "plain"
  /\ EndTurn(generated, IF generated = <<>> THEN 0 ELSE 1)
  /\ UNCHANGED <<target, draftVars, proposal, pending>>

(* The token pushed last is decoded, then the next one is sampled.          *)
PlainStep ==
  /\ pc = "plain" /\ Len(generated) < MaxTokens
  /\ IF generated = <<>> THEN UNCHANGED target
     ELSE /\ Fits(target, <<Last(generated)>>, TargetCtx) /\ Consecutive(target)
          /\ target' = Appended(target, <<Last(generated)>>)
  /\ IF Steering
     THEN LET out == Append(generated, Best(target'.lg, Poison(generated))) IN
          IF Ends(out) THEN EndTurn(out, 1)
                       ELSE generated' = out /\ UNCHANGED <<transcript, pc>>
     ELSE \E t \in Pick(target'.lg, generated) :
            IF t \in Stop THEN EndTurn(generated, 0)
                          ELSE /\ generated' = Append(generated, t)
                               /\ UNCHANGED <<transcript, pc>>
  /\ UNCHANGED <<draftVars, proposal, pending>>

(* A status other than 0: `return emptyStep(...)`.                          *)
PlainStepFails ==
  /\ "plain" \in Faults
  /\ pc = "plain" /\ generated # <<>> /\ Len(generated) < MaxTokens
  /\ pc' = "idle" /\ generated' = <<>>
  /\ UNCHANGED <<target, draftVars, transcript, proposal, pending>>

(* decodeAppendAsync() throws: nothing in decodeLoop() catches it.          *)
PlainStepOverflows ==
  /\ pc = "plain" /\ generated # <<>> /\ Len(generated) < MaxTokens
  /\ ~Fits(target, <<Last(generated)>>, TargetCtx)
  /\ pc' = "over"
  /\ UNCHANGED <<target, draftVars, loopVars, proposal, pending>>

----------------------------------------------------------------------------
(* The speculative loop: the drafter's part of a round *)

(* maxTokens reached, or shouldStop() between two rounds.                   *)
RoundsEnd ==
  /\ pc = "round"
  /\ EndTurn(generated, 0)
  /\ UNCHANGED <<target, draftVars, proposal, pending>>

StartRound ==
  /\ pc = "round" /\ Len(generated) < MaxTokens
  /\ pc' = IF attached /\ ready THEN "draft" ELSE "verify"
  /\ proposal' = <<>>
  /\ UNCHANGED <<target, draftVars, loopVars, pending>>

DraftCap == Least(draftK, MaxTokens - Len(generated) + 1)

(* Mutant of DraftToken: a stop token is drafted like any other.            *)
DraftTokenPastStop(t) ==
  /\ pc = "draft" /\ attached
  /\ Len(proposal) < DraftCap
  /\ Fits(draft, <<t>>, DraftCtx) /\ Consecutive(draft)
  /\ draft' = Appended(draft, <<t>>)
  /\ proposal' = Append(proposal, t)
  /\ UNCHANGED <<target, attached, ready, draftNPast, draftK, loopVars, pc, pending>>

(* The drafter's greedy token is decoded on the shadow context.             *)
DraftToken(t) ==
  /\ pc = "draft" /\ attached
  /\ Len(proposal) < DraftCap /\ t \notin Stop
  /\ Fits(draft, <<t>>, DraftCtx) /\ Consecutive(draft)
  /\ draft' = Appended(draft, <<t>>)
  /\ proposal' = Append(proposal, t)
  /\ UNCHANGED <<target, attached, ready, draftNPast, draftK, loopVars, pc, pending>>

(* Enough, a stop token, or a status other than 0 (drafting is given up).   *)
DraftEnds ==
  /\ pc = "draft"
  /\ draftNPast' = draftNPast + Len(proposal)
  /\ ready' \in {ready, FALSE}
  /\ pc' = "verify"
  /\ UNCHANGED <<target, draft, attached, draftK, loopVars, proposal, pending>>

(* Mutant of DraftThrows: the draft is tried again in the next round.       *)
DraftThrowsRetried ==
  /\ pc = "draft"
  /\ proposal' = <<>>
  /\ pc' = "round"
  /\ UNCHANGED <<target, draftVars, loopVars, pending>>

(* The drafter throws, because it was freed or detached: its tokens go.     *)
DraftThrows ==
  /\ pc = "draft"
  /\ ready' = FALSE
  /\ proposal' = <<>>
  /\ pc' = "verify"
  /\ UNCHANGED <<target, draft, attached, draftNPast, draftK, loopVars, pending>>

----------------------------------------------------------------------------
(* The speculative loop: the target's part of a round *)

(* The round's outer catch: drafting is given up and the turn ends with     *)
(* what was generated so far.                                               *)
GiveUpRound ==
  /\ ready' = FALSE
  /\ EndTurn(generated, 0)
  /\ proposal' = <<>>
  /\ UNCHANGED <<draft, attached, draftNPast, draftK, pending>>

(* One decode without a draft, as the plain loop does it.                   *)
PlainRound ==
  /\ pc = "verify" /\ proposal = <<>>
  /\ LET out == Append(generated, Predicted(generated)) IN
     \/ /\ Ends(out)
        /\ IF Steering THEN EndTurn(out, 1) ELSE EndTurn(generated, 0)
        /\ UNCHANGED <<target, pending>>
     \/ /\ ~Ends(out) /\ Fits(target, <<Last(out)>>, TargetCtx)
        /\ Consecutive(target)
        /\ target' = Appended(target, <<Last(out)>>)
        /\ generated' = out
        /\ pending' = [toks |-> <<Last(out)>>, next |-> "round", tail |-> 0]
        /\ pc' = "sync"
        /\ UNCHANGED transcript
  /\ UNCHANGED <<draftVars, proposal>>

(* `if (status !== 0) return false`.                                        *)
PlainRoundFails ==
  /\ "round" \in Faults
  /\ pc = "verify" /\ proposal = <<>>
  /\ ~Ends(Append(generated, Predicted(generated)))
  /\ EndTurn(generated, 0)
  /\ UNCHANGED <<target, draftVars, proposal, pending>>

PlainRoundOverflows ==
  /\ pc = "verify" /\ proposal = <<>>
  /\ ~Ends(Append(generated, Predicted(generated)))
  /\ ~Fits(target, <<Predicted(generated)>>, TargetCtx)
  /\ GiveUpRound
  /\ UNCHANGED target

(* The suffix trie proposes; the proposal is cut at the first stop token.   *)
TrieDrafts == UNION {[1..n -> Token \ Stop] : n \in 1..MaxSpec}
Drafts ==
  IF proposal # <<>> THEN {proposal} ELSE IF Suffix THEN TrieDrafts ELSE {}

(* The target's choice after the first i tokens of a batch.                 *)
Choice(toks, i) == Best(target.lg \o Upto(toks, i), {})

(* Mutant of Verified: the token that disagrees is accepted as well.        *)
VerifiedLate(toks, accepted, correction) ==
  /\ accepted > 0
  /\ \A i \in 1..(accepted - 1) : toks[i] = Choice(toks, i - 1)
  /\ accepted < Len(toks) => toks[accepted] # Choice(toks, accepted - 1)
  /\ correction = Choice(toks, accepted)

(* mtpVerifyBatch(): the tokens that are the target's own choices, up to    *)
(* the first that is not, and the target's choice in its place.             *)
Verified(toks, accepted, correction) ==
  /\ \A i \in 1..accepted : toks[i] = Choice(toks, i - 1)
  /\ accepted < Len(toks) => toks[accepted + 1] # Choice(toks, accepted)
  /\ correction = Choice(toks, accepted)

(* Emitted tokens that must not be kept, and those that close an edit.      *)
Bad(emitted) ==
  {i \in 1..Len(emitted) : \/ emitted[i] \in Stop
                           \/ emitted[i] \in Poison(generated \o Upto(emitted, i - 1))}
Edit(emitted) ==
  {i \in 1..Len(emitted) : Steering /\ EditEnds(generated \o Upto(emitted, i))}

(* Mutant of Scan: the token that closes an edit stays in the KV.           *)
ScanCommitsEdit(emitted) ==
  LET at == Min(Bad(emitted) \cup Edit(emitted) \cup {Len(emitted) + 1})
      n == IF at \in Edit(emitted) THEN at ELSE at - 1
  IN  [keep |-> n, commit |-> n, stopped |-> at <= Len(emitted)]

(* The emitted tokens that go into the output and those that stay in the    *)
(* KV, up to the first that ends the turn.                                  *)
Scan(emitted) ==
  LET at == Min(Bad(emitted) \cup Edit(emitted) \cup {Len(emitted) + 1})
  IN  [keep |-> IF at \in Edit(emitted) \ Bad(emitted) THEN at ELSE at - 1,
       commit |-> at - 1,
       stopped |-> at <= Len(emitted)]

(* Mutant of Settled: what the scan cut off stays in the KV.                *)
SettledUncut(emitted, commit) ==
  Appended(target, emitted)

(* The target's context after the round: what is not committed is rolled    *)
(* back.                                                                    *)
Settled(emitted, commit) ==
  LET c == Appended(target, emitted) IN
  IF commit < Len(emitted) THEN Rewind(c, NPast + Len(generated) + commit) ELSE c

(* Mutant of Matched: the drafted tokens are taken for the committed ones.  *)
MatchedDrafted(accepted, commit) == Least(Len(proposal), commit)

(* How many of the drafter's own tokens are the committed ones.             *)
Matched(accepted, commit) == Least(Least(Len(proposal), commit), accepted)

(* Draft, verify, scan, roll back, and reconcile the shadow context; the    *)
(* draftAppend() it ends with is the next step.                             *)
VerifyRound(toks, accepted, correction) ==
  /\ pc = "verify" /\ Verified(toks, accepted, correction)
  /\ Fits(target, toks, TargetCtx) /\ Consecutive(target)
  /\ target.n + accepted < TargetCtx
  /\ LET emitted == Append(Upto(toks, accepted), correction)
         s == Scan(emitted)
         matched == Matched(accepted, s.commit)
         base == NPast + Len(generated)
         live == attached /\ ready
         rollback == live /\ draftNPast > base + matched
     IN
     /\ target' = Settled(emitted, s.commit)
     /\ draft' = IF rollback THEN Rewind(draft, base + matched) ELSE draft
     /\ draftNPast' = IF rollback THEN base + matched ELSE draftNPast
     /\ draftK' = IF proposal = <<>> THEN draftK
                  ELSE IF accepted >= Len(proposal) THEN Least(DraftMax, draftK * 2)
                  ELSE Most(DraftMin, draftK \div 2)
     /\ generated' = generated \o Upto(emitted, s.keep)
     /\ pending' = [toks |-> IF live THEN SubSeq(emitted, matched + 1, s.commit) ELSE <<>>,
                    next |-> IF s.stopped THEN "idle" ELSE "round",
                    tail |-> s.keep - s.commit]
     /\ pc' = "sync"
  /\ proposal' = <<>>
  /\ UNCHANGED <<attached, ready, transcript>>

(* The batch does not fit, or its decode fails: thrown before n_past_ moves.*)
VerifyThrows(toks) ==
  /\ pc = "verify"
  /\ "verify" \in Faults \/ ~Fits(target, toks, TargetCtx)
  /\ GiveUpRound
  /\ UNCHANGED target

(* The correction's decode fails after n_past_ took the accepted tokens:    *)
(* always when they fill the context, or by a status other than 0.          *)
CorrectionThrows(toks, accepted) ==
  /\ pc = "verify"
  /\ Fits(target, toks, TargetCtx)
  /\ "correction" \in Faults \/ target.n + accepted = TargetCtx
  /\ Verified(toks, accepted, Choice(toks, accepted))
  /\ GiveUpRound
  /\ target' = [Appended(target, Upto(toks, accepted))
                 EXCEPT !.lg = target.kv \o toks]

----------------------------------------------------------------------------
Kept ==
  \/ Sync
  \/ PlainEnds \/ PlainStep \/ PlainStepOverflows
  \/ RoundsEnd \/ StartRound
  \/ \E t \in Token : DraftToken(t)
  \/ DraftEnds \/ DraftThrows
  \/ PlainRound \/ PlainRoundFails \/ PlainRoundOverflows
  \/ \E toks \in Drafts :
       \/ VerifyThrows(toks)
       \/ \E accepted \in 0..Len(toks), t \in Token : VerifyRound(toks, accepted, t)

(* The two failures after which the cells are not what nPast counts.        *)
Lost ==
  \/ PlainStepFails
  \/ \E toks \in Drafts : \E accepted \in 0..Len(toks) : CorrectionThrows(toks, accepted)

LoopStep == (Kept /\ UNCHANGED lost) \/ (Lost /\ lost' = TRUE)

Next ==
  \/ /\ \/ \E toks \in Input : BeginTurn(toks) \/ BeginTurnOverflows(toks)
        \/ Detach \/ Attach
     /\ UNCHANGED lost
  \/ LoopStep

Spec == Init /\ [][Next]_vars

(* The decodes of a turn complete and the promise chain runs on.            *)
FairSpec == Spec /\ WF_vars(LoopStep)

----------------------------------------------------------------------------
(* Properties *)

(* "nPast must count only what's really in the KV": between turns the       *)
(* target's cells and position counter are the transcript's, whatever the   *)
(* turn before drafted, rejected, rolled back or left undecoded; two of the *)
(* failures, and no others, end that.                                       *)
Mirror ==
  pc = "idle" /\ ~lost => target.kv = transcript /\ target.n = NPast

(* The output is the target's own: every token is the one it would have     *)
(* chosen alone, whatever was drafted ("greedy equality", mtpVerifyBatch).  *)
OwnOutput ==
  \A i \in 1..Len(generated) :
    LET before == SubSeq(generated, 1, i - 1) IN
    generated[i] = Best(transcript \o before, Poison(before))

(* The same for the plain loop's choice: where the plain loop has no tool   *)
(* call tag to repair (Sampler), speculation changes the speed of a turn,   *)
(* not its text ("mirroring the ordinary per-token loop exactly"), but for  *)
(* the last round's surplus ("may overshoot maxTokens by up to              *)
(* suffixMaxSpec", or by two with a drafter), whatever fails meanwhile.     *)
PlainOutput ==
  /\ Len(generated) <= MaxTokens + Most(MaxSpec, 2)
  /\ ~lost => \A i \in 1..Len(generated) :
       LET before == SubSeq(generated, 1, i - 1) IN
       generated[i] \in Pick(transcript \o before, before)

(* "The drafter's shadow KV is aligned here": at the start of a round a     *)
(* live drafter has seen what the target has, and predicts the same token.  *)
ShadowAligned ==
  pc = "round" /\ attached /\ ready =>
    /\ draft.kv = target.kv /\ LogitsValid(draft)
    /\ draftNPast = Len(draft.kv) /\ draft.n = draftNPast

(* Neither a stop token nor poison, nor an edit's closing token, enters the *)
(* context when a turn ends, even from a batch that was already decoded.    *)
CleanCommit ==
  [][pc # "idle" /\ pc' = "idle" =>
       LET new == SubSeq(transcript', NPast + 1, Len(transcript')) IN
       \A i \in 1..Len(new) : /\ new[i] \notin Stop
                              /\ new[i] \notin Poison(SubSeq(new, 1, i - 1))
                              /\ ~(Steering /\ EditEnds(SubSeq(new, 1, i)))]_vars

(* A turn ends: every round makes progress, also when drafting breaks.      *)
TurnEnds == pc # "idle" ~> pc \in {"idle", "over"}

============================================================================
