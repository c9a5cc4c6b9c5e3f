----------------------------- MODULE AgentLoop -----------------------------
(***************************************************************************)
(* A conversation on one model: start() and replay(), which resume from    *)
(* the cold store or prefill in stages, the turns, and the checkpoints     *)
(* continue() and followUp() take (encode/src/agentLoop.ts).  One await is *)
(* one step; between two of them a background write may end, or the        *)
(* process may die.                                                        *)
(*                                                                         *)
(* A text is a sequence of characters and a token the text it stands for,  *)
(* so that the text of a sequence of tokens is their concatenation, while  *)
(* cutting a text and tokenizing a part of it may give other tokens.  The  *)
(* store is what ColdStore promises (CheckpointCache): whole checkpoints,  *)
(* that may be forgotten.  What a turn generates is arbitrary here: how it *)
(* is committed is DecodeLoop's subject.                                   *)
(***************************************************************************)
EXTENDS LlamaContext, FiniteSets, SequencesExt, FiniteSetsExt

CONSTANTS
  Char,
  Tokenize(_),     \* the tokens of a text, without the leading one
  Newline,         \* the character
  Prompt,          \* what buildPrompt() may give
  Input,           \* texts of tool results and follow-ups
  Output,          \* sequences of tokens a turn may commit
  Block,           \* COLD_BLOCK_TOKENS
  MaxRungs,        \* COLD_MAX_RUNGS
  Kept,            \* how many checkpoints the store's budget holds
  Window,          \* contextSize
  MaxBehind,       \* bound: start() waits while more snapshots are not written
  MaxText,         \* bound: a longer transcript does not grow
  MaxHarms,        \* bound: how often the context is harmed unseen (Harm)
  Repeats,         \* start() may be called again on the same loop
  Faults           \* native calls that may fail: "prefill", "append", "restore",
                   \*   and "turn", a turn given up with tokens in the KV

ASSUME SizeAssumption ==
  /\ {Block, MaxRungs, Kept, Window} \subseteq Nat \ {0}
  /\ {MaxBehind, MaxText, MaxHarms} \subseteq Nat
  /\ Repeats \in BOOLEAN
  /\ Faults \subseteq {"prefill", "append", "restore", "turn"}

ASSUME TextAssumption ==
  /\ Prompt \cup Input \subseteq Seq(Char)
  /\ Output \subseteq Seq(Seq(Char))

VARIABLES
  ctx,         \* the model's context
  transcript,
  nPast,
  mark,        \* lastColdCheckpointTokens
  cached,      \* prompts kvPrefixCache holds an entry for
  store,       \* checkpoints on disk
  queue,       \* this loop's snapshots that are not written yet
  old,         \* those of the loop before
  pc,          \* "new" before start(), "load", "prefill", "turn", "idle"
  prompt,      \* the prompt being prefilled
  rungs,       \* of the full prefill, those not reached yet
  done,        \* tokens of the prompt in the context
  skipped,     \* rungsSkipped
  harms        \* history: how often the context came to differ from what the
               \*   loop takes it for

(* Five steps may leave another context than the loop takes it for, and no  *)
(* check in the code notices: a cached prefix that does not come back       *)
(* (OpenCached), a restore that fails unseen, a checkpoint whose last cell  *)
(* is another token than the prompt's, which is decoded in its place        *)
(* (Resume), a turn that loses count (TurnLost), and a start() that throws  *)
(* on a loop with turns behind it (Failed).                                 *)
Harm(happens) ==
  IF happens THEN harms < MaxHarms /\ harms' = harms + 1 ELSE UNCHANGED harms

convVars == <<transcript, nPast, mark>>
writeVars == <<store, queue, old>>
stageVars == <<prompt, rungs, done, skipped>>
vars == <<ctx, transcript, nPast, mark, cached, store, queue, old, pc,
          prompt, rungs, done, skipped, harms>>

Bos == <<>>      \* the token tokenize(., true, .) puts first; it has no text

Whole(text) == <<Bos>> \o Tokenize(text)
TextOf(toks) == FlattenSeq(toks)

TypeOK ==
  /\ ctx.n \in Nat /\ ctx.kv \in Seq(Seq(Char) \cup {Hole})
  /\ transcript \in Seq(Char) /\ prompt \in Seq(Char)
  /\ nPast \in Nat /\ mark \in 0..nPast
  /\ \A c \in store \cup ToSet(queue) \cup ToSet(old) :
       c.text \in Seq(Char) /\ c.tokens \in Nat \ {0} /\ c.reason \in {"rung", "full", "continued"}
  /\ \A c, d \in store : c.text = d.text => c = d
  /\ Cardinality(store) <= Kept
  /\ pc \in {"new", "load", "prefill", "turn", "idle"}
  /\ \A r \in rungs : r.text \in Seq(Char) /\ r.tokens \in Nat \ {0}
  /\ done \in 0..Window /\ skipped \in BOOLEAN /\ harms \in 0..MaxHarms

Init ==
  /\ ctx = Fresh /\ transcript = <<>> /\ nPast = 0 /\ mark = 0 /\ cached = {}
  /\ store = {} /\ queue = <<>> /\ old = <<>>
  /\ pc = "new" /\ prompt = <<>> /\ rungs = {} /\ done = 0 /\ skipped = FALSE
  /\ harms = 0

----------------------------------------------------------------------------
(* Checkpoints *)

(* KVColdStore.snapshot(): a copy of the cells as they are now.             *)
Snapshot(text, tokens, reason, c) ==
  [text |-> text, tokens |-> tokens, reason |-> reason, cells |-> c.kv]

(* Mutant of Stored: put beside the others, whatever the budget.            *)
StoredBeside(snap) == {store \cup {snap}}

(* The head of a write chain is on disk; the budget may cost others.        *)
Stored(snap) ==
  LET others == {c \in store : c.text # snap.text}
  IN  {S \cup {snap} : S \in {T \in SUBSET others :
         Cardinality(T) = IF Cardinality(others) < Kept THEN Cardinality(others)
                                                       ELSE Kept - 1}}

WriteDone ==
  /\ queue # <<>>
  /\ store' \in Stored(Head(queue)) /\ queue' = Tail(queue)
  /\ UNCHANGED <<ctx, convVars, cached, old, pc, stageVars, harms>>

OldWriteDone ==
  /\ old # <<>>
  /\ store' \in Stored(Head(old)) /\ old' = Tail(old)
  /\ UNCHANGED <<ctx, convVars, cached, queue, pc, stageVars, harms>>

----------------------------------------------------------------------------
(* The host *)

(* A loop for another conversation, on the same model.  The writes of the   *)
(* loop it replaces go on; a second such loop waits for them here.          *)
NewLoop ==
  /\ pc \in {"new", "idle"} /\ old = <<>> /\ <<pc, queue>> # <<"new", <<>>>>
  /\ old' = queue /\ queue' = <<>>
  /\ cached' = {} /\ pc' = "new"
  /\ nPast' = 0 /\ mark' = 0
  /\ UNCHANGED <<ctx, transcript, store, stageVars, harms>>

(* The process ends at any moment: snapshots not on disk are gone.          *)
Crash ==
  /\ ctx' = Fresh /\ cached' = {} /\ queue' = <<>> /\ old' = <<>>
  /\ pc' = "new" /\ nPast' = 0 /\ mark' = 0
  /\ prompt' = <<>> /\ rungs' = {} /\ done' = 0 /\ skipped' = FALSE
  /\ UNCHANGED <<transcript, store, harms>>

(* start(), where the prefix cache has no entry, or replay(), which does    *)
(* not look: a fresh prompt or the conversation so far.                     *)
Open(text) ==
  /\ pc = "new" \/ (Repeats /\ pc = "idle")
  /\ Len(queue) + Len(old) <= MaxBehind
  /\ prompt' = text /\ rungs' = {} /\ done' = 0 /\ skipped' = FALSE
  /\ pc' = "load"
  /\ UNCHANGED <<ctx, convVars, cached, writeVars, harms>>

----------------------------------------------------------------------------
(* prefillOrResume() *)

(* The locals of prefillOrResume().                                         *)
Returned == prompt' = <<>> /\ rungs' = {} /\ done' = 0 /\ skipped' = FALSE

(* start() or replay() after the prefill; start() also enters the prompt in *)
(* the prefix cache, which matters when it is called again.                 *)
Opened ==
  /\ transcript' = prompt
  /\ nPast' = Len(Whole(prompt)) /\ mark' = Len(Whole(prompt))
  /\ cached' \in {cached} \cup {cached \cup {p \in {prompt} \cap Prompt : Repeats}}
  /\ pc' = "turn" /\ Returned

(* KVPrefixCacheManager.restorePrefix() after an earlier start() with the   *)
(* prompt: sequence 0 is emptied, the fork goes to a new sequence, and      *)
(* n_past_ is set as if it had come back.                                   *)
OpenCached(text) ==
  /\ pc \in {"new", "idle"} /\ text \in cached
  /\ ctx' = [Rewind(ctx, 0) EXCEPT !.n = Len(Whole(text))]
  /\ transcript' = text
  /\ nPast' = Len(Whole(text)) /\ mark' = Len(Whole(text))
  /\ pc' = "turn" /\ Harm(TRUE)
  /\ UNCHANGED <<cached, writeVars, stageVars>>

(* tryLoad() takes the longest text the prompt begins with.                 *)
Longest ==
  LET hits == {c \in store : IsPrefix(c.text, prompt)}
  IN  {c \in hits : \A d \in hits : Len(d.text) <= Len(c.text)}

(* The matched text tokenizes to the prompt's own first tokens.             *)
Resumable(c) ==
  /\ Len(Whole(c.text)) = c.tokens
  /\ IsPrefix(Whole(c.text), Whole(prompt))

(* The rest of the prompt is decoded behind the restored cells, or the last *)
(* token once more when there is no rest, for its logits.                   *)
Completed(c, r) ==
  LET toks == Whole(prompt) IN
  IF c.tokens = Len(toks) THEN Appended(Rewind(r, Len(toks) - 1), <<Last(toks)>>)
                          ELSE Appended(r, SubSeq(toks, c.tokens + 1, Len(toks)))

(* kvRestore(): with status 0 returned the cells are gone and n_past_ is    *)
(* what it was; the caller does not look.                                   *)
Restored(c) ==
  {Restore(ctx, c.cells)}
    \cup (IF "restore" \in Faults THEN {[ctx EXCEPT !.kv = <<>>]} ELSE {})

Resume ==
  /\ pc = "load"
  /\ \E c \in Longest : \E r \in Restored(c) :
       /\ Resumable(c)
       /\ Completed(c, r).n <= Window
       /\ ctx' = Completed(c, r)
       /\ Harm(r # Restore(ctx, c.cells) \/ ~IsPrefix(c.cells, ctx'.kv))
  /\ Opened
  /\ UNCHANGED writeVars

(* start() throws: nothing was set, and firstTurn stays what it was, so     *)
(* that a loop with earlier turns can be continued all the same.            *)
Failed ==
  /\ pc' = IF nPast = 0 THEN "new" ELSE "idle"
  /\ Harm(nPast # 0)
  /\ Returned

(* A remainder that does not fit is thrown out of start().                  *)
ResumeOverflows ==
  /\ pc = "load" /\ Len(Whole(prompt)) > Window
  /\ \E c \in Longest : Resumable(c) /\ ctx' = Restore(ctx, c.cells)
  /\ Failed
  /\ UNCHANGED <<convVars, cached, writeVars>>

(* coldLadderBoundaries(): a cut behind the first newline at or after each  *)
(* block, where the text before it keeps the prompt's tokens.               *)
Cut(b) ==
  LET from == (b * Block * Len(prompt)) \div Len(Whole(prompt)) + 1
  IN  {i \in from..Len(prompt) :
         prompt[i] = Newline /\ \A j \in from..(i - 1) : prompt[j] # Newline}

(* Blocks before the first one that breaks the loop.                        *)
Blocks ==
  LET most == Len(Whole(prompt)) - Block
      good(b) == /\ Len(Whole(prompt)) >= 2 * Block /\ b * Block <= most
                 /\ \E i \in Cut(b) : Len(Whole(Upto(prompt, i))) <= most
  IN  {b \in 1..MaxRungs : \A k \in 1..b : good(k)}

(* Mutant of Rungs: no cut is verified.                                     *)
RungsUnverified ==
  {[text |-> t, tokens |-> Len(Whole(t))] :
     t \in {Upto(prompt, i) : i \in UNION {Cut(b) : b \in Blocks}}}

Rungs ==
  {[text |-> t, tokens |-> Len(Whole(t))] :
     t \in {u \in {Upto(prompt, i) : i \in UNION {Cut(b) : b \in Blocks}} :
            IsPrefix(Whole(u), Whole(prompt))}}

(* No match, an unreadable file that tryLoad() unlinks, a match that does   *)
(* not resume, or a decode that fails: the full prefill clears whatever is  *)
(* left in the context.                                                     *)
ResumeNot ==
  /\ pc = "load"
  /\ \/ Longest = {} /\ UNCHANGED <<ctx, store>>
     \/ \E c \in Longest : store' = store \ {c} /\ UNCHANGED ctx
     \/ \E c \in Longest :
          /\ ~Resumable(c) \/ "append" \in Faults
          /\ ctx' = Restore(ctx, c.cells) /\ UNCHANGED store
  /\ rungs' = Rungs
  /\ pc' = "prefill"
  /\ UNCHANGED <<convVars, cached, queue, old, prompt, done, skipped, harms>>

(* How far the next decode of the prefill goes: the next rung, or the end.  *)
NextEnd ==
  IF rungs = {} THEN Len(Whole(prompt)) ELSE Min({r.tokens : r \in rungs})

(* forwardAsync() for the first chunk of the prompt, decodeAppendAsync()    *)
(* for the others.                                                          *)
Chunk == SubSeq(Whole(prompt), done + 1, NextEnd)
Advanced == IF done = 0 THEN Forward(Chunk) ELSE Appended(ctx, Chunk)

(* A rung is captured while no write of the loop is pending.                *)
MaySnapshot == ~skipped /\ queue = <<>>

(* One rung: decoded, and captured unless the writer is busy or the sizes   *)
(* of the snapshots, which are not modelled, do not fit half the budget.    *)
PrefillRung ==
  /\ pc = "prefill" /\ NextEnd <= Window
  /\ \E r \in rungs :
       /\ r.tokens = NextEnd
       /\ ctx' = Advanced /\ done' = NextEnd /\ rungs' = rungs \ {r}
       /\ \/ /\ MaySnapshot
             /\ queue' = Append(queue, Snapshot(r.text, r.tokens, "rung", ctx'))
             /\ UNCHANGED skipped
          \/ queue' = queue /\ skipped' = TRUE
  /\ UNCHANGED <<convVars, cached, store, old, pc, prompt, harms>>

(* The rest of the prompt, and the checkpoint of the whole.                 *)
PrefillRest ==
  /\ pc = "prefill" /\ rungs = {} /\ NextEnd <= Window
  /\ ctx' = Advanced
  /\ queue' = Append(queue, Snapshot(prompt, NextEnd, "full", ctx'))
  /\ Opened
  /\ UNCHANGED <<store, old, harms>>

(* Mutant of PrefillThrows: the status of the last chunk is not looked at.  *)
PrefillThrowsUnseen ==
  /\ pc = "prefill" /\ rungs = {} /\ "prefill" \in Faults
  /\ ctx' \in {AppendFailed(ctx, Chunk, i) : i \in 0..(Len(Chunk) - 1)}
  /\ queue' = Append(queue, Snapshot(prompt, NextEnd, "full", ctx'))
  /\ Opened
  /\ UNCHANGED <<store, old, harms>>

(* A chunk that does not fit, or fails: thrown.                             *)
PrefillThrows ==
  /\ pc = "prefill"
  /\ \/ NextEnd > Window /\ UNCHANGED ctx
     \/ /\ "prefill" \in Faults /\ NextEnd <= Window
        /\ ctx' \in IF done = 0 THEN ForwardFailed(ctx, Chunk)
                    ELSE {AppendFailed(ctx, Chunk, i) : i \in 0..(Len(Chunk) - 1)}
  /\ Failed
  /\ UNCHANGED <<convVars, cached, writeVars>>

----------------------------------------------------------------------------
(* Turns *)

(* decodeLoop(): what it committed is in the context, and counted.          *)
Turn(out) ==
  /\ pc = "turn" /\ Fits(ctx, out, Window)
  /\ out = <<>> \/ (Consecutive(ctx) /\ Len(transcript) <= MaxText)
  /\ ctx' = IF out = <<>> THEN ctx ELSE Appended(ctx, out)
  /\ transcript' = transcript \o TextOf(out)
  /\ nPast' = nPast + Len(out)
  /\ pc' = "idle"
  /\ UNCHANGED <<mark, cached, writeVars, stageVars, harms>>

(* The turns DecodeLoop shows to lose count: `return emptyStep(...)`.       *)
TurnLost(out) ==
  /\ "turn" \in Faults
  /\ pc = "turn" /\ Fits(ctx, out, Window) /\ Consecutive(ctx)
  /\ ctx' = Appended(ctx, out)
  /\ pc' = "idle" /\ Harm(TRUE)
  /\ UNCHANGED <<convVars, cached, writeVars, stageVars>>

(* maybeMidSessionCheckpoint().                                             *)
Checkpoint ==
  IF nPast - mark >= Block
  THEN /\ queue' = Append(queue, Snapshot(transcript, nPast, "continued", ctx))
       /\ mark' = nPast
  ELSE UNCHANGED <<queue, mark>>

(* continue() and followUp().                                               *)
Continue(text) ==
  /\ pc = "idle" /\ Len(transcript) <= MaxText
  /\ Checkpoint
  /\ Fits(ctx, Tokenize(text), Window) /\ Consecutive(ctx)
  /\ ctx' = Appended(ctx, Tokenize(text))
  /\ transcript' = transcript \o text
  /\ nPast' = nPast + Len(Tokenize(text))
  /\ pc' = "turn"
  /\ UNCHANGED <<cached, store, old, stageVars, harms>>

(* Mutant of ContinueThrows: the status is not looked at.                   *)
ContinueThrowsUnseen(text) ==
  /\ pc = "idle" /\ Len(transcript) <= MaxText
  /\ "append" \in Faults /\ Consecutive(ctx)
  /\ Checkpoint
  /\ \E i \in 0..(Len(Tokenize(text)) - 1) :
       ctx' = AppendFailed(ctx, Tokenize(text), i)
  /\ transcript' = transcript \o text
  /\ nPast' = nPast + Len(Tokenize(text))
  /\ pc' = "turn"
  /\ UNCHANGED <<cached, store, old, stageVars, harms>>

(* It throws, by overflow or by a status other than 0; the host may call    *)
(* again on the same loop.                                                  *)
ContinueThrows(text) ==
  /\ pc = "idle" /\ Len(transcript) <= MaxText
  /\ Checkpoint
  /\ \/ ~Fits(ctx, Tokenize(text), Window) /\ UNCHANGED ctx
     \/ ~Consecutive(ctx) /\ UNCHANGED ctx
     \/ /\ "append" \in Faults /\ Consecutive(ctx)
        /\ \E i \in 0..(Len(Tokenize(text)) - 1) :
             ctx' = AppendFailed(ctx, Tokenize(text), i)
  /\ UNCHANGED <<transcript, nPast, cached, store, old, pc, stageVars, harms>>

----------------------------------------------------------------------------
Next ==
  \/ NewLoop \/ Crash \/ WriteDone \/ OldWriteDone
  \/ \E text \in Prompt \cup ({transcript} \ {<<>>}) : Open(text) \/ OpenCached(text)
  \/ Resume \/ ResumeNot \/ ResumeOverflows
  \/ PrefillRung \/ PrefillRest \/ PrefillThrows
  \/ \E out \in Output : Turn(out) \/ TurnLost(out)
  \/ \E text \in Input : Continue(text) \/ ContinueThrows(text)

Spec == Init /\ [][Next]_vars

----------------------------------------------------------------------------
(* Properties *)

(* Without a harm prefillOrResume() leaves the prompt in the context, by    *)
(* whichever path, and so does every turn after it: the cells up to n_past_ *)
(* spell the transcript, and a turn never samples from logits that a        *)
(* restore left behind.                                                     *)
Spelled ==
  harms = 0 /\ pc \in {"turn", "idle"} =>
    /\ TextOf(Upto(ctx.kv, nPast)) = transcript
    /\ nPast <= Len(ctx.kv) /\ ctx.n = nPast
    /\ pc = "turn" => LogitsValid(ctx)

(* A checkpoint's cells are its text and its token count, whenever it was   *)
(* taken, also after a prefill or a continue() that failed half way: no     *)
(* later session resumes into another context than it asked for.            *)
Faithful ==
  harms = 0 =>
    \A c \in store \cup ToSet(queue) \cup ToSet(old) :
      TextOf(c.cells) = c.text /\ Len(c.cells) = c.tokens

(* What a prefill captures is its text's own tokens, whatever state the     *)
(* context was in before: failed decodes and harms do not get into a        *)
(* checkpoint by way of start(), and a prompt that shares a rung's text up  *)
(* to a token boundary resumes from it.                                     *)
PrefillCaptures ==
  \A c \in store \cup ToSet(queue) \cup ToSet(old) :
    c.reason # "continued" => c.cells = Whole(c.text)

(* prefillOrResume() "Always leaves the model's KV cache representing       *)
(* exactly `promptTokens`", by the comment above it: at least as a text.    *)
PromptInContext ==
  pc = "turn" /\ nPast = mark => TextOf(ctx.kv) = transcript

============================================================================
