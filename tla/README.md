# Subvocal: a local model, its agent and their sessions, in TLA+

Subvocal runs a local model for an agent. What it cares for is the model's KV cache: a prompt
costs minutes to prefill, so the program keeps the cache alive over the turns of a conversation,
saves it to disk, resumes from it, and lets a small model draft tokens for a large one on a cache
of its own. Every one of those tricks rests on the same promise: *the cells in the native context
are the tokens the program thinks are there*. Nothing fails when the promise is broken; the model
just continues another text than the one the user sees. Above the model there is an agent harness,
a fork with changes of its own: a worker thread that owns the model, the agent's loop of replies
and tools, a session that persists it, retries and compacts it, session files that form trees, and
an orchestrator of agent processes. There the promise is another one: what the user said is
neither lost nor doubled, whatever is aborted, fails or dies. This project models the code that
has to keep both, checks the models with TLC and proves part of what they show with TLAPS.

Paths are relative to the repository's root under `src/`.

## 1. Inventory

| component | code | state | operations |
|---|---|---|---|
| KV cold store | `encode/src/kvColdStore.ts` | a directory of `<sha1(text)>` files, `<sha>.tmp` files in progress, hit counters in the files | constructor (sweep), `snapshot`, `writeSnapshot`, `evictIfNeeded`, `tryLoad`, `touch` |
| write queue | `encode/src/agentLoop.ts:655-740` | `coldWriteChain`, `coldWritesPending` | `queueColdWrite`, `flushColdWrites` |
| native context | `synapse/src/native/binding_gpu.cpp`, `kv_cache.cpp` | KV cells per sequence, `n_past_`, logits | `forwardAsync`, `decodeAppendAsync`, `setKVState`, `kvCacheSeqRemove`, `resetNPast`, `mtpVerifyBatch`, `kvCacheFork` |
| conversation on a model | `encode/src/agentLoop.ts` (AgentLoop) | `transcript`, `nPast`, `firstTurn`, `lastColdCheckpointTokens` | `start`, `replay`, `continue`, `followUp`, `prefillOrResume`, `maybeMidSessionCheckpoint` |
| generation of a turn | `encode/src/agentLoop.ts:930-1400`, `ideogramSteering.ts` | generated tokens, the drafter's shadow context (`draftModel`, `draftReady`, `draftNPast`, `draftK`) | `decodeLoop`, `decodeLoopSuffixSpec`, `draftPrefill`, `draftAppend`, `attachDraftModel`, `detachDraftModel` |
| prefix cache | `encode/src/kvPrefixCache.ts` | hash of tokens -> sequence of a model | `cachePrefix`, `restorePrefix` |
| conversation engine | `utter/packages/coding-agent/src/core/local-provider/conversation.ts` | current loop and brain, `prefixSig`, `fedFiles`, idle timer, `pendingReset`, `turnActive` | `runTurn` (routing, compaction, replay, escalation), `reset`, idle unload |
| worker and client | `.../local-provider/provider.ts`, `agent-worker.ts`, `wire.ts` | the chain of turns, the pending map, ids, the shared abort cell, the worker and its ref, `pendingReset` of its engine | `runTurn`, `requestAbort`, `resetConversation`, `getWorker`, handlers of `message`, `error` and `exit` |
| agent | `utter/packages/agent/src/agent.ts`, `agent-loop.ts` | the transcript, the steering and the follow-up queue, `activeRun` | `prompt`, `continue`, `abort`, `runLoop`, sequential and parallel tools |
| session of the agent | `utter/packages/coding-agent/src/core/agent-session.ts`, `compaction/compaction.ts` | the mirrored queues, `_retryAttempt`, `_lastAssistantMessage`, `_pendingBashMessages`, abort controllers | `prompt`, `steer`, `followUp`, `abort`, `compact`, `_handleAgentEvent`, `_handlePostAgentRun`, `_runAutoCompaction`, `recordBashResult` |
| session files | `.../core/session-manager.ts`, `agent-session-runtime.ts` | a file of lines and its tree in memory: entries, `byId`, labels, leaf, `flushed` | `setSessionFile`, `_persist`, `_rewriteFile`, `append...`, `branch`, `createBranchedSession`, `forkFrom`, `fork`, migration |
| orchestrator | `utter/packages/orchestrator/src/supervisor.ts`, `rpc-process.ts`, `radius.ts`, `serve.ts`, `storage.ts` | `liveInstances` with records and resources, child processes, `instances.json`, heartbeat timers | `spawnInstance`, `stopInstance`, `handleRpc`, `handleUnexpectedRpcExit`, `cleanupAcquiredResources`, `recoverAfterRestart`, `shutdown`, `registerPi`, `reRegisterPi` |
| REPL | `encode/src/utter.ts` | session and its models | `initSession`, `freeSession`, routing |
| state snapshotter | `encode/src/stateSnapshotter.ts` | stack of rewind points | `snapshot`, `rollback` |
| continuous prefill | `encode/src/continuousPrefill.ts` | tokens of text being typed | no caller in the program |
| the rest | `encode/src/astTagger.ts`, `shadowFileSystem.ts`, `osSandbox.ts`, ..., `utter/packages/{ai,tui}` | | text transformations, file overlays, validators, cloud providers with their generated model tables, terminal rendering |

**How they interact.** The engine (or the REPL) owns one AgentLoop at a time and drops it by
setting a variable to null. A loop drives one native context, which outlives it: the next loop
gets the same model. Each loop constructs its own KVColdStore over a directory that all loops on
the same GGUF share, and feeds it by a promise chain nobody awaits but `freeSession()`. The
drafter is a second native context that the engine attaches, detaches and frees by a timer,
whatever a turn is doing between two awaits. The engine lives in a worker thread; its client posts
it one turn after the other, and the two share one cell of memory, the abort flag. The agent asks
for a reply through that client (or a cloud provider), awaits its listeners after every event, and
the session is one of them: what it hears it appends to the session file, and when a run has ended
it decides whether there will be another. Several processes may have one session file open. The
orchestrator starts such processes, talks to them over their standard input and output, and
registers each with a service (Radius) that is kept informed by heartbeats.

**What is hard.** (1) Everything is one JavaScript thread, but every native call and file
operation is awaited, so a write, a detach, a stop request and a new loop interleave with a turn.
(2) The native counters, the JavaScript counters and the cells are three copies of the same fact,
updated at different points of calls that may fail between them. (3) Text and tokens are not
interchangeable: cutting a text at a newline may cut a token. (4) The process may die with a
file half written, and the next one reads the directory. (5) The speculative rounds put tokens
into the cache before they are looked at. (6) The abort flag, the queues and the retry counter are
shared by turns, runs and callers that overlap. (7) A record or a decision is read before an await
and used after it: `prompt()` looks at `isStreaming`, a heartbeat takes a copy of the record, a
failed worker is let go of twice. (8) Session files are appended to by processes that do not know
of each other, and lines may be torn.

**What makes each part correct**

- *cold store*: a reader never sees half a checkpoint; the budget is kept; a file that cannot
  be restored fails one start, never every later one; a flush ends.
- *native context*: decodes go right behind the last cell; a rewind leaves cells and counter equal.
- *generation*: between turns the cells are the transcript's tokens; the text is the one the
  target would have written alone; the shadow context has seen what the target has; a turn ends.
- *conversation*: resuming, prefilling and continuing leave the same text in the cells; every
  checkpoint is its text; failures half way do not reach a checkpoint.
- *engine*: one loop per conversation; what is fed incrementally extends what the loop has; a
  deferred reset takes effect once, after the turn; the idle unload never frees a model in use.
- *worker*: one turn at a time; a reset is applied between the turns it was requested between; an
  abort reaches the turn it was meant for; every turn is answered, also when the worker dies.
- *agent and session*: a message is in one place from the moment it is handed in; the transcript
  and the session file agree; a tool's result follows its call; retries are bounded and what is
  queued is served.
- *session files*: a reader finds a tree that only grows; what was said is saved; a fork is its path.
- *orchestrator*: no child without somebody to stop it; the records say what is there; a stop ends.

## 2. Modules

| module | models | abstract view of |
|---|---|---|
| `CheckpointCache` | what the cold store promises its callers | |
| `ColdStore` | directory, writers, readers, crashes; one step per await | `CheckpointCache` (refinement) |
| `ColdStoreProofs` | the theorems about `ColdStore` | |
| `LlamaContext` | operators of the native context on sequence 0 | |
| `DecodeLoop` | the generation of turns, over two `LlamaContext`s | |
| `DecodeLoopProofs` | the theorems about `DecodeLoop` | |
| `AgentLoop` | the conversation, over one `LlamaContext` and a store that behaves as `CheckpointCache` | |
| `AgentLoopProofs` | the theorems about `AgentLoop` | |
| `Conversation` | the engine above the loop: which loop lives, what it has been told and shown | |
| `ConversationProofs` | the theorems about `Conversation` | |
| `TurnWorker` | the worker and its client: chain, ids, abort cell, resets, deaths | |
| `TurnWorkerProofs` | the theorems about `TurnWorker` | |
| `Agent` | the agent: transcript, queues, the loop of a run | |
| `AgentSession` | the session around the agent; extends `Agent` | |
| `AgentSessionProofs` | the theorems about `AgentSession` | |
| `SessionTree` | what a session file promises its readers | |
| `SessionFile` | session files, the processes that have them open, writes cut short | `SessionTree` (refinement, over all files) |
| `SessionFileProofs` | the theorems about `SessionFile` | |
| `Orchestrator` | supervisor, child processes, records, Radius | |
| `OrchestratorProofs` | the theorems about `Orchestrator` | |
| `MCColdStore`, `MCDecodeLoop`, `MCAgentLoop`, `MCConversation`, `MCAgentSession`, `MCSessionFile` | instances for TLC | |

**ColdStore.** Files have identity: `final` and `tmp` bind names to inodes, `fd` is the
descriptor of a write, which outlives the name. `queue[l]` is a loop's promise chain; its head is
the write in flight. `Construct` is the constructor with its sweep; `Drop` is `loop = null`; the constant `Drained` says whether the
host awaits a drained queue before the next constructor, as `freeSession()` does and the engine does not;
`BeginFlush` and `EndFlush` are `freeSession()`. `writeSnapshot()` is `Open` (evict, open with
`w`), one `Write` per awaited buffer, and `Publish` (close, rename); `OpenFails` and `WriteFails`
are its rejections, `Crash` may come between any two. `tryLoad()` is `LoadNothing`, `LoadHit`
(with `touch()`) and `LoadDrops`. It is one step because it is
synchronous; only the writer awaits. `Victims` is `evictIfNeeded()`: the
score with its half life is compared exactly by cross multiplication. SHA1 is taken to be
collision free. `Truncated` are files left by versions that wrote straight to `<sha>`.

**LlamaContext.** A context is its cells, `n_past_` and the tokens its logits were computed from.
Failing operators return every context they may leave: a decode in chunks may leave the cells of
the chunks before the failing one, with `n_past_` where it was. That llama.cpp refuses positions
which do not follow the last cell is `Consecutive`.

**DecodeLoop.** The target is a function (`Best`) from the tokens in the cells behind the logits
to the next token; drafts are arbitrary. `nPast` and `transcript` are always updated together, so
one variable stands for both. `Sync` is `draftAppend()`, an await at the end of a round and of a
turn's beginning; `StartRound` to `VerifyRound` are a round's awaits; `Scan` is the inline scan for
stop tokens, poison and edits; `Settled` the rollback; `Matched` the reconciliation of the shadow
context. `Detach` may come between any two of them. `Lost` are the two failures after which the
code has lost count of what it decoded (`lost` is a history variable), `Kept` all other steps. Steering is two predicates (which token is
refused, which token closes an edit).

**AgentLoop.** A token *is* the text it stands for, so detokenizing is concatenation, while
tokenizing a cut text may give other tokens (the instance fuses pairs of characters, as BPE
does). `Open` begins `start()` or `replay()`; `Resume`, `ResumeNot`, `PrefillRung` and
`PrefillRest` are `prefillOrResume()`; `Rungs` is `coldLadderBoundaries()`; `Continue` is
`continue()` and `followUp()` with the mid-session checkpoint before the append. A turn commits
arbitrary tokens: that it commits what it counts is DecodeLoop's property `Mirror`, and the fault
`"turn"` is the way it fails to. The store holds whole checkpoints and may forget them, as
`CheckpointCache` allows: that it does is what `ColdStore` is checked and proved for. `harms` (history) counts the
five steps after which the context is not what the loop takes it for and no check notices, `Harm` names them; what
follows from no harm at all is stated with `harms = 0`, and `PrefillCaptures` without.

**Conversation.** The harness sends its whole history with every request; `Say`, `Execute`,
`EditOutside` and `GoBack` are what may happen to it (and to the files) between and, for a foreign
edit, during requests. A message is its role and what it does; `Sig` is `messageSig()`. A turn is
`runTurn()` cut at its awaits: `TurnContinues` (the history extends what the loop was told),
`TurnRestarts` (no loop, another history, proactive compaction, or a new task routed to the large
model) and `DistillOverflows` begin it; `Replayed` and `Attached` are the awaits before the dispatch;
`Generated`, `Escalate`, `SmallFails`, `Overflow`, `Retry`, `GiveUp` and `Fail` are the ways the
generating call ends. `call` holds the awaited call with what it will make of the loop. `Reset`
and `IdleUnload` are the two handlers that run at any await. For each loop the model keeps two histories
the code does not have: `heard`, the inputs it was given, and `has`, the file versions whose content it was given;
the code's `prefixSig` and `fedFiles` are claims about them. `Render` is `renderToolResult()` with its breadcrumb, its
diff of changed blocks and its invalidation by an edit. `e2b` numbers the small model's instances,
so that a loop which keeps a freed one shows. Token counts are not modelled: a history may be too
long at any time and any call may overflow. `KeepRecent` is two at least: with one message kept, a compacted
history would part a result from its call, and `Told` would not hold; the code keeps five.

**TurnWorker.** A caller is a run of the agent, with one signal for all its turns. `Ask` is
`streamSimple()`, `RunNext` the link of the chain that posts a turn, `Deliver` a message with its
reactions up to the next macrotask: the caller's turn is settled and, if it was aborted, a reset is
posted (`Forget`) before the next turn of the chain. While a link is `Runnable` nothing else
happens on the main thread, as promise reactions run before events. `Receive`, `Decode` and
`Answer` are the worker thread; `Die` ends it with an `error` event, an `exit` event or both, in
any order, and `WorkerError`, `WorkerExit` deliver them. A conversation is the set of turns whose
replies the engine's loop may hold: what the engine does with a request is `Conversation`'s subject.

**Agent** and **AgentSession.** An event is emitted by changing the agent's state and then waiting
for the listeners: `Started` and `Persist` are the session's part of it. A run is `Begin`,
`Request`, `Respond`, `Prepare`, `Execute`, `Answer`, `EndTurn`, `Finish`. `prompt()` may be called
while an earlier call waits, so each call is a caller `d` whose place is `driver[d]`: `Post` is
`_handlePostAgentRun()`, `Retry` the end of a backoff, `Compacted` the end of an automatic
compaction, `Again` the `continue()` after them. `Queue`, `Abort`, `ClearQueue`, `BeginCompact` and
`BashReturns` are the client's. Messages have one size; `CutPoint` and `FirstKept` are
`findCutPoint()` and `prepareCompaction()` for it. `astray` (history) says that an event went
unheard or that a call of `prompt()` went on during another's run; the properties that speak of
one run at a time leave that out and `Conserved` does not. `cancelled` (history) is how long the branch was
when a retry was cancelled.

**SessionFile.** A file is its lines, each whole or torn, with or without its newline; `Legible` is
what the reader makes of them, `Loaded` the entries. `OpenNew`, `OpenEmpty`, `OpenCurrent` and
`OpenOld` (migration) are `setSessionFile()`; every append is memory first and then `Persist`, with
whatever part of the write reached the disk (`Cuts`, `Writes`). `Fork` is the runtime's `fork()`
over `createBranchedSession()`: `Retained`, `Chained` and `LabelsAgain` drop, re-chain and re-create
label entries. The writes of one call are one step, since no await separates them, of which a part
may be missing.

**Orchestrator.** One action is what runs between two awaits; `spawning`, `cleaning`, `exiting`,
`renewing` say which await a call is in. `Spawn`, `GotState`, `Registered` are `spawnInstance()`,
`FailSpawn` its catch branch. `Cleanup`, `Disconnected`, `Disposed` are
`cleanupAcquiredResources()`, called for a client, by `shutdown()` and by `failSpawn()`, perhaps
at the same time; `dispose()` waits for an exit event that comes once (`Awaited`). Of the
heartbeats only those are steps that change something: the third in a row that finds Radius
without the registration (`Beat`, `Unknown`), and the machine's, after which every instance is
registered again (`MachineUnknown`, `MachineRenews`). `Renewed` puts the copy of the record that the
registration was begun with in place of the record. `Serve`, `Recovers` are a start, with the
server listening before the recovery; `Crash` may come at any time. When a disconnect or a session's end fails in a shutdown the
orchestrator is `stuck` (section 5): it is there, but handles no event, answer or signal any more, and only `Crash`, which
stands for a kill from outside, gets it out of that. `Alive` excludes it as it excludes an orchestrator that is off.

## 3. Runs

| run | result | what it shows |
|---|---|---|
| `cold_store` | pass | two loops in turn, the next constructed when the last has drained (`Drained = TRUE`): only whole checkpoints at final names (`OnlyWholeCheckpoints`); the budget, and no tmp file but that of a write in flight (`WithinBudget`); the store refines `CheckpointCache` (`CacheSpec`) |
| `cold_store_flush` | pass | loops that take each other's tmp names away: `flushColdWrites()` still returns (`FlushReturns`) |
| `decode_steered` | pass | steering, trie and drafter: between turns cells, counters and transcript agree (`Mirror`), the text is the target's own (`OwnOutput`), the shadow context has seen what the target has (`ShadowAligned`), what ends a turn does not stay in the KV (`CleanCommit`) |
| `decode_plain` | pass | greedy decoding with a drafter whose re-tokenization differs, every native call may fail and the window is as small as a turn: the text is the plain loop's and at most two tokens longer (`PlainOutput`), and a turn ends (`TurnEnds`) |
| `agent_loop` | pass | start, resume, replay, repeated starts, new loops, crashes, failed prefills, appends and restores and lost turns over prompts with a BPE seam at a rung: until the context is harmed unseen the cells spell the text and the logits are theirs (`Spelled`), and so does every checkpoint (`Faithful`); what a *prefill* captures is right even then (`PrefillCaptures`) |
| `agent_loop_retokenized` | violation | without any fault, a replay that matches a mid-session checkpoint as a whole decodes a token in place of another one, and the context no longer spells the prompt (`PromptInContext`) |
| `conversation` | pass | histories that grow, are cut back and compacted, over two brains, with resets, foreign edits, the idle timer, overflows and failing starts: the loop was told what `prefixSig` says (`Told`), what counts as fed is in the context of a loop started once (`FedIsThereOnce`), nobody holds a freed model (`LiveModels`), a reset takes effect after the turn and once (`ResetHolds`), a turn comes back (`TurnReturns`) |
| `turn_worker` | pass | two callers, aborts at any time, requests that cannot be cloned, a worker that dies: one decode at a time (`SingleDecode`), no aborted reply gone on with (`Forgotten`), every turn answered (`TurnsEnd`) |
| `turn_worker_abort` | violation | an abort announced before the request is cleared by the turn it was meant for (`AbortHeeded`) |
| `agent_session` | pass | two callers, steering, follow-ups, parallel tools, bash beside them, retries, compaction by hand, by threshold and after an overflow, aborts: every message is in one place, and what the client is shown as queued is on its way (`Conserved`), the transcript is the session's (`AgreesWithSession`), results follow calls (`ResultsFollowCalls`), retries are bounded where the client cancels none (`RetriesEnd`), what is queued is taken (`QueueServed`) |
| `session_file` | pass | two processes, two files, new, left by others or of the first version (perhaps compacted), with one write cut short: what was said is in the file (`Saved`), a fork is the path it was made of (`ForkKeeps`), readers see the trees they were promised (`TreeSpec`) |
| `orchestrator` | pass | two instances, two starts, what Radius forgets, what fails, stops by clients, by shutdown and by failed spawns, together: no child runs that nobody can stop (`Attended`), records and heartbeats are those of what is there (`Truthful`), a cleanup or shutdown under way ends, unless the orchestrator exits, dies or gets stuck first (`StopsEnd`) |

Each module that a run instantiates has its type invariant (`TypeOK`) checked by one of its runs.

**Bounds.** `MaxQueue` 1 per loop: the head of the queue is the only capture that touches the
directory, those behind it only wait. `MaxHits`, `MaxAge` 1 give the score four different worths per size and kind;
`Budget` 3 with files of 1 and 2 makes evictions of none, one and several, and of files that do
not fit with another. Two loops are enough for one to be draining while another lives; four or
five inodes cover every name and descriptor. Two prompts share a line; the short one continues it
with a space that fuses with the newline, which is the seam, the long one has two rungs and does not fit the
`Window` of 10. `MaxRungs` 2, `Block` 2, `Kept` 2: rungs that are kept, skipped and evicted. `MaxHarms` 1: what follows a second
harm no property claims more of than after the first. `MaxBehind` 1 limits how many captures are
pending when a start begins; several still pile up in it. `MaxText` stops a transcript from
growing, once it is longer than a prompt and a turn. In the decode instances a turn has three
tokens, a draft two, a trie proposal two, so that drafts are accepted whole, in part and not at
all; `Headroom` is what the engine's compaction threshold keeps free, and 0 in `decode_plain`,
where the window fills up; a draft there may be of four tokens, longer than a turn. In `conversation` `KeepRecent` is 2 where the code has 5, so that compaction takes place within
`MaxLen` 7 messages (one tool result per reply); two files, so that one can be active while the other was read before, and
`MaxVersion` 2, one edit each. `MCView` forgets inode names and the contents of files nothing refers to.

In `turn_worker` two callers ask for three turns, so that one is decoded while another waits and a
third comes after a reset or a death; `MaxCrashes` 1 and, since one death may cost the client two
workers, `Worker` 1..3; `MaxRounds` 1: an abort before or after a decode. In `agent_session` a
message, a call and a reply are there once or twice (`MaxCalls`, `MaxRounds`, `MaxRetries`,
`MaxCompactions`, `KeepRecent` 1; a batch of several results is left to the theorem `ResultsInOrder`); `MaxTroubles` 6 adds up what makes a history long, a reply that
failed at 1, one that overflowed or was cut off at 3, and a client's call that is no message at 3: three
failures and the abort of a backoff between them, an overflow and three failures, two calls, two overflows; one
retry, one overflow and an abort between them need no more. In `session_file` files
left by others have up to three entries (`FirstId` 3), two more are appended (`MaxId` 5) and
one write is cut (`MaxHurt` 1); `MCBound` adds three bounds on actions, which its comment names: after a cut,
sessions are only opened, spoken in and copied, so that forks after a cut are left to the theorem `ForkIsPath`; a second reply is like a question; the leaf is moved
only while something can be appended. Only `p1` (`Editor`) labels, compacts and moves the leaf. In
`orchestrator` a failure, a lost registration and a client's call cost 1, a second start 1 and a
second instance 2, of `MaxTroubles` 3: two instances meet one trouble, one instance three. An
instance's calls touch no other instance's state but through `shutdown()`, the re-registration of
all and the recovery, for which two are enough.

**Deadlock.** The decode runs say `CHECK_DEADLOCK FALSE`: after an error that escapes (`pc =
"over"`) the host drops the loop, which is outside the module, and with the window full an idle
loop has no input it can take. So do `agent_session`, `session_file` and `orchestrator`, where the bounds end
it: a session at rest whose user has said everything, processes that have given all ids away, an orchestrator
that has used its starts. The other runs check deadlock; `turn_worker` stays
alive when all turns are done because a caller may open and close runs.

**Fairness.** `cold_store_flush`: `WF(WriterStep(l))`, since libuv completes each operation it was
given (with or without an error) and the chain runs on; `WF(EndFlush(l))`, since an awaited
promise that is settled resumes its caller. `decode_plain`: `WF(LoopStep)`: an await of a native
call ends and the loop goes on. `conversation`: `WF(EngineStep)`: the same for the calls `runTurn()`
awaits, which end by a reply or by an error; that its retries do not go on for ever is the code's doing. `turn_worker`: `WF(ClientStep)` (reactions
and events are dispatched), `WF(DeliveryStep(w))` and `WF(WorkerStep(w))` for each worker: messages
and the events of a dead thread are delivered and a live thread goes on; an engine's turn ends, which is what
`conversation` shows. `agent_session`: `WF(SessionStep)`: replies, tools, listeners, backoffs and summaries
end, by success or by an error; nothing is assumed of the client. `orchestrator`: for each instance `WF(CleanupStep(i) \/ Killed(i))`: Radius
answers a disconnect, well or badly, and a child that was killed ends; `WF(ShutdownStep)`: a shutdown goes on to its next
instance and to its exit. A stuck orchestrator can take none of these steps, so nothing is assumed of it. A child that never answers
`get_state` is not assumed away: its spawn waits for ever, as the code has no timeout, but a stop of it ends. No fairness is assumed of the host, the user or crashes.

## 4. Proofs

`ColdStoreProofs`, for all constants that satisfy the assumptions named in `ColdStore`
(`SnapshotAssumption`, `TruncatedAssumption`, `HostAssumption`, `InodeAssumption`, `BoundAssumption`):

- `TypeCorrect == Spec => []TypeOK`. `TypeOK` is not inductive: `Publish` and `Write` take the
  head of a queue that nothing in `TypeOK` says is not empty. `TypeInv` adds `HeadOpen`: a
  descriptor is open, and the write position beyond the first block, only while the queue has a head.
- `WholeCheckpoints == ASSUME Drained PROVE Spec => []OnlyWholeCheckpoints`, for any number of loops. The
  inductive invariant is `TypeInv /\ SafeInv`. `OnlyWholeCheckpoints` alone says nothing about
  the file a rename is about to publish; `WrittenSoFar` says what the blocks behind the write
  position hold, `WriteOwnsItsTmp` that the renamed file is the one that was written,
  `Unaliased` that it is not at the same time a checkpoint (which the next `open('w')` would
  truncate), and `OneWriter` that nobody else opens or sweeps it. `OneWriter` is where
  `Drained` is needed: without it the theorem is false (section 5, item 1).

The proof has a lemma per action (`OpenStep`, `WriteStep`, `PublishStep`, ...); actions that touch
neither tmp files nor writers share `ReaderStep`.

`TurnWorkerProofs`, for all callers and bounds (`WorkerAssumption`), has six theorems from one
inductive invariant `Inv`:

- `TypeCorrect` (`TypeOK`), `OneTurnAtATime` (`SingleDecode`), `AbortedIsForgotten` (`Forgotten`) are what
  the run `turn_worker` checks; `ResetsBetweenTurns` (a reset never reaches a worker inside a turn),
  `AbortIsKept` (an abort that finds its turn posted stays in the cell until that turn is answered) and
  `HeldOpen` (the process is held open exactly while the client's worker has a turn in flight) are proved only.
- None of them is inductive. That an engine is in one turn follows from what may be in the ports:
  `Chained` (behind a turn nothing is posted before it is answered), `Located` (what the client waits for
  is the current turn, and is with its worker) and `Expected` (that worker is at it and has not
  answered it). `Disowned` carries an aborted reply from its answer to its reset: it is never generated again, and while
  a conversation holds it a `Reset` is in that worker's inbox; with `Chained` the reset comes before
  the next turn is taken in. `Unstarted` and `Spare` say that there is always a thread left to start, which
  makes `getWorker()`'s choice total: a death is noticed at most twice, so `2 * MaxCrashes + 1` threads
  are enough; it is the one place where cardinalities are needed.
- `StepKeeps` has a lemma per part of `Inv` and, under it, a step per action. `ResetsBetweenTurns` also says that
  `Conversation`, whose `Reset` may come at any await, is checked for more than this client does.

`ColdStoreProofs` proves two more for drained loops: `ImplementsCache` (`Spec => CacheSpec`, the refinement the run
checks) and `StaysWithinBudget`.

- `ImplementsCache == ASSUME Drained PROVE Spec => CacheSpec`. `CacheInv` adds `Leftovers` to the invariant of
  `WholeCheckpoints`: a file of an earlier version has no payload until a whole checkpoint takes its name, so
  that a hit is a whole capture. `CacheStep` has a step per action: `Publish` is the cache's write, a sweep or an
  eviction forgets, a lookup answers what the cache holds, and every other step stutters.
- `StaysWithinBudget == ASSUME Drained, FitsAtFirst PROVE Spec => []WithinBudget`, for any sizes. The budget is checked
  before a write and exceeded after it, so `Afforded` says of a write in flight that room has been made for it,
  and `Swept` that while a loop lives a tmp name is that of a write in flight: what the directory holds besides is
  gone. `TotalSize` is a fold of the community modules over a set; `FitsAtFirst` is needed because nothing evicts
  files that are there at first before the first write.

What is defined by a fold (`TotalSize`, `Render`, `Text`, the branch of an entry) or picked from a sequence needs lemmas
that are inductions over data, for which the prover has no rule that could be used here. Each proof module proves those it
needs (`SumWithMore` and `SumOfFewer` in `ColdStoreProofs`, `FlattenBoth` in three of them,
`LoadedMore` and `BranchUnfolds` in `SessionFileProofs`, ...) by a least counterexample, `LeastFailure`: a fold is the value
of a recursive function, which exists since it exists on smaller arguments.

`DecodeLoopProofs`, for all constants that satisfy `ModeAssumption`, `TokenAssumption`, `TextAssumption`, `DraftAssumption`,
and `Setting`, which is `Sampler` for all texts: the target's choice is an argmax over the tokens that are not masked,
of which steering leaves some, a temperature of 0 picks it, and a text has tokens. Seven theorems from one
inductive invariant `Inv`:

- `TypeCorrect`, `Mirrored` (`Mirror`), `SameText` (`OwnOutput` with steering, until one of the two failures is met), `PlainText`
  (`PlainOutput` without), `Aligned` (`ShadowAligned`, until then, where the drafter tokenizes as the target does:
  `SameTokens`) and `CommitsClean` (`CleanCommit`, an action property).
- Between turns says little about a round, so `InStep` says at every point of a turn what the target has decoded:
  the transcript and all generated tokens but those `Undecoded`. With it, `Own` follows token by token: verification
  compares a draft with what the target chooses from exactly the cells before it. `Shadow` says the same of the drafter
  with what is still to be appended to it, through rounds in which it is detached, attached, fails or is rewound.
  `Phases` ties the variables of a turn to `pc`; `Short` bounds how far a round can overshoot `maxTokens`.

`AgentLoopProofs`, for all constants that satisfy `SizeAssumption` and `TextAssumption` and a tokenizer that is `Lossless`
(the tokens of a text spell it; nothing is assumed about where a cut text's tokens end):

- `TypeCorrect` (`TypeOK`) and `CapturesItsText` (`PrefillCaptures`) from `CoreInv`: `Staged` says that in a prefill the context
  holds exactly the prompt's first `done` tokens (`Reached`) and that the rungs to come are prefixes of the prompt in
  text *and* in tokens (`Ahead`), which is what a seam could break; `Captures` that a checkpoint of a prefill is its
  text's tokens. The count of checkpoints (`Fitting`) is where cardinalities are needed.
- `ContextSpells` (`Spelled`) and `CheckpointsAreFaithful` (`Faithful`) from `SpellInv`. Neither is inductive alone: a resumed context spells
  its prompt because the checkpoint does, and a mid-session checkpoint is faithful because the context spells. A
  `continue()` that fails half way leaves cells behind `nPast` that a checkpoint must not take; `Session` therefore
  also says that while such cells are there, fewer than `Block` tokens have come since the last checkpoint. That holds
  because `continue()` checkpoints before it appends.

`ConversationProofs`, for all constants that satisfy `EngineAssumption`, has five theorems from one inductive invariant `Inv`:
`TypeCorrect`, `ToldCorrectly` (`Told`), `BreadcrumbsHold` (`FedIsThereOnce`), `NoFreedModel` (`LiveModels`) and `ResetsHold` (`ResetHolds`).

- All of them are about the time between turns, which a turn only reaches through its calls: `InCall` says of each awaited
  call what it will make of the loop (`Sound`: told the messages, and with the content of what counts as fed), and that
  `prefixSig` will claim no more. That a transcript or an append tells *everything* needs what histories look like
  (`Historic`: a result directly follows its call) and where the loop stands (`Answers`: up to that call, or on a compacted
  history, whose mark `Brief` no history extends). Otherwise `start()`, which stops at the last user message, could
  drop a result. `Live` is what makes `LiveModels` inductive: a loop of the small model always holds the loaded instance.
- `Render` over a history is a fold; `RenderedKeeps` unfolds it message by message as above.

`OrchestratorProofs`, for any number of instances, starts and failures (`BoundAssumption`, `RecordAssumption`):

- `TypeCorrect`, `NobodyIsForgotten` (`Attended`), `ToldTruly` (`Truthful`) from one inductive invariant. `Held` says of each child who
  has it in hand: the map with the exit listener bound, or a cleanup that found it; and that a cleanup which starts has
  taken the listener away first, so that it and the exit handler never both dispose of one child. `Said` says what
  may still be written about an instance that ends: nothing under way registers it, no heartbeat is posted, and neither
  record nor file calls it online; `Known` that whatever goes on for an instance, its record is there. `Starting`
  carries `Said` over a crash: what the recovery read and will write back calls nobody online.
- `SameKeeps` is why most steps need a proof for one instance only.

`AgentSessionProofs`, for any number of callers, messages, tool calls, retries and compactions and whatever fails how often
(`AgentAssumption`, `SessionAssumption`):

- `TypeCorrect` (`TypeOK`), `ResultsInOrder` (`ResultsFollowCalls`) and `RetriesBounded` (`RetriesEnd`) from one inductive
  invariant, `Inv == Types /\ (~astray => Orderly)`. `Types` knows what a compaction may keep: it begins neither behind the end of the branch nor with a
  tool result (`MayKeep`, `Sound`), so that the context rebuilt from it has no result without its call (`Rebuilt`).
- The counter says little by itself: a failure is announced, persisted, found by the caller of the run and only then counted,
  and in between messages are injected, results flushed and transcripts rebuilt. `Fine(es, cs, n)` is what n uncounted
  failures leave of the bound; `EventCounted`, `ReplyCounted` and `RunCounted` carry it from the announcement to the next
  request, or to a transcript that ends with the failure, where only a new message is an occasion for a request
  (`Settled`). `ReplyWaits` says that a failure which was heard last is still looked at before the next run. `BatchPaired` gives the next
  result of a batch its place, in the transcript and on the branch, which lags behind by the announced message.
- With an event unheard or another caller's step during a run (`astray`) these are false, as section 5 says of `compact()`.
- `NoMessageIsLost` (`Conserved`), astray or not, from `Types` and a second inductive invariant, `Found`. `Conserved` adds the places up, and so cannot
  tell which of two callers lets go of a message; `Whereabouts` says where it is: once in a queue, a run, an announcement or
  on the branch, or with one caller, or passed on unheard. It needs that a caller holds one message at most, and none outside of
  "starting" and "compacting" (`HoldsOne`), and that a run which is not about to inject has injected all it drained.
  `CountBoth` and `CountMore` say how often a message is in a sequence, again by a least counterexample. What the client is shown
  (`Displaying`) is inductive with them: a drain moves what is shown from a queue to the run (`HasParts`), and a message that begins
  leaves the display since it is in no queue besides (`StartedDisplays`).
- `TranscriptAgrees` (`AgreesWithSession`) from `Inv` and a third, `Agreeing`. The property speaks of the session at rest, so
  `Agreement` says what holds in between: transcript and branch give the same but for failures, and a message that is announced is in the transcript
  and will be put on the branch. A retry and an overflow drop the transcript's last reply without
  looking whether it is the failure that was heard: `ReplyHeld` (a reply that was heard is looked at before a summary rebuilds the
  transcript) and `FailureHeld` (until then, a transcript that ends with a reply ends with a failure) say that it is. What is put behind a branch comes
  behind its context (`ContextBoth`, `ContextMore`), which needs `Sound`: a compaction keeps from a place of the branch.
  `WithoutFaults` concatenates what is left of each message, so that `FaultsBoth` can take it apart.

`SessionFileProofs`, for any number of processes and files, wherever writes are cut (`FileAssumption`, `BoundAssumption`, and
`FoundAssumption`: a file left by an earlier process holds entries with ids of their own of which each is a root or has its
parent before it, and one of the first version entries without ids; that ids differ is `generateId()`, session-manager.ts:217,
but for two processes that draw the same eight random digits for one file):

- `TypeCorrect` (`TypeOK`), `NothingUnsaved` (`Saved`) and `ImplementsTrees` (`Spec => Trees!Spec`) from one inductive invariant,
  `IInv`: `FileFine` for each file and `SessionFine` for each process. A file has one header, holds no id that is still to be
  given away and, unless a write to it was cut, is whole and rooted. A session knows no later id either; once
  written, it is `Within` its file; before, it is a tree of its own and has no reply, unless its file was hurt or it fell
  behind. `Saved` alone is not inductive: whether what is appended has its parent in the file depends on what the
  session was when it was opened, forked or branched.
- `ImplementsTree` is the property the run checks (`TreeSpec`), which asks for a step of `SessionTree` only where the files
  or their harm change (`Touched`) and so spares TLC the rest; the others stutter (`TreesRooted` and the invariant show it).
- Two lemmas carry all steps that write: `WholeWrites` is a file written at once, `LineWrites` a line appended, each with
  every cut the write may suffer; `CutOfFile` and `CutOfLine` say what can be read of it then. `LoadedMore` says
  what lines behind others add for a reader, `WithinMore` that a session's entries stay in order while others append
  between them. `MigratedIs` and `BranchedIs` are what migration and `createBranchedSession()` make: trees, the first with
  the same entries, whose compactions keep from the same place (`Same` in `SessionTree`).

- `ForkIsPath` (`ForkKeeps`, an action property) from `IInv` and a second inductive invariant, `SInv`: in every file and every
  session the entries are `Ordered`, their ids differ, and no entry is the parent of an earlier one. Without it the
  property is false: `getBranch()` looks ids up in a map, and a path that met an id twice would retain both entries where the
  fork finds one. `PathIs` gives a path ids of its own, `BranchedChain` that what `createBranchedSession()` makes is a
  chain, `ChainBranch` that the branch of a chain's leaf is the chain itself, so that nothing a fork wrote is off its path.
  What is left out and what is shown are filters (`Kept`): `KeptTwice` and `KeptAlike` carry messages over. For the
  context the path is cut at its newest compaction (`Parts`, `PartsExist`); dropping the labels leaves such parts
  (`RetainedParts`), unless the compaction keeps from a label on, which is the case `ForkKeeps` leaves out;
  new parents and labels behind do too (`AlikeParts`), and `ContextOf` is the context of the parts. `LabelsAlike` is the labels.

Every safety property a passing run checks is a theorem, invariant, action property or refinement. Only model-checked are the
six liveness properties: fairness is beyond the prover.

## 5. Where code, comments and expectations disagree

With a run of its own:

1. `provider.ts:127` (`turn_worker_abort`, `AbortHeeded`): when the signal is aborted before the request is made,
   as with Esc while a tool executes, line 178 sets the abort cell and the turn's own start clears it. The
   turn is decoded to its end and thrown away.
2. `agentLoop.ts:574` (`agent_loop_retokenized`, `PromptInContext`): the check on resume re-tokenizes the text and compares
   the count, not the cells, so a mid-session checkpoint of generated tokens is accepted where the text's own tokens are
   others. When its text is the whole prompt, the last cell is rewound and the prompt's last token decoded in its place, which
   need not be the same token: characters are lost or doubled. Lines 533-534 say that the KV is left as exactly the
   prompt's tokens. It is one of the five harms of `AgentLoop`.

Met while modelling. The passing runs leave the case out, by a premise that its comment names, or show it nowhere
because no property claims the opposite.

*Cache and conversation*

- `kvColdStore.ts:271`: a loop constructed while its predecessor drains
  unlinks the predecessor's tmp file (the sweep of line 193 takes live ones, not only "stale"
  ones) and opens another of the same name for the same text; the predecessor renames it half written.
  `Drained = TRUE` in `cold_store` excludes it; with `FALSE`, `OnlyWholeCheckpoints` fails.
- `agentLoop.ts:1300`: `forceToolCallTagClose()` is called by the plain loop only, so the speculative
  rounds write another text where the tag is repaired; the runs sample without the repair.
- `conversation.ts:1168`: a mixed request (a user message while a tool result is
  pending: steering, or a prompt after an abort) calls `start()` on the live loop; `fedFiles` is
  cleared only with a new loop, so the rebuilt context has breadcrumbs for content it lacks.
- `conversation.ts:1265`: only `/exceed context size/i` drops the loop.
  Any other error of a first `start()` or `replay()`, among them `forwardAsync()`'s own "exceeds" (`binding_gpu.cpp:901`), leaves a loop that was
  never started with an empty `prefixSig`, which `extendsPrefix()` takes for a prefix of everything.
- `agentLoop.ts:1015`: `return emptyStep()` skips the update of `nPast` and `transcript` although the
  tokens before are in the KV, against the comment at line 978: `lost` in `DecodeLoop`.
- `kvPrefixCache.ts:98`: `kvCacheFork` is called as if it copied into sequence 0; it takes the source
  only and makes a new sequence, so a second `start()` of one prompt on one loop finds sequence 0 empty.
- the correction of `mtpVerifyBatch()` that overflows after `n_past_` has moved
  (`binding_gpu.cpp:1514`), the ignored result of `kvRestore()` (`kvColdStore.ts:409`), the mid-session
  checkpoint of a conversation that has lost count (`agentLoop.ts:726`).

*Worker*

- `provider.ts:113`: one cell for all turns: the abort of a caller whose turn still waits stops the
  turn that is being decoded, another caller's.
- `provider.ts:95-103`: a worker that fails is let go of by `error` and again by `exit`. The second
  rejects a turn that has been posted to the successor meanwhile and forgets that worker, which goes
  on decoding, keeps its model and keeps the process alive.
- `provider.ts:128-130`: when `postMessage()` throws (a request that cannot be cloned) the turn's entry
  stays in the pending map, which then never drains.

*Agent and session*

- `agent-session.ts:1678`: `compact()` stops listening before the run it aborts has ended, so what that
  run still produces is neither mirrored nor saved (`unheard`, `astray`); comments at 354-355 and
  716 say that the session listens all the time.
- `agent-session.ts:2075`: after a reply that ended with `length` and is taken for an overflow, the retry is
  announced but the reply stays the last message, and `continue()` throws.
- `agent-session.ts:2565-2574`: a cancelled retry resets the counter after the failed reply was dropped from the transcript
  (line 2556). A message that is queued then is continued with, which sends the failed request again, uncounted,
  where `docs/rpc.md:415` says that `abort_retry` stops retrying (`cancelled` in `RetriesEnd`).
- `agent-session.ts:1417-1425`: `clearQueue()` returns what is on display, and a message stays there from the drain to its
  `message_start`: one that a run has drained is put back into the editor and said by the run as well. One that was said after
  `compact()` had stopped listening stays on display for good. `Conserved` admits both (`Displayed`).
- `agent-session.ts:1012`: "the agent loop drains both queues before agent_end" is not so after a
  reply that failed or was aborted; `Continues`, the code below that comment, is what serves the queues then.

*Session files*

- `session-manager.ts:1335`: a compaction may keep from a label on (`findCutPoint()` moves back over labels);
  the fork drops label entries and the id the compaction refers to is gone, so that
  everything it kept is lost from the context. `docs/sessions.md:32` promises the path.
- `session-manager.ts:1510-1526`: `forkFrom()` writes a header of the current version over entries that
  were read without migration (`docs/session-format.md:27`): entries without ids, for ever.
- `session-manager.ts:934-961`: when the first flush (`wx`) fails after it has created the file, every later
  one fails with `EEXIST`; the session goes on in memory only (`behind`).
- `session-manager.ts:1277-1291`: a moved leaf is not persisted; a reopened session continues from the last line.
- `agent-session-runtime.ts:309`: `fork()` reads the file, not the memory of the session it is called for: entries a
  failed write did not take are not in the fork.
- `session-manager.ts:398-401`: an older compaction within what the newest one keeps is shown to the model,
  which the comment excludes.
- An append behind a torn line is glued to it, so that one torn write costs the next entry too
  (`GrowHarmed` in `SessionTree`), and with it the parent of the one after.

*Orchestrator*

- `supervisor.ts:291`: a stop, or the child's exit, while `registerPi()` is awaited: the answer puts the record back as
  "online", of an instance that is in no map, and starts a heartbeat that nobody stops (`crossed`).
- `supervisor.ts:187`, `radius.ts:440`: a re-registration overwrites the record with the copy it began with (an
  instance that came online goes back to "starting"), and brings back the record and heartbeat of one that was stopped.
- `supervisor.ts:128`: the exit handler's `updateRecord()` re-inserts a record that a stop has removed, and with
  `radiusPiId: undefined` does not clear the resource it is called for.
- `supervisor.ts:161`: when `disconnectPi()` throws, the child is never disposed of (`leaked`). In `shutdown()` the
  instances behind it are not stopped and the rejected `shutdownPromise` is an unhandled rejection, whose handler
  (`serve.ts:69-72`) awaits the same promise (41-43) and so rejects again: the process does not exit, and as each rejection is
  handled before the event loop goes on, no answer, exit event, signal or request is served either, a stop that overlaps
  the shutdown among them. The same follows when `radiusPresence.stop()` fails. It is the host `stuck` of `Orchestrator`;
  `StopsEnd` speaks of orchestrators that are not.
- `supervisor.ts:254`, `serve.ts:12-19`: the server listens before the recovery, which writes back what it read; a spawn in between loses its record.
- Records with status "error" or "stopped" that a failed spawn leaves are never removed: `stopInstance()` finds live instances only.

## 6. Not modelled

- *Of the engine*: path tokens, the buffered stream of the small brain, the translation of ideogram edits, intent
  classification, model loads that fail, several tool results in one reply; steering's way out after 20 rejected tokens
  (`MAX_REJECTS`, `ideogramSteering.ts:112`), as every poisonous token is masked; histories in which one message was put in place of another with
  its role, length and first 32 characters, which are one to `messageSig()` (`conversation.ts:171`).
- *Of the worker*: streamed tokens, the sanitizer of replies, the conversion of tools.
- *Of the session*: extensions, models and thinking levels, navigation in the tree, branch summaries; `AgentSession`
  works on one branch and `SessionFile` on trees of entries that say nothing of tools and retries.
- *Of the session files*: entries the model is not shown (settings, custom entries, names), listing, the in-memory session of the SDK;
  files of the second version, which are rewritten in place too when they are opened (`session-manager.ts:837`), where a cut costs entries
  that already have ids.
- *Of the orchestrator*: the IPC server, RPC streams and events, session ids in a record, a torn `instances.json`
  (which makes every later start fail), operation without Radius, a `machine` that is not registered.
- *State snapshotter*: only the REPL's tool loop uses it, and decodes nothing between a snapshot and its rollback.
- *REPL*: initialisation, routing and verification; its `freeSession()` is `ColdStore`'s `BeginFlush`.
- *Prefix cache shared by the two models of a session*: `AgentLoop` has one model.
- *Continuous prefill, SpeculativeDecoder*: no caller, or off in every caller.
- *Text*: prompt building, steering's state machine, AST tagging, edits, validators, intent classification.
- *TUI, cloud providers, extension loading, package manager, HTML export*: rendering, wire formats and generated
  tables of models, which are the larger part of the repository's lines. They keep little state that another part relies
  on, and what they promise is about text, which a model of this kind abstracts from.
- *Native code below `binding_gpu.cpp`, the vendored suffix tree, llama.cpp*: external; modelled by
  what the callers rely on, or as arbitrary.

## 7. Plan

1. The composition of `TurnWorker` with `Conversation`: its set of turns as a refinement of what the loop was told.
2. Extension loading and the TUI's request queue, where they meet the session (`core/extensions/runner.ts`).
