---------------------------- MODULE AgentSession ----------------------------
(***************************************************************************)
(* The session around the agent (utter/packages/coding-agent/src/core/     *)
(* agent-session.ts): it listens to the agent and persists what it hears,  *)
(* mirrors the queues for display, continues a run after it has ended      *)
(* (retry, compaction, messages still queued), defers the results of the   *)
(* user's own commands, and compacts the transcript.                       *)
(*                                                                         *)
(* prompt() may be called again while an earlier call still waits: each    *)
(* call is a caller d, and driver[d] says where it stands.  The steps of a *)
(* caller that follow each other without a macrotask between them ("post", *)
(* "again") are not interrupted by the client or the model.                *)
(***************************************************************************)
EXTENDS Agent

CONSTANTS
  MaxRetries,       \* settings.maxRetries
  KeepRecent,       \* settings.keepRecentTokens, in messages
  MaxCompactions    \* bound on the compactions

ASSUME SessionAssumption ==
  MaxRetries \in Nat /\ KeepRecent \in Nat \ {0} /\ MaxCompactions \in Nat

VARIABLES
  entries,          \* the session's branch, root to leaf
  driver,           \* the calls of prompt() that have not returned
  compaction,       \* the call of compact(): waits for the run, or for the summary
  shown,            \* _steeringMessages and _followUpMessages
  lastAssistant,    \* _lastAssistantMessage
  retryAttempt,
  sleeper,          \* whose backoff _retryAbortController would abort
  overflowTried,    \* _overflowRecoveryAttempted
  pendingBash,      \* _pendingBashMessages
  ran,              \* commands that have returned
  fate,             \* history: what has become of a message
  unheard,          \* history: messages that began or ended with nobody listening
  cancelled,        \* history: how long the branch was when a retry was cancelled
  astray            \* history: an event went unheard, or a call of prompt() went
                    \*   on during the run of another

history == <<fate, unheard, cancelled>>
session == <<entries, driver, compaction, shown, lastAssistant, retryAttempt, sleeper,
             overflowTried, pendingBash, ran>>
vars == <<agentVars, session, history, astray>>

Idle == [pc |-> "idle", holds |-> <<>>, retry |-> FALSE, kept |-> 0]
At(pc) == {d \in Caller : driver[d].pc = pc}
Urgent == At("post") \cup At("cancelled") \cup At("again")
NoCompaction == [pc |-> "none", kept |-> 0]
Queued == ToSet(steering) \cup ToSet(followUp)

----------------------------------------------------------------------------
(* The session's branch *)

Compactions(es) == {i \in DOMAIN es : es[i].is = "compaction"}
Newest(es) == CHOOSE i \in Compactions(es) : \A j \in Compactions(es) : j <= i

(* buildSessionContext(): the summary, what the last compaction kept (an     *)
(* earlier summary among it, too), and what came after it.                  *)
Context(es) ==
  IF Compactions(es) = {} THEN es
  ELSE LET c == Newest(es) IN
       <<es[c]>> \o SubSeq(es, es[c].n, c - 1) \o SubSeq(es, c + 1, Len(es))

(* Where the newest compaction's kept entries begin, and the entries of the  *)
(* branch that are messages.                                                *)
Boundary(es) == IF Compactions(es) = {} THEN 1 ELSE es[Newest(es)].n
MessagesFrom(es, i) == {j \in i..Len(es) : es[j].is # "compaction"}

(* findCutPoint(), for messages of one size: the first entry that is no tool *)
(* result among the KeepRecent newest messages, or else of all.             *)
CutPoint(es) ==
  LET valid == {i \in Boundary(es)..Len(es) : es[i].is \in {"user", "assistant", "bash"}}
      recent == {i \in valid : Cardinality(MessagesFrom(es, i)) <= KeepRecent}
      enough == Cardinality(MessagesFrom(es, Boundary(es))) >= KeepRecent
  IN  IF valid = {} THEN Boundary(es)
      ELSE IF enough /\ recent # {} THEN Min(recent) ELSE Min(valid)

(* prepareCompaction(): 0 when no message would be summarized.              *)
FirstKept(es) ==
  IF \/ Cardinality(Compactions(es)) = MaxCompactions
     \/ es = <<>> \/ Last(es).is = "compaction"
     \/ MessagesFrom(es, Boundary(es)) = MessagesFrom(es, CutPoint(es))
  THEN 0 ELSE CutPoint(es)

(* No assistant message is newer than the last compaction.                  *)
Stale(es) ==
  /\ Compactions(es) # {}
  /\ \A i \in Newest(es)..Len(es) : es[i].is # "assistant"

WithoutReply(ms) == IF EndsWithReply(ms) THEN Front(ms) ELSE ms
WithoutError(ms) ==
  IF EndsWithReply(ms) /\ Last(ms).ended \in {"error", "overflow"} THEN Front(ms) ELSE ms

----------------------------------------------------------------------------
SessionMessage ==
  [is : {"none", "user", "bash", "assistant", "toolResult", "compaction"},
   id : Msg \cup Bash \cup {NoId}, n : Nat,
   ended : {"", "stop", "toolUse", "error", "overflow", "length", "aborted"}]

(* Every variable has its type; a run has the caller that started it, and    *)
(* the session listens unless compact() is under way.                       *)
TypeOK ==
  /\ {messages, steering, followUp, entries, pendingBash, run.inbox} \subseteq Seq(SessionMessage)
  /\ run.pc \in {"off", "turn", "stream", "answered", "tools", "end"}
  /\ run.by \in Caller \cup {NoCaller} /\ (run.by = NoCaller <=> run.pc = "off")
  /\ event.kind \in {"none", "start", "end"} /\ event.message \in SessionMessage
  /\ driver \in [Caller -> [pc : {"idle", "starting", "running", "post",
                                  "backoff", "cancelled", "compacting", "again"},
                            holds : Seq(SessionMessage), retry : BOOLEAN, kept : Nat]]
  /\ compaction \in [pc : {"none", "stopping", "summarizing"}, kept : Nat]
  /\ (compaction.pc = "none" <=> subscribed)
  /\ shown \subseteq Msg /\ unheard \subseteq Msg
  /\ lastAssistant \in SessionMessage /\ sleeper \in Caller \cup {NoCaller}
  /\ retryAttempt \in 0..MaxRetries /\ overflowTried \in BOOLEAN
  /\ fate \in [Msg -> {"unsaid", "sent", "refused", "cleared"}]
  /\ ran \subseteq Bash /\ cancelled \subseteq 0..Len(entries) /\ astray \in BOOLEAN

Init ==
  /\ AgentInit
  /\ entries = <<>> /\ driver = [d \in Caller |-> Idle] /\ compaction = NoCompaction
  /\ shown = {} /\ lastAssistant = NoMessage /\ retryAttempt = 0 /\ sleeper = NoCaller
  /\ overflowTried = FALSE /\ pendingBash = <<>> /\ ran = {}
  /\ fate = [u \in Msg |-> "unsaid"] /\ unheard = {}
  /\ cancelled = {} /\ astray = FALSE

----------------------------------------------------------------------------
(* Where a call of prompt() goes on.  It still holds its messages while it  *)
(* has not begun a run; ms, es and bash are what messages, entries and      *)
(* pendingBash are at this point of the call.                               *)

State(ms, es, bash) == messages' = ms /\ entries' = es /\ pendingBash' = bash
Goto(d, pc, holds) == driver' = [driver EXCEPT ![d] = [Idle EXCEPT !.pc = pc, !.holds = holds]]

(* Mutant of Return: the flushed results are not persisted.                 *)
ReturnUnsaved(d, ms, es, bash) ==
  driver' = [driver EXCEPT ![d] = Idle] /\ State(ms \o bash, es, <<>>)

(* The `finally` of _runAgentPrompt(): deferred results are flushed.        *)
Return(d, ms, es, bash) ==
  driver' = [driver EXCEPT ![d] = Idle] /\ State(ms \o bash, es \o bash, <<>>)

(* Mutant of Continues: after a run nobody looks at the queues.             *)
ContinuesPromptOnly(holds) == holds # <<>>

(* After _checkCompaction(): a prompt starts in any case; after a run the    *)
(* queues decide.                                                           *)
Continues(holds) == holds # <<>> \/ hasQueuedMessages
GoOn(d, holds, ms, es, bash) ==
  IF ~Continues(holds)
  THEN Return(d, ms, es, bash)
  ELSE /\ Goto(d, IF holds = <<>> THEN "again" ELSE "starting", holds)
       /\ State(ms, es, bash)

(* _runAutoCompaction() up to the summary.                                  *)
AutoCompact(d, holds, retry, ms, es, bash) ==
  IF FirstKept(es) = 0 THEN GoOn(d, holds, ms, es, bash)
  ELSE /\ driver' = [driver EXCEPT ![d] = [pc |-> "compacting", holds |-> holds,
                                           retry |-> retry, kept |-> FirstKept(es)]]
       /\ State(ms, es, bash)

(* _checkCompaction(): an overflow is compacted away and retried once, any   *)
(* other reply may have left the context too large.                         *)
CheckCompaction(d, m, holds, ms, es, bash) ==
  LET checked == ~Stale(es) /\ (m.ended = "aborted" => holds # <<>>)
      overflow == checked /\ m.ended \in {"overflow", "length"}
  IN
  \/ /\ overflow => overflowTried
     /\ GoOn(d, holds, ms, es, bash) /\ UNCHANGED overflowTried
  \/ /\ checked /\ ~overflow
     /\ AutoCompact(d, holds, FALSE, ms, es, bash) /\ UNCHANGED overflowTried
  \/ /\ overflow /\ ~overflowTried
     /\ overflowTried' = TRUE
     /\ AutoCompact(d, holds, TRUE, WithoutReply(ms), es, bash)

----------------------------------------------------------------------------
(* The steps of prompt() and _runAgentPrompt() *)

Replied(ms) == {i \in DOMAIN ms : ms[i].is = "assistant"}

(* prompt() while the agent is not streaming: the deferred results are       *)
(* flushed and the last reply is checked before the message is sent.        *)
Prompt(u) ==
  /\ fate[u] = "unsaid" /\ ~isStreaming
  /\ fate' = [fate EXCEPT ![u] = "sent"]
  /\ LET ms == messages \o pendingBash
         es == entries \o pendingBash
         d == CHOOSE c \in At("idle") : \A e \in At("idle") : c <= e
     IN
     /\ At("idle") # {}
     /\ IF Replied(ms) = {}
        THEN /\ GoOn(d, <<User(u)>>, ms, es, <<>>) /\ UNCHANGED overflowTried
        ELSE CheckCompaction(d, ms[CHOOSE i \in Replied(ms) : \A j \in Replied(ms) : j <= i],
                             <<User(u)>>, ms, es, <<>>)
  /\ UNCHANGED <<steering, followUp, run, event, subscribed, rounds, troubles, compaction, shown,
                 lastAssistant, retryAttempt, sleeper, ran, unheard, cancelled>>

(* agent.prompt(), after the handlers of before_agent_start: it throws when  *)
(* another call has started a run meanwhile.                                *)
Start(d) ==
  /\ driver[d].pc = "starting"
  /\ IF isStreaming
     THEN /\ Return(d, messages, entries, pendingBash)
          /\ fate' = [u \in Msg |-> IF User(u) \in ToSet(driver[d].holds) THEN "refused" ELSE fate[u]]
          /\ UNCHANGED run
     ELSE /\ Begin(d, driver[d].holds, TRUE)
          /\ Goto(d, "running", <<>>) /\ State(messages, entries, pendingBash)
          /\ UNCHANGED fate
  /\ UNCHANGED <<steering, followUp, event, subscribed, rounds, troubles, compaction, shown, lastAssistant,
                 retryAttempt, sleeper, overflowTried, ran, unheard, cancelled>>

(* Mutant of Retries: off by one.                                           *)
RetriesOnceMore(m) == m.ended = "error" /\ retryAttempt <= MaxRetries

(* _isRetryableError() and the limit in _prepareRetry().                     *)
Retries(m) == m.ended = "error" /\ retryAttempt < MaxRetries

(* _handlePostAgentRun() up to its first await.                             *)
Post(d) ==
  LET m == lastAssistant IN
  /\ driver[d].pc = "post"
  /\ lastAssistant' = NoMessage
  /\ \/ /\ m = NoMessage
        /\ Return(d, messages, entries, pendingBash)
        /\ UNCHANGED <<retryAttempt, sleeper, overflowTried>>
     \/ /\ Retries(m)
        /\ retryAttempt' = retryAttempt + 1 /\ sleeper' = d
        /\ Goto(d, "backoff", <<>>)
        /\ State(WithoutReply(messages), entries, pendingBash)
        /\ UNCHANGED overflowTried
     \/ /\ m # NoMessage /\ ~Retries(m)
        /\ retryAttempt' = IF m.ended \in {"error", "overflow"} THEN 0 ELSE retryAttempt
        /\ CheckCompaction(d, m, <<>>, messages, entries, pendingBash)
        /\ UNCHANGED sleeper
  /\ UNCHANGED <<steering, followUp, run, event, subscribed, rounds, troubles, compaction, shown, ran, history>>

(* The backoff has elapsed.                                                 *)
Retry(d) ==
  /\ driver[d].pc = "backoff"
  /\ sleeper' = NoCaller /\ Goto(d, "again", <<>>)
  /\ UNCHANGED <<agentVars, entries, compaction, shown, lastAssistant, retryAttempt,
                 overflowTried, pendingBash, ran, history>>

(* It was aborted: "Retry cancelled", and the rest of _handlePostAgentRun().*)
RetryCancelled(d) ==
  /\ driver[d].pc = "cancelled"
  /\ retryAttempt' = 0 /\ sleeper' = NoCaller
  /\ cancelled' = cancelled \cup {Len(entries)}
  /\ CheckCompaction(d, Reply("error", 0), <<>>, messages, entries, pendingBash)
  /\ UNCHANGED <<steering, followUp, run, event, subscribed, rounds, troubles, compaction, shown,
                 lastAssistant, ran, fate, unheard>>

(* The summary of an automatic compaction, or its failure.                  *)
Compacted(d, ok) ==
  LET w == driver[d]
      es == Append(entries, Message("compaction", NoId, "", w.kept))
  IN
  /\ w.pc = "compacting"
  /\ IF ~ok THEN GoOn(d, w.holds, messages, entries, pendingBash)
     ELSE IF w.retry /\ w.holds = <<>>
     THEN Goto(d, "again", <<>>) /\ State(WithoutError(Context(es)), es, pendingBash)
     ELSE GoOn(d, w.holds, IF w.retry THEN WithoutError(Context(es)) ELSE Context(es), es, pendingBash)
  /\ UNCHANGED <<steering, followUp, run, event, subscribed, rounds, troubles, compaction, shown,
                 lastAssistant, retryAttempt, sleeper, overflowTried, ran, history>>

(* agent.continue(); when it throws, so does prompt().                      *)
Again(d) ==
  /\ driver[d].pc = "again"
  /\ \/ ContinueRun(d) /\ Goto(d, "running", <<>>) /\ State(messages, entries, pendingBash)
     \/ /\ ContinueThrows /\ Return(d, messages, entries, pendingBash)
        /\ UNCHANGED <<steering, followUp, run>>
  /\ UNCHANGED <<event, subscribed, rounds, troubles, compaction, shown, lastAssistant, retryAttempt,
                 sleeper, overflowTried, ran, history>>

----------------------------------------------------------------------------
(* _handleAgentEvent() *)

(* A user message starts: it leaves the display before anything is awaited. *)
Started ==
  /\ StartMessage
  /\ IF subscribed
     THEN /\ overflowTried' = FALSE
          /\ shown' = shown \ {event'.message.id}
          /\ UNCHANGED unheard
     ELSE /\ unheard' = unheard \cup {event'.message.id}
          /\ UNCHANGED <<overflowTried, shown>>
  /\ UNCHANGED <<entries, driver, compaction, lastAssistant, retryAttempt, sleeper, pendingBash,
                 ran, fate, cancelled>>

(* Mutant of Succeeds: any reply counts as a success.                       *)
SucceedsAnyhow(m) == m.is = "assistant"

(* A reply resets the counts of retries and of overflow recoveries.         *)
Succeeds(m) == m.is = "assistant" /\ m.ended \notin {"error", "overflow"}

(* A message has ended and the extensions' handlers have returned: it is    *)
(* persisted, by a listener that was there when it was emitted.             *)
Persist ==
  /\ event.kind = "end"
  /\ event' = NoEvent
  /\ LET m == event.message IN
     IF event.heard
     THEN /\ entries' = Append(entries, m)
          /\ lastAssistant' = IF m.is = "assistant" THEN m ELSE lastAssistant
          /\ overflowTried' = (overflowTried /\ ~Succeeds(m))
          /\ retryAttempt' = IF Succeeds(m) THEN 0 ELSE retryAttempt
          /\ UNCHANGED unheard
     ELSE /\ unheard' = unheard \cup ({m.id} \cap Msg)
          /\ UNCHANGED <<entries, lastAssistant, overflowTried, retryAttempt>>
  /\ UNCHANGED <<messages, steering, followUp, run, subscribed, rounds, troubles, driver, compaction,
                 shown, sleeper, pendingBash, ran, fate, cancelled>>

(* The run is over; its caller goes on, and a compact() that waited for it. *)
Finish ==
  /\ FinishRun
  /\ Goto(run.by, "post", <<>>)
  /\ IF compaction.pc = "stopping"
     THEN compaction' = [pc |-> "summarizing", kept |-> FirstKept(entries)]
     ELSE UNCHANGED compaction
  /\ UNCHANGED <<entries, shown, lastAssistant, retryAttempt, sleeper, overflowTried, pendingBash,
                 ran, history>>

----------------------------------------------------------------------------
(* The client *)

(* steer(), followUp(), and prompt() while the agent is streaming.          *)
Queue(u, how) ==
  /\ fate[u] = "unsaid"
  /\ fate' = [fate EXCEPT ![u] = "sent"] /\ shown' = shown \cup {u}
  /\ IF how = "steer"
     THEN steering' = Append(steering, User(u)) /\ UNCHANGED followUp
     ELSE followUp' = Append(followUp, User(u)) /\ UNCHANGED steering
  /\ UNCHANGED <<messages, run, event, subscribed, rounds, troubles, entries, driver, compaction,
                 lastAssistant, retryAttempt, sleeper, overflowTried, pendingBash, ran,
                 unheard, cancelled>>

(* abort() up to waitForIdle().                                             *)
Interrupt ==
  /\ AbortRun
  /\ IF sleeper \in Caller THEN Goto(sleeper, "cancelled", <<>>) ELSE UNCHANGED driver

Abort ==
  /\ Trouble(3) /\ (isStreaming \/ sleeper \in Caller)
  /\ Interrupt
  /\ UNCHANGED <<messages, steering, followUp, event, subscribed, rounds, entries, compaction,
                 shown, lastAssistant, retryAttempt, sleeper, overflowTried, pendingBash, ran,
                 fate, unheard, cancelled>>

(* clearQueue(): what is shown goes back to the editor.                     *)
ClearQueue ==
  /\ Trouble(3) /\ shown # {}
  /\ shown' = {} /\ clearAllQueues
  /\ fate' = [u \in Msg |-> IF User(u) \in Queued THEN "cleared" ELSE fate[u]]
  /\ UNCHANGED <<messages, run, event, subscribed, rounds, entries, driver, compaction,
                 lastAssistant, retryAttempt, sleeper, overflowTried, pendingBash, ran, unheard, cancelled>>

(* Mutant of Deferred: only while a tool runs.                              *)
DeferredForOpenCalls == run.open # {}

(* recordBashResult(): deferred while the agent is streaming.               *)
Deferred == isStreaming
BashReturns(b) ==
  /\ b \notin ran /\ ran' = ran \cup {b}
  /\ Trouble(3)
  /\ IF Deferred THEN State(messages, entries, Append(pendingBash, BashResult(b)))
     ELSE State(Append(messages, BashResult(b)), Append(entries, BashResult(b)), pendingBash)
  /\ UNCHANGED <<steering, followUp, run, event, subscribed, rounds, driver, compaction, shown,
                 lastAssistant, retryAttempt, sleeper, overflowTried, fate, unheard, cancelled>>

(* compact(): it stops listening, aborts and waits for the run.             *)
BeginCompact ==
  /\ compaction = NoCompaction
  /\ Trouble(3)
  /\ subscribed' = FALSE
  /\ Interrupt
  /\ IF isStreaming THEN compaction' = [pc |-> "stopping", kept |-> 0]
     ELSE compaction' = [pc |-> "summarizing", kept |-> FirstKept(entries)]
  /\ UNCHANGED <<messages, steering, followUp, event, rounds, entries, shown, lastAssistant,
                 retryAttempt, sleeper, overflowTried, pendingBash, ran, fate, unheard, cancelled>>

(* The summary, or the failure: nothing to compact, cancelled, an error.    *)
EndCompact(ok) ==
  /\ compaction.pc = "summarizing" /\ (ok => compaction.kept # 0)
  /\ compaction' = NoCompaction /\ subscribed' = TRUE
  /\ LET es == Append(entries, Message("compaction", NoId, "", compaction.kept)) IN
     IF ok THEN State(Context(es), es, pendingBash) ELSE State(messages, entries, pendingBash)
  /\ UNCHANGED <<steering, followUp, run, event, rounds, troubles, driver, shown, lastAssistant,
                 retryAttempt, sleeper, overflowTried, ran, history>>

----------------------------------------------------------------------------
(* A step of runLoop() that the session only hears of later.                *)
Loop ==
  /\ \/ StoreMessage \/ Request \/ Prepare \/ Answer
     \/ \E r \in Replies : Respond(r)
     \/ \E c \in 1..MaxCalls : Execute(c)
     \/ \E terminate \in BOOLEAN : EndTurn(terminate)
  /\ UNCHANGED <<session, history>>

PromptStep(d) == Post(d) \/ RetryCancelled(d) \/ Again(d) \/ Start(d)

Strays ==
  \/ event' # event /\ event'.kind # "none" /\ ~event'.heard
  \/ isStreaming /\ \E d \in Caller \ {run.by} : driver[d] # Idle /\ driver'[d] # driver[d]

SessionStep ==
  /\ \/ \E d \in Caller : PromptStep(d)
     \/ /\ Urgent = {}
        /\ \/ Loop \/ Started \/ Persist \/ Finish
           \/ \E d \in Caller : Retry(d) \/ \E ok \in BOOLEAN : Compacted(d, ok)
           \/ \E ok \in BOOLEAN : EndCompact(ok)
  /\ astray' = (astray \/ Strays)

ClientStep ==
  /\ Urgent = {}
  /\ \/ \E u \in Msg : Prompt(u) \/ Queue(u, "steer") \/ Queue(u, "followUp")
     \/ Abort \/ ClearQueue \/ BeginCompact
     \/ \E b \in Bash : BashReturns(b)
  /\ astray' = (astray \/ Strays)

Next == SessionStep \/ ClientStep

Spec == Init /\ [][Next]_vars
FairSpec == Spec /\ WF_vars(SessionStep)

----------------------------------------------------------------------------
(* Properties *)

Occurrences(u, q) == Cardinality({i \in DOMAIN q : q[i].id = u})
Places(u) ==
  Occurrences(u, steering \o followUp \o run.inbox \o entries \o <<event.message>>)
    + Cardinality({d \in Caller : Occurrences(u, driver[d].holds) > 0})

InOnePlace(u) ==
  IF fate[u] = "sent" THEN Places(u) = 1 \/ (Places(u) = 0 /\ u \in unheard)
  ELSE Places(u) = 0

(* A queued message is shown; what is shown is queued or has been drained.  *)
Displayed(u) ==
  /\ User(u) \in Queued => u \in shown
  /\ u \in shown => User(u) \in Queued \/ Occurrences(u, run.inbox) > 0 \/ u \in unheard

(* Every message a client has handed in is in exactly one place: held by a   *)
(* prompt() that has not begun its run, queued, drained by the loop, being  *)
(* announced to the listeners, or on the session's branch.  It is refused   *)
(* or cleared or nowhere; only the messages of a run that nobody listens to *)
(* may be missing.  The display follows: what clearQueue() gives back, which*)
(* is what is shown, is all that it clears, and besides at most what a run  *)
(* has drained and not begun (that is given back and said, too) or began    *)
(* while nobody listened.                                                   *)
Conserved == \A u \in Msg : InOnePlace(u) /\ Displayed(u)

AtRest ==
  /\ ~isStreaming /\ event = NoEvent /\ compaction = NoCompaction
  /\ \A d \in Caller : driver[d] = Idle
WithoutFaults(ms) ==
  FlattenSeq([i \in DOMAIN ms |-> IF ms[i].ended \in Faulty THEN <<>> ELSE <<ms[i]>>])

(* At rest the agent's transcript is what reopening the session would give,  *)
(* but for the failed replies that were dropped for a retry.                *)
AgreesWithSession ==
  AtRest /\ ~astray => WithoutFaults(messages) = WithoutFaults(Context(entries))

Paired(ms) ==
  \A i \in DOMAIN ms : ms[i].is = "toolResult" =>
    /\ i > 1
    /\ \/ ms[i - 1].is = "toolResult" /\ ms[i - 1].n = ms[i].n - 1
       \/ ms[i - 1].is = "assistant" /\ ms[i].n = 1 /\ ms[i - 1].n > 0

(* A tool's result follows its call or the result before it, whatever the    *)
(* user's own commands do meanwhile.                                        *)
ResultsFollowCalls ==
  ~astray => Paired(messages) /\ Paired(entries)

(* A request that fails again and again is retried MaxRetries times and no   *)
(* more, whatever queues and compactions come between: the counter is reset *)
(* by what counts as a success, or where the client cancels a retry.  What  *)
(* is queued then has the failed request sent again, once more uncounted.   *)
RetriesEnd ==
  ~astray => \A i \in DOMAIN entries : i + MaxRetries + 1 <= Len(entries) =>
    \/ \E j \in i..(i + MaxRetries + 1) : entries[j].ended # "error"
    \/ \E j \in i..(i + MaxRetries) : j \in cancelled

(* A message queued during a run is taken by that run or by one that its     *)
(* caller starts after it, also when the run ends in an error or an abort   *)
(* and never gets to its queues.                                            *)
QueueServed ==
  \A u \in Msg :
    (isStreaming /\ User(u) \in Queued) ~> (User(u) \notin Queued \/ astray)

============================================================================
