---------------------------- MODULE Conversation ----------------------------
(***************************************************************************)
(* The conversation engine: LocalConversationEngine.runTurn() and what     *)
(* interleaves with its awaits (utter/packages/coding-agent/src/core/      *)
(* local-provider/conversation.ts).  The harness sends its whole history   *)
(* with every request; the engine decides what of it the live loop has     *)
(* been told, and feeds the rest, or builds another loop.                  *)
(*                                                                         *)
(* A message is its role and what it does: a call, or a result with the    *)
(* version of the file it shows.  Tokens are not counted here: a history   *)
(* may be found too long at any time, and any call may overflow.  What a   *)
(* call leaves in the native context is AgentLoop's subject.               *)
(***************************************************************************)
EXTENDS Naturals, Sequences, SequencesExt

CONSTANTS
  File,
  NoFile,
  KeepRecent,    \* KEEP_RECENT: more than a call's result
  DualBrain,     \* DUAL_BRAIN_ENABLED
  Mixed,         \* a user message may come with the tool result before it:
                 \*   steering, or a prompt after an abort while a tool ran
  Throws,        \* loops on which start() and replay() may throw another
                 \*   error than the overflow runTurn() recognizes
  MaxLen,        \* bound on the history
  MaxVersion     \* bound on the edits of a file

ASSUME EngineAssumption ==
  /\ KeepRecent \in Nat \ {0, 1} /\ {MaxLen, MaxVersion} \subseteq Nat \ {0}
  /\ NoFile \notin File
  /\ DualBrain \in BOOLEAN /\ Mixed \in BOOLEAN
  /\ Throws \subseteq {"small", "large"}

VARIABLES
  history,       \* the harness's messages
  disk,          \* version of every file
  loop,          \* this.loop
  prefixSig,
  fed,           \* fedFiles: version of the content, 0 if there is none
  active,        \* activeFilePath
  e2b,           \* the small model's instance, 0 while it is not loaded
  pendingReset,
  messages,      \* of the innermost runTurn()
  retrying,      \* compactRetrying: that one is the retry
  call,          \* the awaited call: what it makes of loop and fedFiles
  asked          \* history: a reset was asked for since the last request

client == <<history, disk>>
engine == <<loop, prefixSig, fed, active, e2b>>
turn == <<messages, retrying, call>>
vars == <<client, engine, turn, pendingReset, asked>>

NoFed == [f \in File |-> 0]
NoLoop == [brain |-> "none", gen |-> 0, drafter |-> 0, was |-> "new",
           heard |-> <<>>, has |-> {}]
Await(op, lp, fd, after) == [op |-> op, loop |-> lp, fed |-> fd, fedAfter |-> after]
NoCall == Await("none", NoLoop, NoFed, NoFed)
Busy == call.op # "none"

User == [role |-> "user", does |-> "say", file |-> NoFile, version |-> 0]
Brief == [User EXCEPT !.does = "brief"]
Says == [User EXCEPT !.role = "assistant"]
Calls(does, f) == [Says EXCEPT !.does = does, !.file = f]
Result(c, v) == [c EXCEPT !.role = "tool", !.version = v]

(* An assistant message is matched by its role alone.  Of the others the    *)
(* code compares role, length and the first 32 characters; here the whole   *)
(* message, so that a history in which one was put in place of another      *)
(* which agrees in these is outside the model.                              *)
Sig(m) == IF m.role = "assistant" THEN Says ELSE m
Sigs(ms) == [i \in DOMAIN ms |-> Sig(ms[i])]
Input(ms) ==
  FlattenSeq([i \in DOMAIN ms |-> IF ms[i].role = "assistant" THEN <<>> ELSE <<ms[i]>>])

Message ==
  [role : {"user", "assistant", "tool"}, does : {"say", "brief", "read", "edit"},
   file : File \cup {NoFile}, version : 0..MaxVersion]

Loop ==
  [brain : {"none", "small", "large"}, gen : 0..2, drafter : 0..2, was : {"new", "failed", "started", "restarted", "broken"},
   heard : Seq(Message), has : SUBSET (File \X (1..MaxVersion))]

TypeOK ==
  /\ history \in Seq(Message) /\ Len(history) <= MaxLen
  /\ disk \in [File -> 1..MaxVersion]
  /\ loop \in Loop /\ (loop.brain = "none" => loop = NoLoop)
  /\ prefixSig \in Seq(Message) /\ fed \in [File -> 0..MaxVersion]
  /\ active \in File \cup {NoFile} /\ e2b \in 0..2
  /\ pendingReset \in BOOLEAN /\ asked \in BOOLEAN
  /\ messages \in Seq(Message) /\ (retrying => Busy)
  /\ call.op \in {"none", "caught", "replay", "attach", "append", "start"}
  /\ call.loop \in Loop /\ {call.fed, call.fedAfter} \subseteq [File -> 0..MaxVersion]

Init ==
  /\ history = <<>> /\ disk = [f \in File |-> 1]
  /\ loop = NoLoop /\ prefixSig = <<>> /\ fed = NoFed /\ active = NoFile /\ e2b = 0
  /\ messages = <<>> /\ retrying = FALSE /\ call = NoCall
  /\ pendingReset = FALSE /\ asked = FALSE

----------------------------------------------------------------------------
(* The harness *)

(* The user says something.                                                 *)
Say ==
  /\ ~Busy /\ Len(history) < MaxLen - 1
  /\ history # <<>> =>
       \/ Last(history) = Says
       \/ Mixed /\ Last(history).role = "tool"
  /\ history' = Append(history, User)
  /\ UNCHANGED <<disk, engine, turn, pendingReset, asked>>

(* The tool a reply calls is executed; an edit changes the file.            *)
Execute ==
  /\ ~Busy /\ history # <<>> /\ Len(history) < MaxLen - 1
  /\ LET c == Last(history) IN
     /\ c.role = "assistant" /\ c.file # NoFile
     /\ c.does = "edit" => disk[c.file] < MaxVersion
     /\ disk' = [disk EXCEPT ![c.file] = IF c.does = "edit" THEN @ + 1 ELSE @]
     /\ history' = Append(history, Result(c, disk'[c.file]))
  /\ UNCHANGED <<engine, turn, pendingReset, asked>>

(* Somebody else edits a file, also during a turn.                          *)
EditOutside(f) ==
  /\ disk[f] < MaxVersion
  /\ disk' = [disk EXCEPT ![f] = @ + 1]
  /\ UNCHANGED <<history, engine, turn, pendingReset, asked>>

(* Another session, or an earlier point of this one.                        *)
GoBack(n) ==
  /\ ~Busy /\ n < Len(history) /\ (n > 0 => history[n] = Says)
  /\ history' = SubSeq(history, 1, n)
  /\ UNCHANGED <<disk, engine, turn, pendingReset, asked>>

----------------------------------------------------------------------------
(* What interleaves with a turn *)

(* Mutant of Reset: whether or not a turn is running.                       *)
ResetNow ==
  /\ asked' = TRUE
  /\ loop' = NoLoop /\ prefixSig' = <<>> /\ fed' = NoFed
  /\ UNCHANGED <<client, active, e2b, turn, pendingReset>>

(* resetConversation(): the handler of the worker's messages runs at any    *)
(* await of a turn.                                                         *)
Reset ==
  /\ asked' = TRUE
  /\ IF Busy
     THEN pendingReset' = TRUE /\ UNCHANGED engine
     ELSE /\ loop' = NoLoop /\ prefixSig' = <<>> /\ fed' = NoFed
          /\ UNCHANGED <<active, e2b, pendingReset>>
  /\ UNCHANGED <<client, turn>>

(* Mutant of IdleUnload: whoever generates.                                 *)
IdleUnloadAnyway ==
  /\ e2b # 0 /\ ~Busy
  /\ loop' = [loop EXCEPT !.drafter = 0] /\ e2b' = 0
  /\ UNCHANGED <<client, prefixSig, fed, active, turn, pendingReset, asked>>

(* The idle timer, which every getE2B() starts again; it is put off during  *)
(* a turn, and while the small model holds the conversation.                *)
IdleUnload ==
  /\ e2b # 0 /\ ~Busy /\ loop.brain # "small"
  /\ loop' = [loop EXCEPT !.drafter = 0] /\ e2b' = 0
  /\ UNCHANGED <<client, prefixSig, fed, active, turn, pendingReset, asked>>

----------------------------------------------------------------------------
(* What a call feeds *)

(* Mutant of Extends: only the lengths are compared.                        *)
ExtendsByLength(ms) == Len(prefixSig) <= Len(ms)

(* extendsPrefix().                                                         *)
Extends(ms) ==
  Len(prefixSig) <= Len(ms) /\ Sigs(SubSeq(ms, 1, Len(prefixSig))) = prefixSig

(* renderToolResult(): content the model is taken to have becomes a         *)
(* breadcrumb, and a changed file its changed blocks, which tell the rest   *)
(* only to a model that has the version before.  An edit forgets the file.  *)
Render(seen, m) ==
  IF m.role # "tool" THEN seen
  ELSE IF m.does = "edit" THEN [seen EXCEPT !.fed[m.file] = 0]
  ELSE IF seen.fed[m.file] = m.version THEN seen
  ELSE [fed |-> [seen.fed EXCEPT ![m.file] = m.version],
        has |-> IF seen.fed[m.file] = 0 \/ <<m.file, seen.fed[m.file]>> \in seen.has
                THEN seen.has \cup {<<m.file, m.version>>} ELSE seen.has]

Rendered(ms, fd, has) == FoldLeft(Render, [fed |-> fd, has |-> has], ms)

(* The prompt of start() and replay() carries the active file.              *)
Injected(f) == IF f = NoFile THEN {} ELSE {<<f, disk[f]>>}
WithActive(fd, f) == IF f = NoFile THEN fd ELSE [fd EXCEPT ![f] = disk[f]]

(* start(): everything before the last user message becomes a transcript in *)
(* the prompt; what follows that message is not in it.                      *)
StartCall(ms, lp, fd, f) ==
  LET lastUser == SelectLastInSeq(ms, LAMBDA m : m.role = "user")
      before == SubSeq(ms, 1, lastUser - 1)
      seen == Rendered(before, IF lastUser > 1 THEN WithActive(fd, f) ELSE fd, Injected(f))
  IN  Await("start",
            [lp EXCEPT !.was = IF @ = "new" THEN "started" ELSE "restarted", !.has = seen.has,
                       !.heard = Input(SubSeq(ms, 1, lastUser))],
            seen.fed, WithActive(seen.fed, f))

(* continue() with the tool results or followUp() with the user's messages. *)
AppendCall(tail, lp, fd) ==
  LET seen == Rendered(tail, fd, lp.has)
  IN  Await("append", [lp EXCEPT !.has = seen.has, !.heard = @ \o Input(tail)],
            seen.fed, seen.fed)

(* Results alone, or user messages alone.                                   *)
Appendable(tail) ==
  \E role \in {"tool", "user"} :
    Input(tail) # <<>> /\ \A i \in DOMAIN Input(tail) : Input(tail)[i].role = role

(* The dispatch on a loop that was told the first n messages.               *)
Dispatch(ms, n, lp, fd, f) ==
  LET tail == SubSeq(ms, n + 1, Len(ms)) IN
  IF Appendable(tail) THEN AppendCall(tail, lp, fd) ELSE StartCall(ms, lp, fd, f)

LastReply(ms) == SelectLastInSeq(ms, LAMBDA m : m.role = "assistant")

(* A history with a reply in it and something to answer behind it.          *)
Replayable(ms) ==
  Head(ms).role = "user" /\ LastReply(ms) > 1 /\ LastReply(ms) < Len(ms)

ReplayCall(ms, lp, f) ==
  LET told == SubSeq(ms, 1, LastReply(ms))
      seen == Rendered(told, WithActive(NoFed, f), Injected(f))
  IN  Await("replay", [lp EXCEPT !.was = "started", !.has = seen.has, !.heard = Input(told)],
            seen.fed, seen.fed)

(* getActiveFile(): the file of the last call, else the one before, else    *)
(* one the user names.                                                      *)
ActiveFiles(ms) ==
  LET n == SelectLastInSeq(ms, LAMBDA m : m.role = "assistant" /\ m.file # NoFile)
  IN  IF n > 0 THEN {ms[n].file}
      ELSE IF active # NoFile THEN {active} ELSE File \cup {NoFile}

(* getE2B(), and a loop that generates on it or drafts with it.             *)
Loaded == IF e2b = 0 THEN 1 ELSE e2b
NewLoop(b, instance) ==
  [NoLoop EXCEPT !.brain = b, !.gen = IF b = "small" THEN instance ELSE 0,
                 !.drafter = IF b = "small" THEN 0 ELSE instance]

(* compactMessages().                                                       *)
Compacted(ms) ==
  IF Len(ms) <= KeepRecent + 1 THEN ms
  ELSE <<Brief>> \o SubSeq(ms, Len(ms) - KeepRecent + 1, Len(ms))

----------------------------------------------------------------------------
(* A turn *)

Requested == ~Busy /\ history # <<>> /\ Last(history).role \in {"user", "tool"}

(* Mutant of BuildLoop: fedFiles is kept.                                   *)
BuildLoopKeepingFed(ms) ==
  \E b \in {"large"} \cup (IF DualBrain /\ LastReply(ms) = 0 THEN {"small"} ELSE {}) :
  \E f \in ActiveFiles(ms) :
    /\ loop' = NewLoop(b, Loaded) /\ prefixSig' = <<>>
    /\ active' = f /\ e2b' = Loaded
    /\ messages' = ms
    /\ call' = IF Replayable(ms) THEN ReplayCall(ms, loop', f)
               ELSE StartCall(ms, loop', fed, f)
    /\ fed' = call'.fed

(* The path that is not incremental: a loop on the brain the gate chooses   *)
(* for a conversation without replies, and its first call.                  *)
BuildLoop(ms) ==
  \E b \in {"large"} \cup (IF DualBrain /\ LastReply(ms) = 0 THEN {"small"} ELSE {}) :
  \E f \in ActiveFiles(ms) :
    /\ loop' = NewLoop(b, Loaded) /\ prefixSig' = <<>>
    /\ active' = f /\ e2b' = Loaded
    /\ messages' = ms
    /\ call' = IF Replayable(ms) THEN ReplayCall(ms, loop', f)
               ELSE StartCall(ms, loop', NoFed, f)
    /\ fed' = call'.fed

(* The request extends what the loop was told: only the rest is fed, after  *)
(* the drafter was attached again if the timer had taken it away.           *)
TurnContinues ==
  /\ Requested /\ loop # NoLoop /\ Extends(history)
  /\ messages' = history /\ asked' = FALSE
  /\ \E f \in ActiveFiles(history) :
       /\ active' = f
       /\ IF loop.brain = "large" /\ loop.drafter = 0
          THEN call' = Await("attach", [loop EXCEPT !.drafter = Loaded], fed, fed) /\ e2b' = Loaded
          ELSE call' = Dispatch(history, Len(prefixSig), loop, fed, f) /\ UNCHANGED e2b
  /\ fed' = call'.fed
  /\ UNCHANGED <<client, loop, prefixSig, pendingReset, retrying>>

(* No loop, or another conversation; a history found too long, which is     *)
(* compacted; or a new task that the gate sends to the large brain.         *)
TurnRestarts ==
  /\ Requested
  /\ \/ /\ loop = NoLoop \/ ~Extends(history)
        /\ BuildLoop(history)
     \/ /\ loop # NoLoop /\ Extends(history)
        /\ BuildLoop(Compacted(history))
     \/ /\ loop.brain = "small" /\ Extends(history)
        /\ \E i \in (Len(prefixSig) + 1)..Len(history) : history[i] = User
        /\ BuildLoop(history)
  /\ asked' = FALSE
  /\ UNCHANGED <<client, pendingReset, retrying>>

(* The small model's own context does not hold what it is to distill.       *)
DistillOverflows ==
  /\ Requested /\ loop # NoLoop /\ Extends(history) /\ Len(history) > KeepRecent + 1
  /\ messages' = history /\ asked' = FALSE
  /\ loop' = NoLoop /\ prefixSig' = <<>> /\ call' = Await("caught", NoLoop, fed, fed)
  /\ UNCHANGED <<client, fed, active, e2b, retrying, pendingReset>>

(* replay() ends: what follows the last reply is dispatched on the loop.    *)
Replayed ==
  /\ call.op = "replay"
  /\ loop' = call.loop
  /\ prefixSig' = Sigs(SubSeq(messages, 1, LastReply(messages)))
  /\ call' = Dispatch(messages, LastReply(messages), loop', fed, active)
  /\ fed' = call'.fed
  /\ UNCHANGED <<client, active, e2b, messages, retrying, pendingReset, asked>>

Attached ==
  /\ call.op = "attach"
  /\ loop' = call.loop
  /\ call' = Dispatch(messages, Len(prefixSig), loop', fed, active)
  /\ fed' = call'.fed
  /\ UNCHANGED <<client, prefixSig, active, e2b, messages, retrying, pendingReset, asked>>

(* Mutant of Return: compactRetrying stays set.                             *)
ReturnRetrying(reply, lp, sig, fd) ==
  /\ history' = Append(history, reply)
  /\ loop' = IF pendingReset THEN NoLoop ELSE lp
  /\ prefixSig' = IF pendingReset THEN <<>> ELSE sig
  /\ fed' = IF pendingReset THEN NoFed ELSE fd
  /\ pendingReset' = FALSE
  /\ messages' = <<>> /\ call' = NoCall
  /\ UNCHANGED <<disk, active, asked, retrying>>

(* runTurn() is left with what it made of the loop, and the reply reaches   *)
(* the harness; its `finally` applies a reset that came meanwhile.          *)
Return(reply, lp, sig, fd) ==
  /\ history' = Append(history, reply)
  /\ loop' = IF pendingReset THEN NoLoop ELSE lp
  /\ prefixSig' = IF pendingReset THEN <<>> ELSE sig
  /\ fed' = IF pendingReset THEN NoFed ELSE fd
  /\ pendingReset' = FALSE
  /\ messages' = <<>> /\ retrying' = FALSE /\ call' = NoCall
  /\ UNCHANGED <<disk, active, asked>>

Replies == {Says} \cup {Calls("read", f) : f \in File} \cup {Calls("edit", f) : f \in File}

(* continue(), followUp() or start() generated a reply.                     *)
Generated ==
  /\ call.op \in {"append", "start"} /\ call.loop.was # "failed"
  /\ \E reply \in Replies :
       Return(reply, call.loop, Append(Sigs(messages), Says), call.fedAfter)
  /\ UNCHANGED e2b

(* The same start(), on a new loop of the large brain.                      *)
RedoOnLarge(instance) ==
  /\ loop' = NewLoop("large", instance)
  /\ call' = [call EXCEPT !.loop = [loop' EXCEPT !.was = call.loop.was,
                                                 !.heard = call.loop.heard, !.has = call.loop.has]]
  /\ e2b' = instance
  /\ UNCHANGED <<client, prefixSig, active, messages, retrying, pendingReset, asked>>

(* The small brain's first step is of no use.                               *)
Escalate ==
  /\ call.op = "start" /\ loop.brain = "small"
  /\ fed' = call.fedAfter
  /\ RedoOnLarge(e2b)

(* start() throws on the small brain: its instance is freed, and the new    *)
(* loop drafts with another.                                                *)
SmallFails ==
  /\ call.op = "start" /\ loop.brain = "small" /\ "small" \in Throws
  /\ UNCHANGED fed
  /\ RedoOnLarge(3 - e2b)

(* "exceed context size": the loop is dropped.                              *)
Overflow ==
  /\ call.op \in {"replay", "append", "start"} /\ call.loop.was # "failed"
  /\ ~(call.op = "start" /\ loop.brain = "small")
  /\ loop' = NoLoop /\ prefixSig' = <<>> /\ call' = Await("caught", NoLoop, fed, fed)
  /\ UNCHANGED <<client, fed, active, e2b, messages, retrying, pendingReset, asked>>

(* Mutant of MayRetry: as long as it overflows.                             *)
MayRetryAlways == Len(history) > KeepRecent + 1

(* Once, and with enough history to compact.                                *)
MayRetry == ~retrying /\ Len(history) > KeepRecent + 1

(* The retry is a runTurn() of its own on the compacted history.            *)
Retry ==
  /\ call.op = "caught" /\ MayRetry
  /\ retrying' = TRUE
  /\ BuildLoop(Compacted(history))
  /\ UNCHANGED <<client, pendingReset, asked>>

(* The readable message; also when distilling for the retry overflows.      *)
GiveUp ==
  /\ call.op = "caught"
  /\ Return(Says, loop, prefixSig, fed)
  /\ UNCHANGED e2b

(* Another error: the turn fails, or in the retry ends with the readable    *)
(* message.  A loop that was never started refuses to be continued; one     *)
(* whose start() or replay() broke off is left where it was.                *)
Fail ==
  /\ \/ /\ call.op \in {"start", "replay"} /\ loop.brain = "large" /\ "large" \in Throws
        /\ Return(Says, [loop EXCEPT !.was = IF @ \in {"new", "failed"} THEN "failed" ELSE "broken",
                                  !.heard = <<>>, !.has = {}], prefixSig, fed)
     \/ /\ call.op = "append" /\ call.loop.was = "failed"
        /\ Return(Says, loop, prefixSig, fed)
  /\ UNCHANGED e2b

EngineStep ==
  \/ Replayed \/ Attached \/ Generated \/ Escalate \/ SmallFails
  \/ Overflow \/ Retry \/ GiveUp \/ Fail

Next ==
  \/ Say \/ Execute
  \/ \E f \in File : EditOutside(f)
  \/ \E n \in 0..MaxLen : GoBack(n)
  \/ Reset \/ IdleUnload
  \/ TurnContinues \/ TurnRestarts \/ DistillOverflows \/ EngineStep

Spec == Init /\ [][Next]_vars

(* A native call the engine awaits ends, by success or by error.            *)
FairSpec == Spec /\ WF_vars(EngineStep)

----------------------------------------------------------------------------
(* Properties *)

(* "Same conversation => feed only the new tail": between turns the live    *)
(* loop has been told every user message and every tool result that         *)
(* prefixSig claims, each once and in their order, by whichever of replay,  *)
(* transcript, append, redo and retry it came.  Not so after a start() that *)
(* broke off: the engine keeps the loop; and only as far as Sig tells       *)
(* messages apart.                                                          *)
Told == ~Busy /\ loop.was \in {"started", "restarted"} => loop.heard = Input(prefixSig)

(* The content a breadcrumb stands for is "already fed into THIS            *)
(* conversation's KV".                                                      *)
FedIsThere ==
  ~Busy /\ loop # NoLoop => \A f \in File : fed[f] # 0 => <<f, fed[f]>> \in loop.has

(* The same for a loop that start() or replay() was called on once.         *)
FedIsThereOnce == loop.was = "started" => FedIsThere

(* No loop, nor a call that builds one, holds a model that was freed, and   *)
(* the small model is not freed under a loop that generates on it.          *)
LiveModels ==
  \A lp \in {loop, call.loop} :
    {lp.gen, lp.drafter} \subseteq {0, e2b} /\ (lp.brain = "small" => lp.gen # 0)

(* A reset takes effect, also one that came during a turn that then built   *)
(* another loop; and once: it does not drop a later conversation.           *)
ResetHolds == ~Busy => ~pendingReset /\ (asked => loop = NoLoop /\ fed = NoFed)

(* A turn comes back to the harness: compaction is retried once.            *)
TurnReturns == Busy ~> ~Busy

============================================================================
