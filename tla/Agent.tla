------------------------------- MODULE Agent -------------------------------
(***************************************************************************)
(* The agent of the harness: its transcript, its two queues and the loop   *)
(* of a run (utter/packages/agent/src/agent.ts, agent-loop.ts).  One       *)
(* action per await: a listener of an event, a reply of the model and a    *)
(* tool are awaited, and the client may call the agent meanwhile.          *)
(*                                                                         *)
(* An event is emitted by changing the agent's own state and then waiting  *)
(* for the listeners; `event` is the one that is waited for.  Only the     *)
(* events the session listens to for its own sake are there, the start and *)
(* the end of a message; who listens is in AgentSession.                   *)
(***************************************************************************)
EXTENDS Naturals, FiniteSets, Sequences, SequencesExt

CONSTANTS
  Msg,           \* what a client may say, each once
  Bash,          \* commands a client may run, each once
  NoId,
  Caller,        \* concurrent calls of the session's prompt()
  NoCaller,
  QueueMode,     \* "all" or "one-at-a-time"
  Parallel,      \* toolExecution
  Endings,       \* ways a reply without tool calls may end
  MaxCalls,      \* bound on the tool calls of a reply
  MaxRounds,     \* bound on the replies with tool calls
  MaxTroubles    \* bound on the faulty replies and on the client's calls
                 \*   that are no messages, by their cost

ASSUME AgentAssumption ==
  /\ NoId \notin Msg \cup Bash /\ Msg \cap Bash = {}
  /\ Caller \subseteq Nat /\ NoCaller \notin Caller
  /\ QueueMode \in {"all", "one-at-a-time"} /\ Parallel \in BOOLEAN
  /\ Endings \subseteq {"stop", "error", "overflow", "length"}
  /\ MaxCalls \in Nat /\ MaxRounds \in Nat /\ MaxTroubles \in Nat

VARIABLES
  messages,      \* _state.messages
  steering,      \* steeringQueue
  followUp,      \* followUpQueue
  run,           \* activeRun, with the locals of runLoop()
  event,         \* the emitted event whose listeners are awaited
  subscribed,    \* the session is in listeners
  rounds,        \* replies with tool calls so far, for the bound
  troubles       \* what has gone wrong so far, for the bound

agentVars == <<messages, steering, followUp, run, event, subscribed, rounds, troubles>>

(* A message: what it is; whose; how the reply ended; and the number of its *)
(* tool calls, of the call it answers, or of the first entry that is kept.  *)
Message(is, id, ended, n) == [is |-> is, id |-> id, ended |-> ended, n |-> n]
User(u) == Message("user", u, "", 0)
BashResult(b) == Message("bash", b, "", 0)
Reply(ended, n) == Message("assistant", NoId, ended, n)
ToolResult(c) == Message("toolResult", NoId, "", c)
NoMessage == Message("none", NoId, "", 0)

EndsWithReply(ms) == ms # <<>> /\ Last(ms).is = "assistant"

NoEvent == [kind |-> "none", message |-> NoMessage, heard |-> FALSE]
Emit(kind, m) == [kind |-> kind, message |-> m, heard |-> subscribed]

NoRun ==
  [by |-> NoCaller, pc |-> "off", inbox |-> <<>>, poll |-> FALSE, aborted |-> FALSE,
   calls |-> 0, prepared |-> 0, open |-> {}, sent |-> 0, cut |-> FALSE]
isStreaming == run.pc # "off"
hasQueuedMessages == steering # <<>> \/ followUp # <<>>

(* PendingMessageQueue.drain(): what is taken, and what stays.              *)
Drained(q) == IF QueueMode = "all" \/ q = <<>> THEN q ELSE <<Head(q)>>

(* Mutant of Kept: the message that is taken stays.                         *)
KeptWhole(q) == IF QueueMode = "all" THEN <<>> ELSE q
Kept(q) == IF QueueMode = "all" \/ q = <<>> THEN <<>> ELSE Tail(q)

AgentInit ==
  /\ messages = <<>> /\ steering = <<>> /\ followUp = <<>>
  /\ run = NoRun /\ event = NoEvent /\ subscribed = TRUE /\ rounds = 0 /\ troubles = 0

----------------------------------------------------------------------------
(* Calls of the agent *)

(* runPromptMessages(), runContinuation(): a run with these messages to      *)
(* inject, which polls the steering queue once before the first request.    *)
Begin(d, ms, poll) ==
  run' = [NoRun EXCEPT !.by = d, !.pc = "turn", !.inbox = ms, !.poll = poll]

(* continue(), up to its first await.                                       *)
ContinueRun(d) ==
  /\ ~isStreaming /\ messages # <<>>
  /\ IF ~EndsWithReply(messages)
     THEN Begin(d, <<>>, TRUE) /\ UNCHANGED <<steering, followUp>>
     ELSE /\ hasQueuedMessages
          /\ IF steering # <<>>
             THEN /\ Begin(d, Drained(steering), FALSE)
                  /\ steering' = Kept(steering) /\ UNCHANGED followUp
             ELSE /\ Begin(d, Drained(followUp), TRUE)
                  /\ followUp' = Kept(followUp) /\ UNCHANGED steering

ContinueThrows ==
  \/ isStreaming
  \/ messages = <<>>
  \/ EndsWithReply(messages) /\ ~hasQueuedMessages

clearAllQueues == steering' = <<>> /\ followUp' = <<>>

AbortRun == run' = [run EXCEPT !.aborted = isStreaming]

----------------------------------------------------------------------------
(* runLoop() *)

Ready(pc) == run.pc = pc /\ event = NoEvent

(* A message of inbox is injected: message_start.                           *)
StartMessage ==
  /\ Ready("turn") /\ run.inbox # <<>>
  /\ event' = Emit("start", Head(run.inbox))
  /\ run' = [run EXCEPT !.inbox = Tail(@)]
  /\ UNCHANGED <<messages, steering, followUp, subscribed, rounds, troubles>>

(* Then message_end, which puts it into the transcript.                     *)
StoreMessage ==
  /\ event.kind = "start"
  /\ event' = Emit("end", event.message)
  /\ messages' = Append(messages, event.message)
  /\ UNCHANGED <<steering, followUp, run, subscribed, rounds, troubles>>

(* The initial poll of the steering queue, and the request that follows     *)
(* when there is nothing (more) to inject.                                  *)
Request ==
  /\ Ready("turn") /\ run.inbox = <<>>
  /\ LET polled == IF run.poll THEN Drained(steering) ELSE <<>> IN
     /\ steering' = IF run.poll THEN Kept(steering) ELSE steering
     /\ run' = [run EXCEPT !.inbox = polled, !.poll = FALSE,
                           !.pc = IF polled = <<>> THEN "stream" ELSE "turn"]
  /\ UNCHANGED <<messages, followUp, event, subscribed, rounds, troubles>>

Faulty == {"error", "overflow", "length"}

(* The bound: an error costs 1, another faulty reply and a call of the      *)
(* client that is no message 3.                                             *)
Trouble(cost) == troubles + cost <= MaxTroubles /\ troubles' = troubles + cost
Cost(reply) == IF reply.ended \notin Faulty THEN 0 ELSE IF reply.ended = "error" THEN 1 ELSE 3

(* The reply is complete: streamAssistantResponse().                        *)
Respond(reply) ==
  /\ Ready("stream")
  /\ messages' = Append(messages, reply)
  /\ event' = Emit("end", reply)
  /\ Trouble(Cost(reply))
  /\ rounds' = IF reply.n > 0 THEN rounds + 1 ELSE rounds
  /\ run' = [run EXCEPT !.calls = reply.n, !.prepared = 0, !.sent = 0, !.cut = FALSE,
                        !.pc = CASE reply.ended \in {"error", "overflow", "aborted"} -> "end"
                                 [] reply.n > 0 -> "tools"
                                 [] OTHER -> "answered"]
  /\ UNCHANGED <<steering, followUp, subscribed>>

Replies ==
  {Reply(e, 0) : e \in Endings}
    \cup (IF run.aborted THEN {Reply("aborted", 0)} ELSE {})
    \cup (IF rounds < MaxRounds THEN {Reply("toolUse", n) : n \in 1..MaxCalls} ELSE {})

(* The batch takes no further call: executeToolCallsParallel() stops        *)
(* preparing and executeToolCallsSequential() executing on an abort.        *)
Stopped == run.cut \/ (~Parallel /\ run.sent > 0 /\ run.aborted)
AllPrepared == run.prepared = run.calls \/ Stopped

(* prepareToolCall(): after an abort the call is answered without being run. *)
Prepare ==
  /\ Ready("tools") /\ ~AllPrepared
  /\ Parallel \/ run.sent = run.prepared
  /\ run' = [run EXCEPT !.prepared = @ + 1, !.cut = run.aborted,
                        !.open = IF run.aborted THEN @ ELSE @ \cup {run.prepared + 1}]
  /\ UNCHANGED <<messages, steering, followUp, event, subscribed, rounds, troubles>>

(* A tool returns, throws or gives up after an abort: it has a result.      *)
Execute(c) ==
  /\ Ready("tools") /\ c \in run.open
  /\ Parallel => AllPrepared
  /\ run' = [run EXCEPT !.open = @ \ {c}]
  /\ UNCHANGED <<messages, steering, followUp, event, subscribed, rounds, troubles>>

(* emitToolResultMessage(), in the order of the calls.                      *)
Answer ==
  /\ Ready("tools") /\ run.open = {} /\ run.sent < run.prepared
  /\ Parallel => AllPrepared
  /\ run' = [run EXCEPT !.sent = @ + 1]
  /\ messages' = Append(messages, ToolResult(run.sent + 1))
  /\ event' = Emit("end", ToolResult(run.sent + 1))
  /\ UNCHANGED <<steering, followUp, subscribed, rounds, troubles>>

(* The end of a turn, after the listeners of turn_end: the steering queue,  *)
(* and when the loop would stop (no calls, or a batch that terminates) the  *)
(* follow-up queue.                                                         *)
EndTurn(terminate) ==
  /\ \/ Ready("answered") /\ ~terminate
     \/ /\ Ready("tools") /\ AllPrepared /\ run.sent = run.prepared
        /\ terminate => ~run.cut
  /\ LET steered == Drained(steering)
         stops == steered = <<>> /\ (run.pc = "answered" \/ terminate)
         followed == IF stops THEN Drained(followUp) ELSE <<>>
     IN
     /\ steering' = Kept(steering)
     /\ followUp' = IF stops THEN Kept(followUp) ELSE followUp
     /\ run' = [run EXCEPT !.inbox = steered \o followed, !.calls = 0, !.prepared = 0,
                           !.sent = 0, !.cut = FALSE,
                           !.pc = IF stops /\ followed = <<>> THEN "end" ELSE "turn"]
  /\ UNCHANGED <<messages, event, subscribed, rounds, troubles>>

(* finishRun(), after the listeners of agent_end.                           *)
FinishRun ==
  /\ Ready("end") /\ run' = NoRun
  /\ UNCHANGED <<messages, steering, followUp, event, subscribed, rounds, troubles>>

============================================================================
