----------------------------- MODULE TurnWorker -----------------------------
(***************************************************************************)
(* The worker thread that owns the model, and its client on the main       *)
(* thread (utter/packages/coding-agent/src/core/local-provider/provider.ts *)
(* and agent-worker.ts).  Turns are chained on one promise, results come   *)
(* back as messages, an abort is a cell of memory both threads share, and  *)
(* a worker that dies is replaced by the next turn.                        *)
(*                                                                         *)
(* A caller is a run of the agent, or a summary made beside it: it has one *)
(* turn at a time, and one signal for all the turns of a run.  A turn that *)
(* was posted has an id.  Tokens streamed on the way are left out; what    *)
(* the engine does with a request is Conversation's subject, and here a    *)
(* live conversation is the set of turns whose replies it holds.           *)
(***************************************************************************)
EXTENDS Naturals, Sequences, FiniteSets, SequencesExt

CONSTANTS
  Caller,
  MaxTurns,      \* bound on the turns asked for
  MaxCrashes,    \* bound on the workers that die
  MaxRounds      \* bound on the decode iterations of a turn (maxTokens)

ASSUME WorkerAssumption == {MaxTurns, MaxCrashes, MaxRounds} \subseteq Nat

VARIABLES
  run,           \* the caller's run: "none", "open", "aborted" (its signal)
  queue,         \* callers whose turn waits for the ones before it
  owner,         \* callers of the turns posted, by id
  current,       \* the id at the head of the chain, 0 if all have settled
  pending,
  worker,        \* this.worker, 0 for null
  refd,          \* workers that keep the process alive
  abortFlag,
  state,         \* of the worker threads: "none", "live", "dead"
  due,           \* events of a dead worker that are still to be delivered
  inbox, outbox,
  running,       \* turns a worker is in
  round,         \* its decode iterations
  conversation,
  deferred,      \* pendingReset
  heard,         \* history: turns aborted when they had been posted
  dropped        \* history: turns reported as aborted, not to be gone on with

client == <<queue, owner, current, pending, worker, refd>>
threads == <<state, due, running, round, conversation, deferred>>
vars == <<run, client, abortFlag, threads, inbox, outbox, heard, dropped>>

(* A worker that fails is let go of by its error and again by its exit.     *)
Worker == 1..(2 * MaxCrashes + 1)
Turn == 1..Len(owner)
Reset == [type |-> "reset", id |-> 0]
Waits(c) == c \in ToSet(queue) \/ (current # 0 /\ owner[current] = c)

(* Mutant of Runnable: turns are not chained.                               *)
RunnableAtOnce == queue # <<>>

(* A turn of the chain runs when those before it have settled, and before   *)
(* anything else the main thread might do.                                  *)
Runnable == current = 0 /\ queue # <<>>

(* Callers, turns and threads are what they seem; the turn at the head of   *)
(* the chain is in the pending map.                                         *)
TypeOK ==
  /\ run \in [Caller -> {"none", "open", "aborted"}]
  /\ queue \in Seq(Caller) /\ owner \in Seq(Caller)
  /\ current \in 0..Len(owner) /\ pending \subseteq Turn
  /\ (current # 0 => current \in pending)
  /\ worker \in {0} \cup Worker /\ refd \subseteq Worker
  /\ abortFlag \in {0, 1}
  /\ state \in [Worker -> {"none", "live", "dead"}]
  /\ due \in [Worker -> SUBSET {"error", "exit"}]
  /\ inbox \in [Worker -> Seq([type : {"turn"}, id : Turn] \cup {Reset})]
  /\ outbox \in [Worker -> Seq([type : {"result", "error"}, id : Turn])]
  /\ running \in [Worker -> SUBSET Turn] /\ conversation \in [Worker -> SUBSET Turn]
  /\ round \in [Worker -> 0..MaxRounds] /\ deferred \in [Worker -> BOOLEAN]
  /\ heard \subseteq Turn /\ dropped \subseteq Turn

Init ==
  /\ run = [c \in Caller |-> "none"]
  /\ queue = <<>> /\ owner = <<>> /\ current = 0 /\ pending = {}
  /\ worker = 0 /\ refd = {} /\ abortFlag = 0
  /\ state = [w \in Worker |-> "none"] /\ due = [w \in Worker |-> {}]
  /\ inbox = [w \in Worker |-> <<>>] /\ outbox = [w \in Worker |-> <<>>]
  /\ running = [w \in Worker |-> {}] /\ round = [w \in Worker |-> 0]
  /\ conversation = [w \in Worker |-> {}] /\ deferred = [w \in Worker |-> FALSE]
  /\ heard = {} /\ dropped = {}

----------------------------------------------------------------------------
(* The callers *)

Open(c) ==
  /\ ~Runnable /\ run[c] = "none"
  /\ run' = [run EXCEPT ![c] = "open"]
  /\ UNCHANGED <<client, abortFlag, threads, inbox, outbox, heard, dropped>>

(* The run ends; its signal goes with it.                                   *)
Close(c) ==
  /\ ~Runnable /\ run[c] # "none" /\ ~Waits(c)
  /\ run' = [run EXCEPT ![c] = "none"]
  /\ UNCHANGED <<client, abortFlag, threads, inbox, outbox, heard, dropped>>

Signalled(c) == run[c] = "open" /\ Waits(c)

(* The user gives up on a run, once or again.  The listener is there from   *)
(* the request to its answer, and hears the first time only.                *)
Abort(c) ==
  /\ ~Runnable /\ run[c] # "none"
  /\ run' = [run EXCEPT ![c] = "aborted"]
  /\ abortFlag' = IF Signalled(c) THEN 1 ELSE abortFlag
  /\ heard' = IF Signalled(c) /\ c \notin ToSet(queue) THEN heard \cup {current} ELSE heard
  /\ UNCHANGED <<client, threads, inbox, outbox, dropped>>

(* streamSimple(): also for a run aborted while it executed a tool, which   *)
(* asks for another reply all the same.                                     *)
Ask(c) ==
  /\ run[c] # "none" /\ ~Waits(c) /\ Len(owner) + Len(queue) < MaxTurns
  /\ queue' = Append(queue, c)
  /\ abortFlag' = IF run[c] = "aborted" THEN 1 ELSE abortFlag
  /\ UNCHANGED <<run, owner, current, pending, worker, refd, threads, inbox, outbox,
                 heard, dropped>>

----------------------------------------------------------------------------
(* The client *)

Posted(w, m) == [inbox EXCEPT ![w] = Append(@, m)]
(* getWorker()                                                              *)
Spawned == IF worker # 0 THEN worker
           ELSE CHOOSE w \in Worker : state[w] = "none"

(* runTurn(): its turn has come.  A request that cannot be cloned is        *)
(* refused after it was entered in the pending map.                         *)
RunNext(cloned) ==
  LET c == Head(queue)  id == Len(owner) + 1  w == Spawned IN
  /\ Runnable
  /\ queue' = Tail(queue) /\ owner' = Append(owner, c)
  /\ worker' = w /\ state' = [state EXCEPT ![w] = IF worker = 0 THEN "live" ELSE @]
  /\ abortFlag' = 0
  /\ pending' = pending \cup {id} /\ refd' = refd \cup {w}
  /\ current' = IF cloned THEN id ELSE 0
  /\ inbox' = IF cloned THEN Posted(w, [type |-> "turn", id |-> id]) ELSE inbox
  /\ run' = IF cloned THEN run ELSE [run EXCEPT ![c] = "none"]
  /\ UNCHANGED <<due, running, round, conversation, deferred, outbox, heard, dropped>>

(* Mutant of Forget: leaves it to the next turn.                            *)
ForgetWhenIdle == IF worker = 0 \/ queue # <<>> THEN inbox ELSE Posted(worker, Reset)

(* resetConversation()                                                      *)
Forget == IF worker = 0 THEN inbox ELSE Posted(worker, Reset)

(* What keeps the process alive when m has been answered.                   *)
Released(m, left) == IF left = {} THEN refd \ {worker} ELSE refd

(* A worker's message, and what streamSimple() does with the answer before  *)
(* the next turn of the chain runs.                                         *)
Deliver(w) ==
  /\ ~Runnable /\ outbox[w] # <<>>
  /\ outbox' = [outbox EXCEPT ![w] = Tail(@)]
  /\ LET m == Head(outbox[w])  c == owner[m.id] IN
     IF m.id \notin pending THEN UNCHANGED <<run, client, inbox, dropped>>
     ELSE /\ pending' = pending \ {m.id} /\ current' = 0
          /\ refd' = Released(m, pending \ {m.id})
          /\ IF m.type = "result" /\ run[c] = "aborted"
             THEN inbox' = Forget /\ dropped' = dropped \cup {m.id}
             ELSE UNCHANGED <<inbox, dropped>>
          /\ run' = [run EXCEPT ![c] = IF m.type = "error" \/ @ = "aborted" THEN "none" ELSE @]
          /\ UNCHANGED <<queue, owner, worker>>
  /\ UNCHANGED <<abortFlag, threads, heard>>

(* Mutant of LetGo: forgets the turns without rejecting them.               *)
LetGoSilently ==
  /\ pending' = {} /\ worker' = 0
  /\ UNCHANGED <<run, queue, owner, current, refd, abortFlag>>

(* die(): nobody asks which worker it was.                                  *)
LetGo ==
  /\ pending' = {} /\ worker' = 0 /\ current' = 0
  /\ run' = IF current = 0 THEN run ELSE [run EXCEPT ![owner[current]] = "none"]
  /\ UNCHANGED <<queue, owner, refd, abortFlag>>

WorkerError(w) ==
  /\ ~Runnable /\ "error" \in due[w]
  /\ due' = [due EXCEPT ![w] = @ \ {"error"}]
  /\ LetGo
  /\ UNCHANGED <<state, running, round, conversation, deferred, inbox, outbox, heard, dropped>>

(* Mutant of WorkerExit: leaves the turns to the error.                     *)
WorkerExitSeen(w) ==
  /\ ~Runnable /\ "exit" \in due[w] /\ outbox[w] = <<>>
  /\ due' = [due EXCEPT ![w] = {}]
  /\ UNCHANGED <<run, client, abortFlag, state, running, round, conversation, deferred,
                 inbox, outbox, heard, dropped>>

(* The exit comes last; an error that has not been seen comes with it.      *)
WorkerExit(w) ==
  /\ ~Runnable /\ "exit" \in due[w] /\ outbox[w] = <<>>
  /\ due' = [due EXCEPT ![w] = {}]
  /\ LetGo
  /\ UNCHANGED <<state, running, round, conversation, deferred, inbox, outbox, heard, dropped>>

----------------------------------------------------------------------------
(* The worker *)

(* A message is taken in when the thread is idle, or at an await of a turn. *)
(* The engine goes on with the conversation it has, or builds another.      *)
TakeIn(w) ==
  /\ state[w] = "live" /\ inbox[w] # <<>>
  /\ inbox' = [inbox EXCEPT ![w] = Tail(@)]
  /\ LET m == Head(inbox[w])
         goesOn == \A j \in conversation[w] : owner[j] = owner[m.id] IN
     IF m.type = "reset"
     THEN /\ deferred' = [deferred EXCEPT ![w] = running[w] # {}]
          /\ conversation' = [conversation EXCEPT ![w] = IF running[w] = {} THEN {} ELSE @]
          /\ UNCHANGED <<running, round>>
     ELSE /\ running' = [running EXCEPT ![w] = @ \cup {m.id}]
          /\ round' = [round EXCEPT ![w] = 0]
          /\ \E kept \in {{}} \cup (IF goesOn THEN {conversation[w]} ELSE {}) :
               conversation' = [conversation EXCEPT ![w] = kept]
          /\ UNCHANGED deferred
  /\ UNCHANGED <<run, client, state, due, outbox, heard, dropped>>

Receive(w) == TakeIn(w) /\ UNCHANGED abortFlag

(* shouldStop() is asked before every iteration.                            *)
Decode(w) ==
  /\ state[w] = "live" /\ running[w] # {}
  /\ abortFlag = 0 /\ round[w] < MaxRounds
  /\ round' = [round EXCEPT ![w] = @ + 1]
  /\ UNCHANGED <<run, client, abortFlag, state, due, running, conversation, deferred,
                 inbox, outbox, heard, dropped>>

(* runTurn() of the engine returns or throws; a reset that came meanwhile   *)
(* takes effect.                                                            *)
Answer(w, id, type) ==
  /\ state[w] = "live" /\ id \in running[w]
  /\ running' = [running EXCEPT ![w] = @ \ {id}]
  /\ outbox' = [outbox EXCEPT ![w] = Append(@, [type |-> type, id |-> id])]
  /\ LET reply == IF type = "result" THEN {id} ELSE {} IN
     \E kept \in {{}} \cup (IF deferred[w] THEN {} ELSE {conversation[w] \cup reply}) :
       conversation' = [conversation EXCEPT ![w] = kept]
  /\ deferred' = [deferred EXCEPT ![w] = FALSE] /\ round' = [round EXCEPT ![w] = 0]
  /\ UNCHANGED <<run, client, abortFlag, state, due, inbox, heard, dropped>>

(* The thread ends, by an uncaught exception or without one.                *)
Die(w, events) ==
  /\ state[w] = "live" /\ Cardinality({v \in Worker : state[v] = "dead"}) < MaxCrashes
  /\ state' = [state EXCEPT ![w] = "dead"] /\ due' = [due EXCEPT ![w] = events]
  /\ running' = [running EXCEPT ![w] = {}] /\ round' = [round EXCEPT ![w] = 0]
  /\ conversation' = [conversation EXCEPT ![w] = {}]
  /\ deferred' = [deferred EXCEPT ![w] = FALSE] /\ inbox' = [inbox EXCEPT ![w] = <<>>]
  /\ UNCHANGED <<run, client, abortFlag, outbox, heard, dropped>>

----------------------------------------------------------------------------

CallerStep(c) == Open(c) \/ Close(c) \/ Abort(c) \/ Ask(c)
ClientStep == \E cloned \in BOOLEAN : RunNext(cloned)
DeliveryStep(w) == Deliver(w) \/ WorkerError(w) \/ WorkerExit(w)
WorkerStep(w) ==
  Receive(w) \/ Decode(w) \/ \E id \in Turn, type \in {"result", "error"} : Answer(w, id, type)

Next ==
  \/ \E c \in Caller : CallerStep(c)
  \/ ClientStep
  \/ \E w \in Worker : DeliveryStep(w) \/ WorkerStep(w)
  \/ \E w \in Worker, events \in {{"error", "exit"}, {"exit"}} : Die(w, events)

Spec == Init /\ [][Next]_vars

(* The microtask queue and both event loops turn; a turn runs out of        *)
(* tokens.                                                                  *)
Fairness ==
  /\ WF_vars(ClientStep)
  /\ \A w \in Worker : WF_vars(DeliveryStep(w)) /\ WF_vars(WorkerStep(w))

FairSpec == Spec /\ Fairness

----------------------------------------------------------------------------

(* What the chain is for: the engine of the client's worker is in one turn  *)
(* at a time ("single-conversation, single-decode").                        *)
SingleDecode == \A w \in Worker : Cardinality(running[w]) <= 1

(* No reset reaches an engine in the middle of a turn: the answer that      *)
(* causes it is dealt with before the next turn of the chain is posted.     *)
ResetBetweenTurns == \A w \in Worker : ~deferred[w]

(* A reply reported as aborted is out of the conversation when the next     *)
(* turn has been taken in, whatever died or was queued in between.          *)
Forgotten == \A w \in Worker : running[w] # {} => conversation[w] \cap dropped = {}

(* An abort that finds its turn posted stays for the worker to see until    *)
(* the turn has been answered: no other turn's start clears the cell.       *)
AbortStays == current \in heard => abortFlag = 1

(* The process is held open while a turn is in flight, and the client's     *)
(* worker no longer holds it when the pending map has drained.              *)
HeldWhilePending ==
  /\ current # 0 => worker \in refd
  /\ pending = {} => worker \notin refd

(* Every turn is answered, also when workers die or a request cannot be     *)
(* sent, which leaves its entry in the map but not its caller waiting.      *)
TurnsEnd == \A c \in Caller : Waits(c) ~> ~Waits(c)

(* What the provider says of Esc: no iteration is begun for a turn whose    *)
(* run has been aborted.                                                    *)
AbortHeeded ==
  [][\A w \in Worker : round'[w] > round[w] =>
       \A id \in running[w] : id = current => run[owner[id]] # "aborted"]_vars

=============================================================================
