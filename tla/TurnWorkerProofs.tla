-------------------------- MODULE TurnWorkerProofs --------------------------
(***************************************************************************)
(* The safety of the worker's client for every set of callers and every    *)
(* number of turns, crashes and iterations.                                *)
(***************************************************************************)
EXTENDS TurnWorker, FiniteSetTheorems, TLAPS

(* Where a turn that was posted may be.                                     *)
Waiting(w, id) ==
  \/ id \in running[w]
  \/ \E i \in 1..Len(inbox[w]) : inbox[w][i].type = "turn" /\ inbox[w][i].id = id
Answered(w, id) == \E i \in 1..Len(outbox[w]) : outbox[w][i].id = id

(* A thread that was never started has nothing.                             *)
Unstarted ==
  \A w \in Worker : state[w] = "none" =>
    /\ w # worker /\ due[w] = {} /\ inbox[w] = <<>> /\ outbox[w] = <<>>
    /\ running[w] = {} /\ conversation[w] = {}

(* Behind a turn nothing is posted before it has been answered.             *)
Chained ==
  \A w \in Worker :
    /\ running[w] # {} => inbox[w] = <<>>
    /\ \A i \in 1..Len(inbox[w]) : inbox[w][i].type = "turn" => i = Len(inbox[w])
    /\ \A a, b \in running[w] : a = b

(* What the client waits for is the current turn, and is with its worker.   *)
Located ==
  \A w \in Worker, id \in pending :
    Waiting(w, id) \/ Answered(w, id) \/ id \in conversation[w] => id = current /\ w = worker

(* The client's worker is at the current turn, until it has answered it.    *)
Expected ==
  \A w \in Worker, id \in Turn : w = worker /\ Waiting(w, id) =>
    id = current /\ ~Answered(w, current)

(* An aborted reply is never generated again, and its reset is on its way.  *)
Disowned ==
  \A w \in Worker :
    /\ \A id \in dropped : ~Waiting(w, id)
    /\ conversation[w] \cap dropped # {} => \E i \in 1..Len(inbox[w]) : inbox[w][i] = Reset

(* Every thread beyond the first replaces one whose death was noticed.      *)
Started == {w \in Worker : state[w] # "none"}
Dead == {w \in Worker : state[w] = "dead"}
Events == {e \in Worker \X {"error", "exit"} : e[2] \in due[e[1]]}
Spare ==
  /\ Cardinality(Dead) <= MaxCrashes
  /\ Cardinality(Started) + Cardinality(Events)
       <= 2 * Cardinality(Dead) + (IF worker = 0 THEN 0 ELSE 1)

Inv ==
  /\ TypeOK /\ Unstarted /\ Chained /\ Located /\ Expected /\ Disowned /\ Spare
  /\ AbortStays /\ HeldWhilePending /\ ResetBetweenTurns


----------------------------------------------------------------------------
(* Counting threads *)

LEMMA WorkerFinite ==
  /\ IsFiniteSet(Worker) /\ Cardinality(Worker) = 2 * MaxCrashes + 1
  /\ 0 \notin Worker /\ Worker \subseteq Nat
<1>1. MaxCrashes \in Nat
  BY WorkerAssumption
<1> QED
  BY <1>1, FS_Interval DEF Worker

LEMMA Counted ==
  /\ IsFiniteSet(Started) /\ IsFiniteSet(Dead) /\ IsFiniteSet(Events)
  /\ Cardinality(Started) \in Nat /\ Cardinality(Dead) \in Nat /\ Cardinality(Events) \in Nat
<1>1. IsFiniteSet(Worker \X {"error", "exit"})
  <2>1. {"error", "exit"} = {"error"} \cup {"exit"}
    OBVIOUS
  <2>2. IsFiniteSet({"error"})
    BY FS_Singleton
  <2>3. IsFiniteSet({"error"} \cup {"exit"})
    BY <2>2, FS_AddElement
  <2> QED
    BY <2>1, <2>3, WorkerFinite, FS_Product
<1>2. IsFiniteSet(Started) /\ IsFiniteSet(Dead)
  BY WorkerFinite, FS_Subset DEF Started, Dead
<1>3. IsFiniteSet(Events)
  BY <1>1, FS_Subset DEF Events
<1> QED
  BY <1>2, <1>3, FS_CardinalityType

(* When the client has no worker, there is a thread that was never started. *)
LEMMA ThreadIsFree ==
  ASSUME Inv
  PROVE  /\ Spawned \in Worker
         /\ worker = 0 => state[Spawned] = "none"
         /\ worker # 0 => Spawned = worker
<1>1. CASE worker # 0
  BY <1>1 DEF Inv, TypeOK, Spawned
<1>2. CASE worker = 0
  <2>1. Cardinality(Started) <= 2 * MaxCrashes
    BY <1>2, Counted, WorkerAssumption DEF Inv, Spare
  <2>2. Started # Worker
    BY <2>1, WorkerFinite, WorkerAssumption
  <2>3. \E w \in Worker : state[w] = "none"
    BY <2>2 DEF Started
  <2> QED
    BY <1>2, <2>3 DEF Spawned
<1> QED
  BY <1>1, <1>2

LEMMA AtMostOneMore ==
  ASSUME NEW S, NEW x, IsFiniteSet(S)
  PROVE  /\ IsFiniteSet(S \cup {x}) /\ Cardinality(S \cup {x}) \in Nat
         /\ Cardinality(S \cup {x}) <= Cardinality(S) + 1
<1>1. IsFiniteSet(S \cup {x})
  BY FS_AddElement
<1>2. Cardinality(S \cup {x}) = IF x \in S THEN Cardinality(S) ELSE Cardinality(S) + 1
  BY FS_AddElement
<1>3. Cardinality(S) \in Nat
  BY FS_CardinalityType
<1> QED
  BY <1>1, <1>2, <1>3

LEMMA SpareKept ==
  ASSUME Spare, UNCHANGED <<state, due, worker>>
  PROVE  Spare'
BY DEF Spare, Started, Dead, Events

----------------------------------------------------------------------------
(* Messages *)

LEMMA AppendOf ==
  ASSUME NEW S, NEW s \in Seq(S), NEW e \in S
  PROVE  /\ Len(s) \in Nat
         /\ Append(s, e) \in Seq(S) /\ Len(Append(s, e)) = Len(s) + 1
         /\ Append(s, e)[Len(s) + 1] = e
         /\ \A i \in 1..Len(s) : Append(s, e)[i] = s[i]
OBVIOUS

LEMMA TailOf ==
  ASSUME NEW S, NEW s \in Seq(S), s # <<>>
  PROVE  /\ Len(s) \in Nat /\ Len(s) >= 1 /\ Head(s) \in S /\ Head(s) = s[1]
         /\ Tail(s) \in Seq(S) /\ Len(Tail(s)) = Len(s) - 1
         /\ \A i \in 1..Len(Tail(s)) : Tail(s)[i] = s[i + 1]
OBVIOUS

LEMMA ElementsOf ==
  ASSUME NEW S, NEW s \in Seq(S)
  PROVE  Len(s) \in Nat /\ \A i \in 1..Len(s) : s[i] \in S
OBVIOUS

LEMMA NoElements ==
  ASSUME NEW S, NEW s \in Seq(S), Len(s) = 0
  PROVE  s = <<>>
OBVIOUS

LEMMA SeqMonotone ==
  ASSUME NEW S, NEW T, S \subseteq T
  PROVE  Seq(S) \subseteq Seq(T)
OBVIOUS

LEMMA MessageTypes ==
  ASSUME Inv, NEW w \in Worker
  PROVE  /\ Len(inbox[w]) \in Nat /\ Len(outbox[w]) \in Nat
         /\ \A i \in 1..Len(inbox[w]) :
              \/ inbox[w][i] = Reset
              \/ inbox[w][i].type = "turn" /\ inbox[w][i].id \in Turn
         /\ \A i \in 1..Len(outbox[w]) : outbox[w][i].id \in Turn
         /\ running[w] \subseteq Turn /\ conversation[w] \subseteq Turn
         /\ \A id : Waiting(w, id) \/ Answered(w, id) => id \in Turn
<1>1. /\ inbox[w] \in Seq([type : {"turn"}, id : Turn] \cup {Reset})
      /\ outbox[w] \in Seq([type : {"result", "error"}, id : Turn])
      /\ running[w] \subseteq Turn /\ conversation[w] \subseteq Turn
  BY DEF Inv, TypeOK
<1>2. Reset.type # "turn"
  BY DEF Reset
<1>3. /\ \A i \in 1..Len(inbox[w]) : inbox[w][i] \in [type : {"turn"}, id : Turn] \cup {Reset}
      /\ \A i \in 1..Len(outbox[w]) : outbox[w][i] \in [type : {"result", "error"}, id : Turn]
      /\ Len(inbox[w]) \in Nat /\ Len(outbox[w]) \in Nat
  BY <1>1, ElementsOf
<1> QED
  BY <1>1, <1>2, <1>3 DEF Waiting, Answered

----------------------------------------------------------------------------
(* The callers *)

(* What a caller does touches neither messages nor threads.                 *)
LEMMA CallersKeep ==
  ASSUME Inv, UNCHANGED <<owner, current, pending, worker, refd, threads, inbox, outbox, dropped>>
  PROVE  /\ Unstarted' /\ Chained' /\ Located' /\ Expected' /\ Disowned' /\ Spare'
         /\ HeldWhilePending' /\ ResetBetweenTurns'
<1>1. Spare'
  BY SpareKept DEF Inv, threads
<1>2. Unstarted' /\ Chained' /\ HeldWhilePending' /\ ResetBetweenTurns'
  BY DEF Inv, threads, Unstarted, Chained, HeldWhilePending, ResetBetweenTurns
<1>3. Located' /\ Expected' /\ Disowned'
  BY DEF Inv, threads, Located, Expected, Disowned, Waiting, Answered, Turn, Reset
<1> QED
  BY <1>1, <1>2, <1>3

LEMMA CallerStepKeeps ==
  ASSUME Inv, NEW c \in Caller, CallerStep(c)
  PROVE  Inv'
<1>1. CASE Open(c) \/ Close(c)
  <2>1. UNCHANGED <<queue, owner, current, pending, worker, refd, abortFlag, threads, inbox, outbox,
                    heard, dropped>>
    BY <1>1 DEF Open, Close, client
  <2>2. TypeOK' /\ AbortStays'
    BY <1>1, <2>1 DEF Open, Close, Inv, TypeOK, AbortStays, threads, Turn
  <2> QED
    BY <2>1, <2>2, CallersKeep DEF Inv
<1>2. CASE Abort(c)
  <2>1. UNCHANGED <<queue, owner, current, pending, worker, refd, threads, inbox, outbox, dropped>>
    BY <1>2 DEF Abort, client
  <2>2. heard' \subseteq Turn /\ AbortStays'
    <3>1. CASE Signalled(c) /\ c \notin ToSet(queue)
      <4>1. current \in Turn
        BY <3>1 DEF Inv, TypeOK, Signalled, Waits, Turn
      <4> QED
        BY <1>2, <2>1, <3>1, <4>1 DEF Abort, Inv, TypeOK, AbortStays
    <3>2. CASE ~(Signalled(c) /\ c \notin ToSet(queue))
      <4>1. heard' = heard /\ current' = current
        BY <1>2, <2>1, <3>2 DEF Abort
      <4>2. abortFlag' = 1 \/ abortFlag' = abortFlag
        BY <1>2 DEF Abort
      <4> QED
        BY <4>1, <4>2 DEF Inv, TypeOK, AbortStays
    <3> QED
      BY <3>1, <3>2
  <2>3. TypeOK'
    BY <1>2, <2>1, <2>2 DEF Abort, Inv, TypeOK, threads, Turn
  <2> QED
    BY <2>1, <2>2, <2>3, CallersKeep DEF Inv
<1>3. CASE Ask(c)
  <2>1. UNCHANGED <<run, owner, current, pending, worker, refd, threads, inbox, outbox, heard, dropped>>
    BY <1>3 DEF Ask
  <2>2. /\ queue' \in Seq(Caller) /\ abortFlag' \in {0, 1}
        /\ abortFlag' = abortFlag \/ abortFlag' = 1
    BY <1>3 DEF Ask, Inv, TypeOK
  <2>3. TypeOK' /\ AbortStays'
    BY <2>1, <2>2 DEF Inv, TypeOK, AbortStays, threads, Turn
  <2> QED
    BY <2>1, <2>3, CallersKeep DEF Inv
<1> QED
  BY <1>1, <1>2, <1>3 DEF CallerStep

----------------------------------------------------------------------------
(* The client *)

(* Nothing waits at the client's worker when a turn of the chain is posted. *)
LEMMA NothingWaits ==
  ASSUME Inv, current = 0
  PROVE  /\ running[Spawned] = {}
         /\ \A i \in 1..Len(inbox[Spawned]) : inbox[Spawned][i].type # "turn"
<1> DEFINE w == Spawned
<1>1. w \in Worker
  BY ThreadIsFree
<1>2. CASE worker = 0
  BY <1>1, <1>2, ThreadIsFree DEF Inv, Unstarted
<1>3. CASE worker # 0
  <2>1. w = worker
    BY <1>3, ThreadIsFree
  <2>2. \A id \in Turn : ~Waiting(w, id)
    BY <1>1, <2>1 DEF Inv, Expected, Turn
  <2>3. running[w] \subseteq Turn
    BY <1>1 DEF Inv, TypeOK
  <2>4. \A i \in 1..Len(inbox[w]) : inbox[w][i].type = "turn" => inbox[w][i].id \in Turn
    BY <1>1 DEF Inv, TypeOK, Reset
  <2> QED
    BY <2>2, <2>3, <2>4 DEF Waiting
<1> QED
  BY <1>2, <1>3

LEMMA RunNextKeeps ==
  ASSUME Inv, NEW cloned \in BOOLEAN, RunNext(cloned)
  PROVE  Inv'
<1> DEFINE c == Head(queue)
           id == Len(owner) + 1
           turn == [type |-> "turn", id |-> id]
<1>0. PICK w \in Worker : w = Spawned
  BY ThreadIsFree
<1>1. /\ current = 0 /\ queue # <<>> /\ c \in Caller /\ w \in Worker
      /\ queue' \in Seq(Caller) /\ owner' \in Seq(Caller) /\ Len(owner') = id
      /\ id \in Nat /\ Turn' = Turn \cup {id} /\ id \notin Turn /\ 0 \notin Turn /\ id # 0
  <2>1. current = 0 /\ queue # <<>> /\ w \in Worker
    BY DEF RunNext, Runnable
  <2>2. queue \in Seq(Caller) /\ owner \in Seq(Caller)
    BY DEF Inv, TypeOK
  <2>3. queue' = Tail(queue) /\ owner' = Append(owner, c)
    BY DEF RunNext
  <2>4. /\ c \in Caller /\ queue' \in Seq(Caller) /\ owner' \in Seq(Caller) /\ Len(owner') = id
        /\ Len(owner) \in Nat
    BY <2>1, <2>2, <2>3
  <2> QED
    BY <2>1, <2>4 DEF Turn
<1>2. /\ worker' = w /\ abortFlag' = 0 /\ pending' = pending \cup {id} /\ refd' = refd \cup {w}
      /\ current' = IF cloned THEN id ELSE 0
      /\ UNCHANGED <<due, running, round, conversation, deferred, outbox, heard, dropped>>
  BY <1>0 DEF RunNext
<1>3. /\ inbox' \in [Worker -> Seq([type : {"turn"}, id : Turn'] \cup {Reset})]
      /\ \A v \in Worker : v # w => inbox'[v] = inbox[v]
      /\ cloned => inbox'[w] = Append(inbox[w], turn)
      /\ ~cloned => inbox'[w] = inbox[w]
      /\ Len(inbox[w]) \in Nat
      /\ cloned => /\ Len(inbox'[w]) = Len(inbox[w]) + 1
                   /\ inbox'[w][Len(inbox[w]) + 1] = turn
                   /\ \A i \in 1..Len(inbox[w]) : inbox'[w][i] = inbox[w][i]
  <2>1. inbox \in [Worker -> Seq([type : {"turn"}, id : Turn'] \cup {Reset})]
    BY <1>1 DEF Inv, TypeOK
  <2>2. inbox' = IF cloned THEN [inbox EXCEPT ![w] = Append(@, turn)] ELSE inbox
    BY <1>0 DEF RunNext, Posted
  <2>3. turn \in [type : {"turn"}, id : Turn'] \cup {Reset}
    BY <1>1
  <2>4. inbox[w] \in Seq([type : {"turn"}, id : Turn'] \cup {Reset})
    BY <1>1, <2>1
  <2>5. /\ Append(inbox[w], turn) \in Seq([type : {"turn"}, id : Turn'] \cup {Reset})
        /\ Len(inbox[w]) \in Nat
        /\ Len(Append(inbox[w], turn)) = Len(inbox[w]) + 1
        /\ Append(inbox[w], turn)[Len(inbox[w]) + 1] = turn
        /\ \A i \in 1..Len(inbox[w]) : Append(inbox[w], turn)[i] = inbox[w][i]
    BY <2>3, <2>4, AppendOf
  <2> QED
    BY <1>1, <2>1, <2>2, <2>5
<1>4. /\ state' \in [Worker -> {"none", "live", "dead"}]
      /\ state'[w] # "none"
      /\ \A v \in Worker : v # w => state'[v] = state[v]
      /\ worker # 0 => state' = state
      /\ worker = 0 => state' = [state EXCEPT ![w] = "live"]
  BY <1>0, <1>1, ThreadIsFree DEF RunNext, Inv, TypeOK, Unstarted
<1>5. run' \in [Caller -> {"none", "open", "aborted"}]
  BY <1>1 DEF RunNext, Inv, TypeOK
<1>6. TypeOK'
  <2>1. outbox' \in [Worker -> Seq([type : {"result", "error"}, id : Turn'])]
    <3>1. [type : {"result", "error"}, id : Turn] \subseteq [type : {"result", "error"}, id : Turn']
      BY <1>1
    <3>2. outbox' \in [Worker -> Seq([type : {"result", "error"}, id : Turn])]
      BY <1>2 DEF Inv, TypeOK
    <3>3. Seq([type : {"result", "error"}, id : Turn]) \subseteq Seq([type : {"result", "error"}, id : Turn'])
      BY <3>1, SeqMonotone
    <3> QED
      BY <3>2, <3>3
  <2>2. /\ running' \in [Worker -> SUBSET Turn'] /\ conversation' \in [Worker -> SUBSET Turn']
        /\ heard' \subseteq Turn' /\ dropped' \subseteq Turn' /\ pending' \subseteq Turn'
    BY <1>1, <1>2 DEF Inv, TypeOK
  <2>3. current' \in 0..Len(owner') /\ (current' # 0 => current' \in pending')
    BY <1>1, <1>2
  <2>4. /\ worker' \in {0} \cup Worker /\ refd' \subseteq Worker /\ abortFlag' \in {0, 1}
        /\ due' \in [Worker -> SUBSET {"error", "exit"}]
        /\ round' \in [Worker -> 0..MaxRounds] /\ deferred' \in [Worker -> BOOLEAN]
    BY <1>1, <1>2 DEF Inv, TypeOK
  <2>5. Reset' = Reset /\ Worker' = Worker
    BY DEF Reset, Worker
  <2> QED
    BY <1>1, <1>3, <1>4, <1>5, <2>1, <2>2, <2>3, <2>4, <2>5 DEF TypeOK
<1>7. Unstarted'
  BY <1>1, <1>2, <1>3, <1>4 DEF Inv, Unstarted
<1>8. Chained'
  <2>1. running'[w] = {} /\ \A i \in 1..Len(inbox[w]) : inbox[w][i].type # "turn"
    BY <1>1, <1>2, <1>0, NothingWaits
  <2>2. \A v \in Worker : v # w => running'[v] = running[v] /\ inbox'[v] = inbox[v]
    BY <1>2, <1>3
  <2>3. \A i \in 1..Len(inbox'[w]) : inbox'[w][i].type = "turn" => i = Len(inbox'[w])
    BY <1>3, <2>1
  <2> QED
    BY <1>2, <2>1, <2>2, <2>3 DEF Inv, Chained, Worker
<1>9. \A v \in Worker, j \in Turn' : Waiting(v, j)' => Waiting(v, j) \/ (cloned /\ v = w /\ j = id)
  <2> SUFFICES ASSUME NEW v \in Worker, NEW j \in Turn', Waiting(v, j)'
               PROVE  Waiting(v, j) \/ (cloned /\ v = w /\ j = id)
    OBVIOUS
  <2>1. CASE v # w \/ ~cloned
    BY <1>2, <1>3, <2>1 DEF Waiting
  <2>2. CASE v = w /\ cloned
    <3>1. CASE j \in running'[w]
      BY <1>2, <2>2, <3>1 DEF Waiting
    <3>2. ASSUME NEW i \in 1..Len(inbox'[w]), inbox'[w][i].type = "turn", inbox'[w][i].id = j
          PROVE  Waiting(v, j) \/ (cloned /\ v = w /\ j = id)
      <4>1. CASE i = Len(inbox[w]) + 1
        BY <1>3, <2>2, <3>2, <4>1
      <4>2. CASE i # Len(inbox[w]) + 1
        <5>1. i \in 1..Len(inbox[w]) /\ inbox'[w][i] = inbox[w][i]
          BY <1>3, <2>2, <4>2
        <5> QED
          BY <2>2, <3>2, <5>1 DEF Waiting
      <4> QED
        BY <4>1, <4>2
    <3> QED
      BY <2>2, <3>1, <3>2 DEF Waiting
  <2> QED
    BY <2>1, <2>2
<1>10. \A v \in Worker : ~Waiting(v, id) /\ ~Answered(v, id) /\ id \notin conversation[v]
  BY <1>1, MessageTypes
<1>11. \A v \in Worker, j \in Turn' : Answered(v, j)' <=> Answered(v, j)
  BY <1>2 DEF Answered
<1>12. Located'
  <2> SUFFICES ASSUME NEW v \in Worker, NEW j \in pending',
                      Waiting(v, j)' \/ Answered(v, j)' \/ j \in conversation[v]'
               PROVE  j = current' /\ v = worker'
    BY DEF Located, Worker
  <2>1. j \in Turn'
    BY <1>6 DEF TypeOK
  <2>2. Waiting(v, j) \/ Answered(v, j) \/ j \in conversation[v] \/ (cloned /\ v = w /\ j = id)
    BY <1>2, <1>9, <1>11, <2>1
  <2>3. CASE j = id
    BY <1>2, <1>10, <2>2, <2>3
  <2>4. CASE j # id
    BY <1>1, <1>2, <2>1, <2>2, <2>4 DEF Inv, Located
  <2> QED
    BY <2>3, <2>4
<1>13. Expected'
  <2> SUFFICES ASSUME NEW j \in Turn', Waiting(w, j)'
               PROVE  j = current' /\ ~Answered(w, current)'
    <3>1. worker' = w
      BY <1>2
    <3> QED
      BY <3>1 DEF Expected
  <2>1. ~Waiting(w, j)
    BY <1>0, NothingWaits, <1>1 DEF Waiting
  <2>2. j = id /\ cloned
    BY <1>1, <1>9, <2>1
  <2> QED
    BY <1>1, <1>2, <1>10, <2>2 DEF Answered
<1>14. Disowned'
  <2>1. \A v \in Worker, j \in dropped' : ~Waiting(v, j)'
    BY <1>1, <1>2, <1>9 DEF Inv, TypeOK, Disowned
  <2>2. ASSUME NEW v \in Worker, conversation'[v] \cap dropped' # {}
        PROVE  \E i \in 1..Len(inbox'[v]) : inbox'[v][i] = Reset
    <3>1. PICK i \in 1..Len(inbox[v]) : inbox[v][i] = Reset
      BY <1>2, <2>2 DEF Inv, Disowned
    <3>2. i \in 1..Len(inbox'[v]) /\ inbox'[v][i] = inbox[v][i]
      BY <1>1, <1>3
    <3> QED
      BY <3>1, <3>2
  <2> QED
    BY <2>1, <2>2 DEF Disowned, Worker, Reset
<1>15. Spare'
  <2>1. CASE worker # 0
    <3>1. UNCHANGED <<state, due, worker>>
      BY <1>2, <1>4, <2>1, <1>0, ThreadIsFree
    <3> QED
      BY <3>1, SpareKept DEF Inv
  <2>2. CASE worker = 0
    <3>1. state \in [Worker -> {"none", "live", "dead"}] /\ state[w] = "none"
      BY <1>0, <2>2, ThreadIsFree DEF Inv, TypeOK
    <3>2. state' = [state EXCEPT ![w] = "live"] /\ due' = due
      BY <1>2, <1>4, <2>2
    <3>3. Started' = Started \cup {w} /\ w \notin Started
      BY <3>1, <3>2 DEF Started, Worker
    <3>4. Dead' = Dead
      BY <3>1, <3>2 DEF Dead, Worker
    <3>5. Events' = Events
      BY <3>2 DEF Events, Worker
    <3>6. Cardinality(Started') = Cardinality(Started) + 1
      BY <3>3, Counted, FS_AddElement
    <3>7. worker' # 0
      BY <1>1, <1>2, WorkerFinite
    <3> QED
      BY <2>2, <3>4, <3>5, <3>6, <3>7, Counted, WorkerAssumption DEF Inv, Spare
  <2> QED
    BY <2>1, <2>2
<1>16. AbortStays' /\ HeldWhilePending' /\ ResetBetweenTurns'
  BY <1>1, <1>2 DEF Inv, TypeOK, AbortStays, HeldWhilePending, ResetBetweenTurns, Worker
<1> QED
  BY <1>6, <1>7, <1>8, <1>12, <1>13, <1>14, <1>15, <1>16 DEF Inv

(* An answer nobody waits for changes nothing but the port it came by.      *)
LEMMA DeliverUnknown ==
  ASSUME Inv, NEW v \in Worker, Deliver(v), Head(outbox[v]).id \notin pending
  PROVE  Inv'
<1>1. /\ outbox[v] # <<>> /\ outbox' = [outbox EXCEPT ![v] = Tail(@)]
      /\ UNCHANGED <<run, queue, owner, current, pending, worker, refd, inbox, dropped, abortFlag,
                     state, due, running, round, conversation, deferred, heard>>
  BY DEF Deliver, client, threads
<1>2. /\ Tail(outbox[v]) \in Seq([type : {"result", "error"}, id : Turn])
      /\ Len(outbox[v]) \in Nat /\ Len(Tail(outbox[v])) = Len(outbox[v]) - 1
      /\ \A i \in 1..Len(Tail(outbox[v])) : Tail(outbox[v])[i] = outbox[v][i + 1]
  <2>1. outbox[v] \in Seq([type : {"result", "error"}, id : Turn])
    BY DEF Inv, TypeOK
  <2> QED
    BY <1>1, <2>1, TailOf
<1>3. TypeOK'
  BY <1>1, <1>2 DEF Inv, TypeOK, Turn, Reset, Worker
<1>4. \A w \in Worker : \A id : Waiting(w, id)' <=> Waiting(w, id)
  BY <1>1 DEF Waiting
<1>5. \A w \in Worker : \A id : Answered(w, id)' => Answered(w, id)
  BY <1>1, <1>2 DEF Inv, TypeOK, Answered
<1>6. Unstarted'
  BY <1>1 DEF Inv, TypeOK, Unstarted, Worker
<1>7. Chained' /\ AbortStays' /\ HeldWhilePending' /\ ResetBetweenTurns'
  BY <1>1 DEF Inv, Chained, AbortStays, HeldWhilePending, ResetBetweenTurns, Worker
<1>8. Located' /\ Expected'
  BY <1>1, <1>4, <1>5 DEF Inv, Located, Expected, Worker, Turn
<1>9. Disowned'
  BY <1>1, <1>4 DEF Inv, Disowned, Worker, Reset
<1>10. Spare'
  BY <1>1, SpareKept DEF Inv
<1> QED
  BY <1>3, <1>6, <1>7, <1>8, <1>9, <1>10 DEF Inv

(* The answer the client waits for comes from its worker, which has nothing *)
(* else to do; a reset is posted behind it.                                 *)
LEMMA DeliverAwaited ==
  ASSUME Inv, NEW v \in Worker, Deliver(v), Head(outbox[v]).id \in pending
  PROVE  Inv'
<1> DEFINE id == Head(outbox[v]).id
<1>1. /\ outbox[v] # <<>> /\ outbox' = [outbox EXCEPT ![v] = Tail(@)]
      /\ pending' = pending \ {id} /\ current' = 0
      /\ refd' = IF pending \ {id} = {} THEN refd \ {worker} ELSE refd
      /\ \/ inbox' = Forget /\ dropped' = dropped \cup {id}
         \/ inbox' = inbox /\ dropped' = dropped
      /\ UNCHANGED <<queue, owner, worker, abortFlag,
                     state, due, running, round, conversation, deferred, heard>>
  BY DEF Deliver, Released, threads
<1>2. /\ Tail(outbox[v]) \in Seq([type : {"result", "error"}, id : Turn])
      /\ Len(outbox[v]) \in Nat /\ Len(outbox[v]) >= 1 /\ outbox[v][1] = Head(outbox[v])
      /\ Len(Tail(outbox[v])) = Len(outbox[v]) - 1
      /\ \A i \in 1..Len(Tail(outbox[v])) : Tail(outbox[v])[i] = outbox[v][i + 1]
  <2>1. outbox[v] \in Seq([type : {"result", "error"}, id : Turn])
    BY DEF Inv, TypeOK
  <2> QED
    BY <1>1, <2>1, TailOf
<1>3. Answered(v, id) /\ id \in Turn
  BY <1>2, MessageTypes DEF Answered
<1>4. id = current /\ v = worker
  BY <1>3 DEF Inv, Located
<1>5. \A j : ~Waiting(v, j)
  BY <1>3, <1>4, MessageTypes DEF Inv, Expected
<1>6. running[v] = {} /\ \A i \in 1..Len(inbox[v]) : inbox[v][i].type # "turn"
  BY <1>5 DEF Waiting
<1>7. /\ inbox' \in [Worker -> Seq([type : {"turn"}, id : Turn] \cup {Reset})]
      /\ \A w \in Worker : w # v => inbox'[w] = inbox[w]
      /\ \A i \in 1..Len(inbox[v]) : i \in 1..Len(inbox'[v]) /\ inbox'[v][i] = inbox[v][i]
      /\ \A i \in 1..Len(inbox'[v]) : i \in 1..Len(inbox[v]) \/ inbox'[v][i] = Reset
      /\ dropped' # dropped => \E i \in 1..Len(inbox'[v]) : inbox'[v][i] = Reset
  <2>1. CASE inbox' = inbox /\ dropped' = dropped
    BY <2>1 DEF Inv, TypeOK
  <2>2. CASE inbox' = Forget
    <3>1. inbox' = [inbox EXCEPT ![v] = Append(@, Reset)]
      BY <1>4, <2>2, WorkerFinite DEF Forget, Posted
    <3>2. inbox \in [Worker -> Seq([type : {"turn"}, id : Turn] \cup {Reset})]
      BY DEF Inv, TypeOK
    <3>3. /\ Append(inbox[v], Reset) \in Seq([type : {"turn"}, id : Turn] \cup {Reset})
          /\ Len(inbox[v]) \in Nat
          /\ Len(Append(inbox[v], Reset)) = Len(inbox[v]) + 1
          /\ Append(inbox[v], Reset)[Len(inbox[v]) + 1] = Reset
          /\ \A i \in 1..Len(inbox[v]) : Append(inbox[v], Reset)[i] = inbox[v][i]
      BY <3>2, AppendOf
    <3> QED
      BY <3>1, <3>2, <3>3
  <2> QED
    BY <1>1, <2>1, <2>2
<1>8. \A i \in 1..Len(inbox'[v]) : inbox'[v][i].type # "turn"
  BY <1>6, <1>7 DEF Reset
<1>9. \A w \in Worker : \A j : Waiting(w, j)' => Waiting(w, j) /\ w # v
  BY <1>1, <1>6, <1>7, <1>8 DEF Waiting
<1>10. \A w \in Worker : \A j : Answered(w, j)' => Answered(w, j)
  BY <1>1, <1>2 DEF Inv, TypeOK, Answered
<1>11. TypeOK'
  <2>1. run' \in [Caller -> {"none", "open", "aborted"}]
    <3>1. run' = [run EXCEPT ![owner[id]] =
                    IF Head(outbox[v]).type = "error" \/ @ = "aborted" THEN "none" ELSE @]
      BY DEF Deliver
    <3>2. run \in [Caller -> {"none", "open", "aborted"}]
      BY DEF Inv, TypeOK
    <3> QED
      BY <3>1, <3>2
  <2>2. /\ current' \in 0..Len(owner') /\ pending' \subseteq Turn' /\ (current' # 0 => current' \in pending')
        /\ dropped' \subseteq Turn' /\ refd' \subseteq Worker
    <3>1. Len(owner) \in Nat /\ pending \subseteq Turn /\ dropped \subseteq Turn /\ refd \subseteq Worker
      BY ElementsOf DEF Inv, TypeOK
    <3>2. Turn' = Turn /\ owner' = owner
      BY <1>1 DEF Turn
    <3> QED
      BY <1>1, <1>3, <3>1, <3>2
  <2>3. inbox' \in [Worker -> Seq([type : {"turn"}, id : Turn'] \cup {Reset'})]
    BY <1>1, <1>7 DEF Turn, Reset
  <2> QED
    BY <1>1, <1>2, <2>1, <2>2, <2>3 DEF Inv, TypeOK, Turn, Worker
<1>12. Unstarted'
  BY <1>1, <1>4, <1>7 DEF Inv, TypeOK, Unstarted, Worker
<1>13. Chained'
  BY <1>1, <1>6, <1>7, <1>8 DEF Inv, Chained, Worker
<1>14. Located'
  BY <1>1, <1>4, <1>9, <1>10 DEF Inv, Located, Worker
<1>15. Expected'
  BY <1>1, <1>4, <1>9 DEF Expected, Worker, Turn
<1>16. Disowned'
  <2>1. \A w \in Worker, j \in dropped' : ~Waiting(w, j)'
    BY <1>1, <1>3, <1>4, <1>9 DEF Inv, Disowned, Located
  <2>2. ASSUME NEW w \in Worker, conversation'[w] \cap dropped' # {}
        PROVE  \E i \in 1..Len(inbox'[w]) : inbox'[w][i] = Reset
    <3>1. CASE conversation[w] \cap dropped # {}
      BY <1>7, <3>1 DEF Inv, Disowned
    <3>2. CASE conversation[w] \cap dropped = {}
      <4>1. id \in conversation[w] /\ dropped' # dropped
        BY <1>1, <2>2, <3>2
      <4>2. w = v
        BY <1>4, <4>1 DEF Inv, Located
      <4> QED
        BY <1>7, <4>1, <4>2
    <3> QED
      BY <3>1, <3>2
  <2> QED
    BY <2>1, <2>2 DEF Disowned, Worker, Reset
<1>17. Spare'
  BY <1>1, SpareKept DEF Inv
<1>18. AbortStays' /\ HeldWhilePending' /\ ResetBetweenTurns'
  <2>1. 0 \notin heard /\ worker # 0
    BY <1>4, WorkerFinite DEF Inv, TypeOK, Turn
  <2> QED
    BY <1>1, <2>1 DEF Inv, AbortStays, HeldWhilePending, ResetBetweenTurns, Worker
<1> QED
  BY <1>11, <1>12, <1>13, <1>14, <1>15, <1>16, <1>17, <1>18 DEF Inv

LEMMA DeliverKeeps ==
  ASSUME Inv, NEW v \in Worker, Deliver(v)
  PROVE  Inv'
BY DeliverUnknown, DeliverAwaited

(* A death that is noticed, by its error or its exit, settles everything    *)
(* the client waited for and leaves it without a worker.                    *)
LEMMA LetGoKeeps ==
  ASSUME Inv, NEW v \in Worker, WorkerError(v) \/ WorkerExit(v)
  PROVE  Inv'
<1>1. /\ pending' = {} /\ worker' = 0 /\ current' = 0
      /\ UNCHANGED <<queue, owner, refd, abortFlag, state, running, round, conversation, deferred,
                     inbox, outbox, heard, dropped>>
  BY DEF WorkerError, WorkerExit, LetGo
<1>2. PICK e \in {"error", "exit"} : e \in due[v] /\ \E rest \in SUBSET (due[v] \ {e}) :
        due' = [due EXCEPT ![v] = rest]
  <2>1. CASE WorkerError(v)
    BY <2>1 DEF WorkerError
  <2>2. CASE WorkerExit(v)
    BY <2>2 DEF WorkerExit
  <2> QED
    BY <2>1, <2>2
<1>3. PICK rest \in SUBSET (due[v] \ {e}) : due' = [due EXCEPT ![v] = rest]
  BY <1>2
<1>4. run' \in [Caller -> {"none", "open", "aborted"}]
  BY DEF WorkerError, WorkerExit, LetGo, Inv, TypeOK
<1>5. 0 \notin Worker /\ 0 \notin Turn /\ Len(owner) \in Nat
  BY WorkerFinite, ElementsOf DEF Turn, Inv, TypeOK
<1>6. TypeOK'
  <2>1. due' \in [Worker -> SUBSET {"error", "exit"}]
    BY <1>3 DEF Inv, TypeOK
  <2>2. current' \in 0..Len(owner')
    BY <1>1, <1>5
  <2> QED
    BY <1>1, <1>4, <2>1, <2>2 DEF Inv, TypeOK, Turn, Reset, Worker
<1>7. Unstarted' /\ Chained' /\ Located' /\ Expected' /\ Disowned'
  <2>1. \A w \in Worker : state[w] = "none" => due'[w] = {}
    BY <1>2, <1>3 DEF Inv, TypeOK, Unstarted
  <2>2. Unstarted' /\ Chained'
    BY <1>1, <1>5, <2>1 DEF Inv, Unstarted, Chained, Worker
  <2>3. Located' /\ Expected'
    BY <1>1, <1>5 DEF Located, Expected, Worker
  <2>4. Disowned'
    BY <1>1 DEF Inv, Disowned, Waiting, Worker, Reset
  <2> QED
    BY <2>2, <2>3, <2>4
<1>8. Spare'
  <2>1. Started' = Started /\ Dead' = Dead
    BY <1>1 DEF Started, Dead, Worker
  <2>2. Events' \subseteq Events \ {<<v, e>>} /\ <<v, e>> \in Events
    BY <1>2, <1>3 DEF Events, Inv, TypeOK, Worker
  <2>3. /\ IsFiniteSet(Events \ {<<v, e>>})
        /\ Cardinality(Events \ {<<v, e>>}) = Cardinality(Events) - 1
    BY <2>2, Counted, FS_RemoveElement
  <2>4. /\ Cardinality(Events') <= Cardinality(Events \ {<<v, e>>})
        /\ Cardinality(Events') \in Nat
    BY <2>2, <2>3, FS_Subset, FS_CardinalityType
  <2> QED
    BY <1>1, <2>1, <2>3, <2>4, Counted, WorkerAssumption DEF Inv, Spare
<1>9. AbortStays' /\ HeldWhilePending' /\ ResetBetweenTurns'
  BY <1>1, <1>5 DEF Inv, TypeOK, AbortStays, HeldWhilePending, ResetBetweenTurns, Worker, Turn
<1> QED
  BY <1>6, <1>7, <1>8, <1>9 DEF Inv

----------------------------------------------------------------------------
(* The worker *)

LEMMA ReceiveKeeps ==
  ASSUME Inv, NEW w \in Worker, Receive(w)
  PROVE  Inv'
<1> DEFINE m == Head(inbox[w])
<1>1. /\ state[w] = "live" /\ inbox[w] # <<>> /\ inbox' = [inbox EXCEPT ![w] = Tail(@)]
      /\ UNCHANGED <<run, queue, owner, current, pending, worker, refd, abortFlag, state, due, outbox,
                     heard, dropped>>
  BY DEF Receive, TakeIn, client
<1>2. /\ Len(inbox[w]) \in Nat /\ Len(inbox[w]) >= 1 /\ m = inbox[w][1]
      /\ m \in [type : {"turn"}, id : Turn] \cup {Reset}
      /\ Tail(inbox[w]) \in Seq([type : {"turn"}, id : Turn] \cup {Reset})
      /\ Len(Tail(inbox[w])) = Len(inbox[w]) - 1
      /\ \A i \in 1..Len(Tail(inbox[w])) : Tail(inbox[w])[i] = inbox[w][i + 1]
  <2>1. inbox[w] \in Seq([type : {"turn"}, id : Turn] \cup {Reset})
    BY DEF Inv, TypeOK
  <2> QED
    BY <1>1, <2>1, TailOf
<1>3. running[w] = {}
  BY <1>1 DEF Inv, Chained
<1>4. inbox' \in [Worker -> Seq([type : {"turn"}, id : Turn] \cup {Reset})]
  BY <1>1, <1>2 DEF Inv, TypeOK
<1>5. \A v \in Worker : v # w => inbox'[v] = inbox[v]
  BY <1>1 DEF Inv, TypeOK
<1>6. inbox'[w] = Tail(inbox[w])
  BY <1>1 DEF Inv, TypeOK
<1>7. CASE m.type = "reset"
  <2>1. /\ deferred' = [deferred EXCEPT ![w] = FALSE] /\ conversation' = [conversation EXCEPT ![w] = {}]
        /\ UNCHANGED <<running, round>>
    BY <1>3, <1>7 DEF Receive, TakeIn
  <2>2. TypeOK'
    BY <1>1, <1>4, <2>1 DEF Inv, TypeOK, Turn, Worker, Reset
  <2>3. \A v \in Worker : \A id : Waiting(v, id)' => Waiting(v, id)
    <3> SUFFICES ASSUME NEW id, Waiting(w, id)' PROVE Waiting(w, id)
      BY <1>5, <2>1 DEF Waiting
    <3>1. PICK i \in 1..Len(Tail(inbox[w])) :
             Tail(inbox[w])[i].type = "turn" /\ Tail(inbox[w])[i].id = id
      BY <1>3, <1>6, <2>1 DEF Waiting
    <3>2. i + 1 \in 1..Len(inbox[w]) /\ Tail(inbox[w])[i] = inbox[w][i + 1]
      BY <1>2
    <3> QED
      BY <3>1, <3>2 DEF Waiting
  <2>4. \A v \in Worker : \A id : Answered(v, id)' <=> Answered(v, id)
    BY <1>1 DEF Answered
  <2>5. Unstarted'
    BY <1>1, <1>5, <2>1 DEF Inv, TypeOK, Unstarted, Worker
  <2>6. Chained'
    <3>1. \A i \in 1..Len(inbox'[w]) : inbox'[w][i].type = "turn" => i = Len(inbox'[w])
      <4> SUFFICES ASSUME NEW i \in 1..Len(Tail(inbox[w])), Tail(inbox[w])[i].type = "turn"
                   PROVE  i = Len(Tail(inbox[w]))
        BY <1>6
      <4>1. i + 1 \in 1..Len(inbox[w]) /\ inbox[w][i + 1].type = "turn"
        BY <1>2
      <4>2. i + 1 = Len(inbox[w])
        BY <4>1 DEF Inv, Chained
      <4> QED
        BY <1>2, <4>2
    <3> QED
      BY <1>3, <1>5, <2>1, <3>1 DEF Inv, Chained, Worker
  <2>7. Located' /\ Expected'
    <3>1. \A v \in Worker : conversation'[v] \subseteq conversation[v]
      BY <2>1 DEF Inv, TypeOK
    <3> QED
      BY <1>1, <2>3, <2>4, <3>1 DEF Inv, Located, Expected, Worker, Turn
  <2>8. Disowned'
    <3>1. \A v \in Worker, id \in dropped' : ~Waiting(v, id)'
      BY <1>1, <2>3 DEF Inv, Disowned
    <3>2. \A v \in Worker : v # w => conversation'[v] = conversation[v]
      BY <2>1 DEF Inv, TypeOK
    <3>3. conversation'[w] = {}
      BY <2>1 DEF Inv, TypeOK
    <3> QED
      BY <1>1, <1>5, <3>1, <3>2, <3>3 DEF Inv, Disowned, Worker, Reset
  <2>9. Spare' /\ AbortStays' /\ HeldWhilePending'
    BY <1>1, SpareKept DEF Inv, AbortStays, HeldWhilePending
  <2>10. ResetBetweenTurns'
    BY <2>1 DEF Inv, TypeOK, ResetBetweenTurns, Worker
  <2> QED
    BY <2>2, <2>5, <2>6, <2>7, <2>8, <2>9, <2>10 DEF Inv
<1>8. CASE m.type # "reset"
  <2>1. m.type = "turn" /\ m.id \in Turn
    BY <1>2, <1>8 DEF Reset
  <2>2. Len(inbox[w]) = 1 /\ inbox'[w] = <<>>
    <3>1. 1 \in 1..Len(inbox[w]) /\ inbox[w][1].type = "turn"
      BY <1>2, <2>1
    <3>2. Len(inbox[w]) = 1
      BY <3>1 DEF Inv, Chained
    <3>3. Len(Tail(inbox[w])) = 0
      BY <1>2, <3>2
    <3>4. Tail(inbox[w]) = <<>>
      BY <1>2, <3>3, NoElements
    <3> QED
      BY <1>6, <3>2, <3>4
  <2>3. /\ running' = [running EXCEPT ![w] = @ \cup {m.id}] /\ round' = [round EXCEPT ![w] = 0]
        /\ deferred' = deferred
    BY <1>8 DEF Receive, TakeIn
  <2>4. PICK kept \in {{}, conversation[w]} : conversation' = [conversation EXCEPT ![w] = kept]
    BY <1>8 DEF Receive, TakeIn
  <2>5. running'[w] = {m.id} /\ \A v \in Worker : v # w => running'[v] = running[v]
    BY <1>3, <2>3 DEF Inv, TypeOK
  <2>6. /\ \A v \in Worker : conversation'[v] \subseteq conversation[v]
        /\ \A v \in Worker : v # w => conversation'[v] = conversation[v]
    BY <2>4 DEF Inv, TypeOK
  <2>7. TypeOK'
    <3>1. /\ running' \in [Worker -> SUBSET Turn] /\ round' \in [Worker -> 0..MaxRounds]
          /\ conversation' \in [Worker -> SUBSET Turn]
      BY <2>1, <2>3, <2>4, WorkerAssumption DEF Inv, TypeOK
    <3> QED
      BY <1>1, <1>4, <2>3, <3>1 DEF Inv, TypeOK, Turn, Worker, Reset
  <2>8. Waiting(w, m.id)
    BY <1>2, <2>1, <2>2 DEF Waiting
  <2>9. \A v \in Worker : \A id : Waiting(v, id)' => Waiting(v, id)
    <3>1. ASSUME NEW id, Waiting(w, id)' PROVE Waiting(w, id)
      BY <2>2, <2>5, <2>8, <3>1 DEF Waiting
    <3>2. ASSUME NEW v \in Worker, v # w, NEW id, Waiting(v, id)' PROVE Waiting(v, id)
      BY <1>5, <2>5, <3>2 DEF Waiting
    <3> QED
      BY <3>1, <3>2
  <2>10. \A v \in Worker : \A id : Answered(v, id)' <=> Answered(v, id)
    BY <1>1 DEF Answered
  <2>11. Unstarted'
    BY <1>1, <1>5, <2>5, <2>6 DEF Inv, Unstarted, Worker
  <2>12. Chained'
    BY <1>5, <2>2, <2>5 DEF Inv, Chained, Worker
  <2>13. Located' /\ Expected'
    BY <1>1, <2>6, <2>9, <2>10 DEF Inv, Located, Expected, Worker, Turn
  <2>14. Disowned'
    <3>1. \A v \in Worker, id \in dropped' : ~Waiting(v, id)'
      BY <1>1, <2>9 DEF Inv, Disowned
    <3>2. conversation[w] \cap dropped = {}
      <4>1. \A i \in 1..Len(inbox[w]) : inbox[w][i] # Reset
        BY <1>2, <1>8, <2>2 DEF Reset
      <4> QED
        BY <4>1 DEF Inv, Disowned
    <3>3. conversation'[w] \cap dropped' = {}
      BY <1>1, <2>6, <3>2
    <3> QED
      BY <1>1, <1>5, <2>6, <3>1, <3>3 DEF Inv, Disowned, Worker, Reset
  <2>15. Spare' /\ AbortStays' /\ HeldWhilePending' /\ ResetBetweenTurns'
    BY <1>1, <2>3, SpareKept DEF Inv, AbortStays, HeldWhilePending, ResetBetweenTurns, Worker
  <2> QED
    BY <2>7, <2>11, <2>12, <2>13, <2>14, <2>15 DEF Inv
<1> QED
  BY <1>7, <1>8

LEMMA DecodeKeeps ==
  ASSUME Inv, NEW w \in Worker, Decode(w)
  PROVE  Inv'
<1>1. UNCHANGED <<run, queue, owner, current, pending, worker, refd, abortFlag, state, due, running,
                  conversation, deferred, inbox, outbox, heard, dropped>>
  BY DEF Decode, client
<1>2. round' \in [Worker -> 0..MaxRounds]
  BY WorkerAssumption DEF Decode, Inv, TypeOK
<1>3. TypeOK'
  BY <1>1, <1>2 DEF Inv, TypeOK, Turn, Worker, Reset
<1>4. /\ Unstarted' /\ Chained' /\ Located' /\ Expected' /\ Disowned'
  BY <1>1 DEF Inv, Unstarted, Chained, Located, Expected, Disowned, Waiting, Answered, Worker, Turn, Reset
<1>5. Spare' /\ AbortStays' /\ HeldWhilePending' /\ ResetBetweenTurns'
  BY <1>1, SpareKept DEF Inv, AbortStays, HeldWhilePending, ResetBetweenTurns, Worker
<1> QED
  BY <1>3, <1>4, <1>5 DEF Inv

LEMMA AnswerKeeps ==
  ASSUME Inv, NEW w \in Worker, NEW id \in Turn, NEW type \in {"result", "error"}, Answer(w, id, type)
  PROVE  Inv'
<1> DEFINE answer == [type |-> type, id |-> id]
<1>1. /\ state[w] = "live" /\ id \in running[w]
      /\ running' = [running EXCEPT ![w] = @ \ {id}]
      /\ outbox' = [outbox EXCEPT ![w] = Append(@, answer)]
      /\ deferred' = [deferred EXCEPT ![w] = FALSE] /\ round' = [round EXCEPT ![w] = 0]
      /\ UNCHANGED <<run, queue, owner, current, pending, worker, refd, abortFlag, state, due, inbox,
                     heard, dropped>>
  BY DEF Answer, client
<1>2. PICK kept \in {{}, conversation[w], conversation[w] \cup {id}} :
        conversation' = [conversation EXCEPT ![w] = kept]
  <2>1. CASE type = "result"
    BY <2>1 DEF Answer
  <2>2. CASE type # "result"
    BY <2>2 DEF Answer
  <2> QED
    BY <2>1, <2>2
<1>3. /\ Append(outbox[w], answer) \in Seq([type : {"result", "error"}, id : Turn])
      /\ Len(outbox[w]) \in Nat /\ Len(Append(outbox[w], answer)) = Len(outbox[w]) + 1
      /\ Append(outbox[w], answer)[Len(outbox[w]) + 1] = answer
      /\ \A i \in 1..Len(outbox[w]) : Append(outbox[w], answer)[i] = outbox[w][i]
  <2>1. outbox[w] \in Seq([type : {"result", "error"}, id : Turn])
    BY DEF Inv, TypeOK
  <2> QED
    BY <2>1, AppendOf
<1>4. /\ outbox'[w] = Append(outbox[w], answer)
      /\ \A v \in Worker : v # w => outbox'[v] = outbox[v]
  BY <1>1 DEF Inv, TypeOK
<1>5. running'[w] = {} /\ inbox[w] = <<>> /\ \A v \in Worker : v # w => running'[v] = running[v]
  BY <1>1 DEF Inv, TypeOK, Chained
<1>6. /\ \A v \in Worker : v # w => conversation'[v] = conversation[v]
      /\ conversation'[w] \subseteq conversation[w] \cup {id}
  BY <1>2 DEF Inv, TypeOK
<1>7. Waiting(w, id)
  BY <1>1 DEF Waiting
<1>8. \A v \in Worker : \A j : Waiting(v, j)' => Waiting(v, j) /\ v # w
  BY <1>1, <1>5 DEF Waiting
<1>9. \A v \in Worker : \A j : Answered(v, j)' => Answered(v, j) \/ (v = w /\ j = id)
  <2> SUFFICES ASSUME NEW j, Answered(w, j)' PROVE Answered(w, j) \/ j = id
    BY <1>4 DEF Answered
  <2>1. PICK i \in 1..(Len(outbox[w]) + 1) : Append(outbox[w], answer)[i].id = j
    BY <1>3, <1>4 DEF Answered
  <2>2. CASE i = Len(outbox[w]) + 1
    BY <1>3, <2>1, <2>2
  <2>3. CASE i # Len(outbox[w]) + 1
    BY <1>3, <2>1, <2>3 DEF Answered
  <2> QED
    BY <2>2, <2>3
<1>10. TypeOK'
  <2>1. /\ running' \in [Worker -> SUBSET Turn] /\ conversation' \in [Worker -> SUBSET Turn]
        /\ round' \in [Worker -> 0..MaxRounds] /\ deferred' \in [Worker -> BOOLEAN]
    BY <1>1, <1>2, WorkerAssumption DEF Inv, TypeOK
  <2>2. outbox' \in [Worker -> Seq([type : {"result", "error"}, id : Turn])]
    BY <1>1, <1>3 DEF Inv, TypeOK
  <2> QED
    BY <1>1, <2>1, <2>2 DEF Inv, TypeOK, Turn, Worker, Reset
<1>11. Unstarted'
  BY <1>1, <1>4, <1>5, <1>6 DEF Inv, Unstarted, Worker
<1>12. Chained'
  BY <1>1, <1>5 DEF Inv, Chained, Worker
<1>13. Located'
  <2> SUFFICES ASSUME NEW v \in Worker, NEW j \in pending,
                      Waiting(v, j)' \/ Answered(v, j)' \/ j \in conversation'[v]
               PROVE  j = current /\ v = worker
    BY <1>1 DEF Located, Worker
  <2>1. Waiting(v, j) \/ Answered(v, j) \/ j \in conversation[v]
    BY <1>6, <1>7, <1>8, <1>9
  <2> QED
    BY <2>1 DEF Inv, Located
<1>14. Expected'
  <2> SUFFICES ASSUME NEW j \in Turn, Waiting(worker, j)', worker \in Worker
               PROVE  j = current /\ ~Answered(worker, current)'
    BY <1>1 DEF Expected, Worker, Turn
  <2>1. Waiting(worker, j) /\ worker # w
    BY <1>1, <1>8
  <2> QED
    BY <1>1, <1>4, <2>1 DEF Inv, Expected, Answered
<1>15. Disowned'
  <2>1. \A v \in Worker, j \in dropped' : ~Waiting(v, j)'
    BY <1>1, <1>8 DEF Inv, Disowned
  <2>2. conversation'[w] \cap dropped' = {}
    <3>1. id \notin dropped
      BY <1>7 DEF Inv, Disowned
    <3>2. conversation[w] \cap dropped = {}
      BY <1>5 DEF Inv, Disowned
    <3> QED
      BY <1>1, <1>6, <3>1, <3>2
  <2> QED
    BY <1>1, <1>6, <2>1, <2>2 DEF Inv, Disowned, Worker, Reset
<1>16. Spare' /\ AbortStays' /\ HeldWhilePending'
  BY <1>1, SpareKept DEF Inv, AbortStays, HeldWhilePending
<1>17. ResetBetweenTurns'
  BY <1>1 DEF Inv, TypeOK, ResetBetweenTurns, Worker
<1> QED
  BY <1>10, <1>11, <1>12, <1>13, <1>14, <1>15, <1>16, <1>17 DEF Inv

LEMMA DieKeeps ==
  ASSUME Inv, NEW w \in Worker, NEW events \in SUBSET {"error", "exit"}, Die(w, events)
  PROVE  Inv'
<1>1. /\ state[w] = "live" /\ Cardinality(Dead) < MaxCrashes
      /\ state' = [state EXCEPT ![w] = "dead"] /\ due' = [due EXCEPT ![w] = events]
      /\ running' = [running EXCEPT ![w] = {}] /\ round' = [round EXCEPT ![w] = 0]
      /\ conversation' = [conversation EXCEPT ![w] = {}]
      /\ deferred' = [deferred EXCEPT ![w] = FALSE] /\ inbox' = [inbox EXCEPT ![w] = <<>>]
      /\ UNCHANGED <<run, queue, owner, current, pending, worker, refd, abortFlag, outbox, heard, dropped>>
  BY DEF Die, client, Dead
<1>2. /\ running'[w] = {} /\ inbox'[w] = <<>> /\ conversation'[w] = {} /\ state'[w] = "dead"
      /\ \A v \in Worker : v # w =>
           /\ running'[v] = running[v] /\ inbox'[v] = inbox[v] /\ conversation'[v] = conversation[v]
           /\ state'[v] = state[v] /\ due'[v] = due[v]
  BY <1>1 DEF Inv, TypeOK
<1>3. TypeOK'
  <2>1. /\ running' \in [Worker -> SUBSET Turn] /\ conversation' \in [Worker -> SUBSET Turn]
        /\ round' \in [Worker -> 0..MaxRounds] /\ deferred' \in [Worker -> BOOLEAN]
        /\ state' \in [Worker -> {"none", "live", "dead"}]
        /\ due' \in [Worker -> SUBSET {"error", "exit"}]
    BY <1>1, WorkerAssumption DEF Inv, TypeOK
  <2>2. inbox' \in [Worker -> Seq([type : {"turn"}, id : Turn] \cup {Reset})]
    BY <1>1 DEF Inv, TypeOK
  <2> QED
    BY <1>1, <2>1, <2>2 DEF Inv, TypeOK, Turn, Worker, Reset
<1>4. \A v \in Worker : \A id : Waiting(v, id)' => Waiting(v, id) /\ v # w
  BY <1>2 DEF Waiting
<1>5. \A v \in Worker : \A id : Answered(v, id)' <=> Answered(v, id)
  BY <1>1 DEF Answered
<1>6. Unstarted' /\ Chained'
  BY <1>1, <1>2 DEF Inv, Unstarted, Chained, Worker
<1>7. Located' /\ Expected'
  BY <1>1, <1>2, <1>4, <1>5 DEF Inv, Located, Expected, Worker, Turn
<1>8. Disowned'
  BY <1>1, <1>2, <1>4 DEF Inv, Disowned, Worker, Reset
<1>9. Spare'
  <2>1. Started' = Started
    BY <1>1, <1>2 DEF Started, Worker
  <2>2. Dead' = Dead \cup {w} /\ w \notin Dead
    BY <1>1, <1>2 DEF Dead, Worker
  <2>3. Cardinality(Dead') = Cardinality(Dead) + 1
    BY <2>2, Counted, FS_AddElement
  <2>4. Events' \subseteq (Events \cup {<<w, "error">>}) \cup {<<w, "exit">>}
    BY <1>1, <1>2 DEF Events, Worker
  <2>5. /\ IsFiniteSet(Events \cup {<<w, "error">>})
        /\ Cardinality(Events \cup {<<w, "error">>}) \in Nat
        /\ Cardinality(Events \cup {<<w, "error">>}) <= Cardinality(Events) + 1
    BY Counted, AtMostOneMore
  <2>6. /\ IsFiniteSet((Events \cup {<<w, "error">>}) \cup {<<w, "exit">>})
        /\ Cardinality((Events \cup {<<w, "error">>}) \cup {<<w, "exit">>}) \in Nat
        /\ Cardinality((Events \cup {<<w, "error">>}) \cup {<<w, "exit">>}) <= Cardinality(Events) + 2
    <3>1. /\ IsFiniteSet((Events \cup {<<w, "error">>}) \cup {<<w, "exit">>})
          /\ Cardinality((Events \cup {<<w, "error">>}) \cup {<<w, "exit">>}) \in Nat
          /\ Cardinality((Events \cup {<<w, "error">>}) \cup {<<w, "exit">>})
               <= Cardinality(Events \cup {<<w, "error">>}) + 1
      BY <2>5, AtMostOneMore
    <3> QED
      BY <2>5, <3>1, Counted
  <2>7. Cardinality(Events') \in Nat /\ Cardinality(Events') <= Cardinality(Events) + 2
    BY <2>4, <2>6, Counted, FS_Subset, FS_CardinalityType
  <2> QED
    BY <1>1, <2>1, <2>3, <2>7, Counted, WorkerAssumption DEF Inv, Spare
<1>10. AbortStays' /\ HeldWhilePending' /\ ResetBetweenTurns'
  BY <1>1 DEF Inv, TypeOK, AbortStays, HeldWhilePending, ResetBetweenTurns, Worker
<1> QED
  BY <1>3, <1>6, <1>7, <1>8, <1>9, <1>10 DEF Inv

----------------------------------------------------------------------------

LEMMA Initially == Init => Inv
<1> SUFFICES ASSUME Init PROVE Inv
  OBVIOUS
<1>1. TypeOK
  BY WorkerAssumption DEF Init, TypeOK, Turn
<1>2. Unstarted /\ Chained /\ Located /\ Expected /\ Disowned
  BY WorkerFinite DEF Init, Unstarted, Chained, Located, Expected, Disowned, Waiting, Turn
<1>3. Started = {} /\ Dead = {} /\ Events = {}
  BY DEF Init, Started, Dead, Events
<1>4. Spare
  BY <1>3, FS_EmptySet, WorkerAssumption DEF Init, Spare
<1>5. AbortStays /\ HeldWhilePending /\ ResetBetweenTurns
  BY WorkerFinite DEF Init, AbortStays, HeldWhilePending, ResetBetweenTurns
<1> QED
  BY <1>1, <1>2, <1>4, <1>5 DEF Inv

LEMMA StepKeeps == Inv /\ [Next]_vars => Inv'
<1> SUFFICES ASSUME Inv, [Next]_vars PROVE Inv'
  OBVIOUS
<1>1. CASE \E c \in Caller : CallerStep(c)
  BY <1>1, CallerStepKeeps
<1>2. CASE ClientStep
  BY <1>2, RunNextKeeps DEF ClientStep
<1>3. CASE \E w \in Worker : DeliveryStep(w)
  BY <1>3, DeliverKeeps, LetGoKeeps DEF DeliveryStep
<1>4. CASE \E w \in Worker : WorkerStep(w)
  BY <1>4, ReceiveKeeps, DecodeKeeps, AnswerKeeps DEF WorkerStep
<1>5. ASSUME NEW w \in Worker, NEW events \in {{"error", "exit"}, {"exit"}}, Die(w, events)
      PROVE  Inv'
  BY <1>5, DieKeeps
<1>6. CASE UNCHANGED vars
  <2>1. UNCHANGED <<run, queue, owner, current, pending, worker, refd, abortFlag, state, due, running,
                    round, conversation, deferred, inbox, outbox, heard, dropped>>
    BY <1>6 DEF vars, client, threads
  <2>2. TypeOK' /\ AbortStays'
    BY <2>1 DEF Inv, TypeOK, AbortStays, Turn, Worker, Reset
  <2> QED
    BY <2>1, <2>2, CallersKeep DEF Inv, threads
<1> QED
  BY <1>1, <1>2, <1>3, <1>4, <1>5, <1>6 DEF Next

LEMMA Invariant == Spec => []Inv
BY Initially, StepKeeps, PTL DEF Spec

(* Callers, turns and threads are always what they seem; among them, there  *)
(* is always a thread left to start (the client's getWorker()).             *)
THEOREM TypeCorrect == Spec => []TypeOK
<1>1. Inv => TypeOK
  BY DEF Inv
<1> QED
  BY <1>1, Invariant, PTL

(* The engine is in one turn at a time, whatever is aborted, dies or cannot *)
(* be sent: the promise of the chain in runTurn() of the client.            *)
THEOREM OneTurnAtATime == Spec => []SingleDecode
<1>1. Inv => SingleDecode
  <2> SUFFICES ASSUME Inv, NEW w \in Worker PROVE Cardinality(running[w]) <= 1
    BY DEF SingleDecode
  <2>1. CASE running[w] = {}
    BY <2>1, FS_EmptySet
  <2>2. ASSUME NEW id \in running[w] PROVE Cardinality(running[w]) <= 1
    <3>1. running[w] = {id}
      BY DEF Inv, Chained
    <3>2. Cardinality({id}) = 1
      BY FS_Singleton
    <3> QED
      BY <3>1, <3>2
  <2> QED
    BY <2>1, <2>2
<1> QED
  BY <1>1, Invariant, PTL

(* The reset that follows an aborted turn never meets the next one: the     *)
(* worker's deferral (pendingReset) is not needed by this client.           *)
THEOREM ResetsBetweenTurns == Spec => []ResetBetweenTurns
<1>1. Inv => ResetBetweenTurns
  BY DEF Inv
<1> QED
  BY <1>1, Invariant, PTL

(* What was reported as aborted is out of the conversation before the next  *)
(* turn is in it, which is what resetConversation() is called for.          *)
THEOREM AbortedIsForgotten == Spec => []Forgotten
<1>1. Inv => Forgotten
  BY DEF Inv, Forgotten, Chained, Disowned
<1> QED
  BY <1>1, Invariant, PTL

(* The abort of a posted turn is there for shouldStop() until the turn has  *)
(* been answered.                                                           *)
THEOREM AbortIsKept == Spec => []AbortStays
<1>1. Inv => AbortStays
  BY DEF Inv
<1> QED
  BY <1>1, Invariant, PTL

(* A turn in flight holds the process open, an idle worker does not: the    *)
(* calls of ref() and unref() match.                                        *)
THEOREM HeldOpen == Spec => []HeldWhilePending
<1>1. Inv => HeldWhilePending
  BY DEF Inv
<1> QED
  BY <1>1, Invariant, PTL

=============================================================================
