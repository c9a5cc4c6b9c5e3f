----------------------------- MODULE ColdStore -----------------------------
(***************************************************************************)
(* The cold tier of the KV cache: encode/src/kvColdStore.ts, together with *)
(* the write queue of encode/src/agentLoop.ts that feeds it.               *)
(*                                                                         *)
(* Every AgentLoop owns one KVColdStore over a directory shared with every *)
(* other loop on the same GGUF.  A loop captures the KV synchronously and  *)
(* writes it in the background: evict, open <sha>.tmp, write header, text  *)
(* and payload with an await after each, close, rename to <sha>.  A loop   *)
(* that is dropped (abort, compaction, escalation) keeps draining its      *)
(* queue while its successor is constructed on the same directory.         *)
(*                                                                         *)
(* Files have identity: a directory name is bound to an inode and an open  *)
(* descriptor outlives the name.  SHA1 is collision free, so a checkpoint  *)
(* file is named by its text.  A checkpoint's KV is an opaque value.       *)
(***************************************************************************)
EXTENDS Naturals, FiniteSets, Sequences, SequencesExt

CONSTANTS
  Loop,        \* AgentLoop instances, each with its own KVColdStore
  Text,        \* rendered prompt texts, as non-empty sequences
  Prompt,      \* the prompts that are looked up
  Truncated,   \* texts whose file is there from the start, without its payload
  Snapshot,    \* KV captures: records with fields text, kv and reason
  NoSnap,      \* a block of a file that was never written
  Inode,       \* identities of files
  NoInode,     \* an unbound directory name
  Size(_),     \* bytes of a complete checkpoint file holding a snapshot
  Budget,      \* budgetBytes, 0 disables eviction
  Drained,     \* does the host await a loop's flushColdWrites() before it
               \*   constructs the next one?  freeSession() does; a reset, a
               \*   compaction or an escalation does not
  MaxQueue,    \* bound: snapshots one loop may have queued
  MaxHits,     \* bound: the hit counter of a checkpoint saturates here
  MaxAge       \* bound: half lives since the last use that are told apart

ASSUME SnapshotAssumption ==
  /\ \A s \in Snapshot : s.text \in Text /\ s.reason \in {"cold", "continued"}
  /\ NoSnap \notin Snapshot
ASSUME SizeAssumption == \A s \in Snapshot : Size(s) \in Nat
ASSUME TruncatedAssumption ==
  /\ Truncated \subseteq Text
  /\ \A t \in Truncated : \E s \in Snapshot : s.text = t
ASSUME HostAssumption == Drained \in BOOLEAN
ASSUME InodeAssumption == NoInode \notin Inode
ASSUME BoundAssumption == {Budget, MaxQueue, MaxHits, MaxAge} \subseteq Nat

VARIABLES
  final,    \* <sha> -> inode: the checkpoints a directory listing shows
  tmp,      \* <sha>.tmp -> inode: writes in progress, or left by a crash
  data,     \* inode -> blocks (1 header, 2 text, 3 payload), hits and age
  phase,    \* loop -> "none", "live", "flushing" or "dropped"
  queue,    \* loop -> coldWriteChain: snapshots not settled yet, head in flight
  fd,       \* loop -> inode open for the head of its queue
  next,     \* loop -> next block to write, 4 when the file is complete
  loaded    \* loop -> prompt and outcome of its last tryLoad()

vars == <<final, tmp, data, phase, queue, fd, next, loaded>>

Block == 1..3
Header == 1
PromptText == 2
Payload == 3

Empty == [blk |-> [b \in Block |-> NoSnap], hits |-> 0, age |-> 0]
NoMatch == [asked |-> <<>>, text |-> <<>>, header |-> NoSnap, payload |-> NoSnap]

File == [blk : [Block -> Snapshot \cup {NoSnap}], hits : 0..MaxHits, age : 0..MaxAge]

TypeOK ==
  /\ final \in [Text -> Inode \cup {NoInode}]
  /\ tmp \in [Text -> Inode \cup {NoInode}]
  /\ data \in [Inode -> File]
  /\ phase \in [Loop -> {"none", "live", "flushing", "dropped"}]
  /\ queue \in [Loop -> Seq(Snapshot)]
  /\ fd \in [Loop -> Inode \cup {NoInode}]
  /\ next \in [Loop -> 1..4]
  /\ DOMAIN loaded = Loop

----------------------------------------------------------------------------
(* The directory *)

Holds(i, s) == \A b \in Block : data[i].blk[b] = s
Complete(i) == \E s \in Snapshot : Holds(i, s)

Linked(i) == \E t \in Text : final[t] = i \/ tmp[t] = i
FreeInode(i) == ~Linked(i) /\ \A l \in Loop : fd[l] # i

(* listEntries(): names that are a sha and whose header can be read. *)
Listed == {t \in Text : final[t] # NoInode /\ data[final[t]].blk[Header] # NoSnap}

(* readPromptText(): the header and the whole text are there. *)
Readable == {t \in Listed : data[final[t]].blk[PromptText] # NoSnap}

FileSize(t) ==
  LET s == data[final[t]].blk[Payload] IN IF s = NoSnap THEN 1 ELSE Size(s)

----------------------------------------------------------------------------
(* Eviction *)

AnchorFactor(t) == IF data[final[t]].blk[Header].reason = "cold" THEN 2 ELSE 1

(* score(): hits halved once per half life since the last use, plus one,    *)
(* times tokens per byte, doubled for a cold checkpoint.  Fractions are     *)
(* scaled by 2^MaxAge and compared by cross multiplication.                 *)
Worth(t) ==
  LET f == data[final[t]] IN
  (f.hits * 2^(MaxAge - f.age) + 2^MaxAge) * Len(t) * AnchorFactor(t)
ScoreLeq(t, u) == Worth(t) * FileSize(u) <= Worth(u) * FileSize(t)

TotalSize(T) == SumFunction([t \in T |-> FileSize(t)])

(* Mutant of Victims: the bytes about to be written are not counted.        *)
VictimsOfNow(V, extra) ==
  LET fits(T) == TotalSize(Listed \ T) <= Budget IN
  /\ V \in SUBSET Listed
  /\ \A v \in V, t \in Listed \ V : ScoreLeq(v, t)
  /\ Budget > 0 => fits(V) \/ V = Listed
  /\ V # {} => \E v \in V : ~fits(V \ {v})

(* evictIfNeeded(): the entries unlinked before a file of extra bytes is    *)
(* written.  Lowest score first (ties in directory order, so any), stopping *)
(* as soon as the rest fits, or with nothing left.                          *)
Victims(V, extra) ==
  LET fits(T) == TotalSize(Listed \ T) + extra <= Budget IN
  /\ V \in SUBSET Listed
  /\ \A v \in V, t \in Listed \ V : ScoreLeq(v, t)
  /\ Budget = 0 => V = {}
  /\ Budget > 0 => fits(V) \/ V = Listed
  /\ V # {} => /\ Budget > 0
               /\ \E v \in V : (\A w \in V : ScoreLeq(w, v)) /\ ~fits(V \ {v})

----------------------------------------------------------------------------
(* Start of the process *)

(* Files left by versions that wrote straight to <sha>: header and text,    *)
(* no payload.                                                              *)
LegacyFile(t) ==
  LET s == CHOOSE s \in Snapshot : s.text = t
  IN  [Empty EXCEPT !.blk = [b \in Block |-> IF b = Payload THEN NoSnap ELSE s]]

Init ==
  /\ \E place \in [Truncated -> Inode] :
       /\ \A t, u \in Truncated : place[t] = place[u] => t = u
       /\ final = [t \in Text |-> IF t \in Truncated THEN place[t] ELSE NoInode]
       /\ data = [i \in Inode |->
                    IF \E t \in Truncated : place[t] = i
                    THEN LegacyFile(CHOOSE t \in Truncated : place[t] = i)
                    ELSE Empty]
  /\ tmp = [t \in Text |-> NoInode]
  /\ phase = [l \in Loop |-> "none"]
  /\ queue = [l \in Loop |-> <<>>]
  /\ fd = [l \in Loop |-> NoInode]
  /\ next = [l \in Loop |-> 1]
  /\ loaded = [l \in Loop |-> NoMatch]

(* The constructor, run by the AgentLoop that becomes the engine's current  *)
(* one: sweeps every *.tmp of the directory.                                *)
Construct(l) ==
  /\ phase[l] = "none" /\ queue[l] = <<>>
  /\ \A m \in Loop : phase[m] \in {"none", "dropped"}
  /\ Drained => \A m \in Loop : queue[m] = <<>>
  /\ phase' = [phase EXCEPT ![l] = "live"]
  /\ tmp' = [t \in Text |-> NoInode]
  /\ loaded' = [loaded EXCEPT ![l] = NoMatch]
  /\ UNCHANGED <<final, data, queue, fd, next>>

(* The engine sets loop = null: nothing is flushed, the chain drains on.    *)
Drop(l) ==
  /\ phase[l] = "live"
  /\ phase' = [phase EXCEPT ![l] = "dropped"]
  /\ UNCHANGED <<final, tmp, data, queue, fd, next, loaded>>

(* A dropped loop whose chain has drained is garbage; its name is reused.   *)
Retire(l) ==
  /\ phase[l] = "dropped" /\ queue[l] = <<>>
  /\ phase' = [phase EXCEPT ![l] = "none"]
  /\ UNCHANGED <<final, tmp, data, queue, fd, next, loaded>>

(* The process dies: descriptors and queues are gone, the directory stays.  *)
Crash ==
  /\ \E l \in Loop : phase[l] # "none"
  /\ phase' = [l \in Loop |-> "none"]
  /\ queue' = [l \in Loop |-> <<>>]
  /\ fd' = [l \in Loop |-> NoInode]
  /\ next' = [l \in Loop |-> 1]
  /\ UNCHANGED <<final, tmp, data, loaded>>

----------------------------------------------------------------------------
(* The write queue *)

(* queueColdWrite(): the capture was taken synchronously.                   *)
Enqueue(l, s) ==
  /\ phase[l] = "live" /\ Len(queue[l]) < MaxQueue
  /\ queue' = [queue EXCEPT ![l] = Append(@, s)]
  /\ UNCHANGED <<final, tmp, data, phase, fd, next, loaded>>

(* freeSession(): flushColdWrites(), then the models are freed.             *)
BeginFlush(l) ==
  /\ phase[l] = "live"
  /\ phase' = [phase EXCEPT ![l] = "flushing"]
  /\ UNCHANGED <<final, tmp, data, queue, fd, next, loaded>>

EndFlush(l) ==
  /\ phase[l] = "flushing" /\ queue[l] = <<>>
  /\ phase' = [phase EXCEPT ![l] = "none"]
  /\ UNCHANGED <<final, tmp, data, queue, fd, next, loaded>>

(* Mutant of Settle: positions counted from zero.                           *)
SettleFromZero(l) ==
  /\ queue' = [queue EXCEPT ![l] = Tail(@)]
  /\ fd' = [fd EXCEPT ![l] = NoInode]
  /\ next' = [next EXCEPT ![l] = 0]

(* The head of the chain settles, with or without an error.                 *)
Settle(l) ==
  /\ queue' = [queue EXCEPT ![l] = Tail(@)]
  /\ fd' = [fd EXCEPT ![l] = NoInode]
  /\ next' = [next EXCEPT ![l] = 1]

----------------------------------------------------------------------------
(* writeSnapshot() *)

(* Once compressed: evictIfNeeded, then open <sha>.tmp with 'w', which      *)
(* truncates the file if the name is bound.                                 *)
Open(l) ==
  /\ queue[l] # <<>> /\ fd[l] = NoInode
  /\ LET s == Head(queue[l]) IN
     /\ \E V \in SUBSET Text :
          /\ Victims(V, Size(s))
          /\ final' = [t \in Text |-> IF t \in V THEN NoInode ELSE final[t]]
     /\ \E i \in Inode :
          /\ IF tmp[s.text] # NoInode THEN i = tmp[s.text]
                                      ELSE i = CHOOSE j \in Inode : FreeInode(j)
          /\ tmp[s.text] = NoInode => FreeInode(i)
          /\ tmp' = [tmp EXCEPT ![s.text] = i]
          /\ data' = [data EXCEPT ![i] = Empty]
          /\ fd' = [fd EXCEPT ![l] = i]
  /\ UNCHANGED <<phase, queue, next, loaded>>

(* The compression fails, or the open does once the victims are unlinked:   *)
(* the rejection settles the queue's head.                                  *)
OpenFails(l) ==
  /\ queue[l] # <<>> /\ fd[l] = NoInode
  /\ \E V \in SUBSET Text :
       /\ V = {} \/ Victims(V, Size(Head(queue[l])))
       /\ final' = [t \in Text |-> IF t \in V THEN NoInode ELSE final[t]]
  /\ Settle(l)
  /\ UNCHANGED <<tmp, data, phase, loaded>>

(* One awaited write of a buffer at its position.                           *)
Write(l) ==
  /\ fd[l] # NoInode /\ next[l] \in Block
  /\ data' = [data EXCEPT ![fd[l]].blk[next[l]] = Head(queue[l])]
  /\ next' = [next EXCEPT ![l] = @ + 1]
  /\ UNCHANGED <<final, tmp, phase, queue, fd, loaded>>

(* A write is rejected: close, unlink <sha>.tmp, rethrow to the queue.      *)
WriteFails(l) ==
  /\ fd[l] # NoInode /\ next[l] \in Block
  /\ tmp' = [tmp EXCEPT ![Head(queue[l]).text] = NoInode]
  /\ Settle(l)
  /\ UNCHANGED <<final, data, phase, loaded>>

(* Mutant of Publish: renamed before the payload is written.                *)
PublishEarly(l) ==
  /\ fd[l] # NoInode /\ next[l] \notin {Header, PromptText}
  /\ LET t == Head(queue[l]).text IN
       IF tmp[t] = NoInode
       THEN UNCHANGED <<final, tmp>>
       ELSE /\ final' = [final EXCEPT ![t] = tmp[t]]
            /\ tmp' = [tmp EXCEPT ![t] = NoInode]
  /\ Settle(l)
  /\ UNCHANGED <<data, phase, loaded>>

(* Mutant of Publish: ENOENT leaves the chain's head pending for ever.      *)
PublishNeverRejects(l) ==
  /\ fd[l] # NoInode /\ next[l] \notin Block
  /\ LET t == Head(queue[l]).text IN
       /\ tmp[t] # NoInode
       /\ final' = [final EXCEPT ![t] = tmp[t]]
       /\ tmp' = [tmp EXCEPT ![t] = NoInode]
  /\ Settle(l)
  /\ UNCHANGED <<data, phase, loaded>>

(* closeSync, renameSync: the final name is bound to whatever file the tmp  *)
(* name is bound to now; no tmp name, no rename, and the queue logs ENOENT. *)
Publish(l) ==
  /\ fd[l] # NoInode /\ next[l] \notin Block
  /\ LET t == Head(queue[l]).text IN
       IF tmp[t] = NoInode
       THEN UNCHANGED <<final, tmp>>
       ELSE /\ final' = [final EXCEPT ![t] = tmp[t]]
            /\ tmp' = [tmp EXCEPT ![t] = NoInode]
  /\ Settle(l)
  /\ UNCHANGED <<data, phase, loaded>>

----------------------------------------------------------------------------
(* tryLoad() *)

(* Mutant of Longest: any stored prefix will do.                            *)
AnyMatch(T) == T

Candidates(p) == {t \in Readable : IsPrefix(t, p)}
Longest(T) == {t \in T : \A u \in T : Len(u) <= Len(t)}

(* No stored text is a prefix of the prompt.                                *)
LoadNothing(l, p) ==
  /\ phase[l] = "live" /\ Candidates(p) = {}
  /\ loaded' = [loaded EXCEPT ![l] = NoMatch]
  /\ UNCHANGED <<final, tmp, data, phase, queue, fd, next>>

(* The KV is restored and touch() bumps the hit counter in place.           *)
LoadHit(l, p) ==
  /\ phase[l] = "live"
  /\ \E t \in Longest(Candidates(p)) :
       LET file == data[final[t]] IN
       /\ file.blk[Payload] # NoSnap
       /\ loaded' = [loaded EXCEPT ![l] =
             [asked |-> p, text |-> t,
              header |-> file.blk[Header], payload |-> file.blk[Payload]]]
       /\ data' = [data EXCEPT ![final[t]] =
             [file EXCEPT !.hits = IF @ < MaxHits THEN @ + 1 ELSE @, !.age = 0]]
  /\ UNCHANGED <<final, tmp, phase, queue, fd, next>>

(* The payload does not decompress, or touch() throws after the restore:    *)
(* the file is unlinked and the caller is told nothing matched.             *)
LoadDrops(l, p) ==
  /\ phase[l] = "live"
  /\ \E t \in Longest(Candidates(p)) : final' = [final EXCEPT ![t] = NoInode]
  /\ loaded' = [loaded EXCEPT ![l] = NoMatch]
  /\ UNCHANGED <<tmp, data, phase, queue, fd, next>>

(* A half life (six hours) passes without a load of the checkpoint.         *)
GrowOld(t) ==
  /\ final[t] # NoInode /\ data[final[t]].age < MaxAge
  /\ data' = [data EXCEPT ![final[t]].age = @ + 1]
  /\ UNCHANGED <<final, tmp, phase, queue, fd, next, loaded>>

----------------------------------------------------------------------------
WriterStep(l) ==
  Open(l) \/ OpenFails(l) \/ Write(l) \/ WriteFails(l) \/ Publish(l)

Next ==
  \/ Crash
  \/ \E l \in Loop :
       \/ Construct(l) \/ Drop(l) \/ Retire(l)
       \/ BeginFlush(l) \/ EndFlush(l)
       \/ Open(l) \/ OpenFails(l) \/ Write(l) \/ WriteFails(l) \/ Publish(l)
       \/ \E s \in Snapshot : Enqueue(l, s)
       \/ \E p \in Prompt : LoadNothing(l, p) \/ LoadHit(l, p) \/ LoadDrops(l, p)
  \/ \E t \in Text : GrowOld(t)

Spec == Init /\ [][Next]_vars

(* libuv completes every write it was given and the promise chain runs on;  *)
(* a session that awaits its flush ends once the chain has drained.         *)
FairSpec == Spec /\ \A l \in Loop : WF_vars(WriterStep(l)) /\ WF_vars(EndFlush(l))

----------------------------------------------------------------------------
(* Properties *)

(* "Readers only ever see a complete checkpoint or none": every file at its *)
(* final name holds header, text and payload of one capture, whatever was   *)
(* interrupted when (writeSnapshot, constructor).                           *)
OnlyWholeCheckpoints ==
  \A t \in Text \ Truncated : final[t] # NoInode => Complete(final[t])

(* The file a write in flight fills is the one its rename will publish: no  *)
(* other write, sweep or eviction takes its tmp name away, so a checkpoint  *)
(* that was written completely is never lost at the rename.                 *)
WriteOwnsItsTmp ==
  \A l \in Loop : fd[l] # NoInode => tmp[Head(queue[l]).text] = fd[l]

(* The strengthening under which OnlyWholeCheckpoints is inductive.         *)

(* At most one loop is in use or still draining its queue.                  *)
Busy(l) == queue[l] # <<>> \/ phase[l] \in {"live", "flushing"}
OneWriter == \A l, m \in Loop : Busy(l) /\ Busy(m) => l = m

(* The blocks behind the write position are the capture's.                  *)
WrittenSoFar ==
  \A l \in Loop : fd[l] # NoInode =>
     \A b \in Block : b < next[l] => data[fd[l]].blk[b] = Head(queue[l])

(* No file has two tmp names, or a tmp and a final one.                     *)
Unaliased ==
  \A t, u \in Text : tmp[u] # NoInode =>
     /\ final[t] # tmp[u]
     /\ tmp[t] = tmp[u] => t = u

SafeInv ==
  /\ OneWriter /\ WrittenSoFar /\ Unaliased
  /\ WriteOwnsItsTmp /\ OnlyWholeCheckpoints

(* The budget covers the checkpoints plus the one being written; only a     *)
(* checkpoint larger than the budget is ever over it, and then it is alone  *)
(* (evictIfNeeded counts before the write what the rename adds after it).   *)
(* Nor does a crash or a failed write leak a *.tmp file beside it: while a  *)
(* loop is live, such a file is that of a write in flight.                  *)
Taken == {t \in Text : final[t] # NoInode}
InFlight == {l \in Loop : fd[l] # NoInode}
WithinBudget ==
  Budget > 0 =>
    /\ \/ TotalSize(Taken) <= Budget
       \/ Cardinality(Taken) = 1
    /\ \A l \in InFlight : \/ TotalSize(Taken) + Size(Head(queue[l])) <= Budget
                            \/ Taken = {}
    /\ (\E l \in Loop : phase[l] = "live") =>
         \A t \in Text : tmp[t] # NoInode =>
           \E l \in InFlight : fd[l] = tmp[t] /\ Head(queue[l]).text = t

(* A session that awaits flushColdWrites() before freeing its model gets to *)
(* free it, unless the process dies first.                                  *)
FlushReturns == \A l \in Loop : phase[l] = "flushing" ~> phase[l] = "none"

(* What callers are promised: a cache of captures by text (CheckpointCache).*)
Cached(t) == IF final[t] = NoInode \/ ~Complete(final[t])
             THEN NoSnap ELSE data[final[t]].blk[Payload]

Cache == INSTANCE CheckpointCache WITH
  store <- [t \in Text |-> Cached(t)],
  got <- [l \in Loop |-> <<loaded[l].asked, loaded[l].payload>>]

CacheSpec == Cache!Spec

============================================================================
