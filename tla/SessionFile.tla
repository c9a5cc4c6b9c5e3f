----------------------------- MODULE SessionFile -----------------------------
(* The session files of the agent harness (session-manager.ts): a tree of   *)
(* entries, kept in memory by each process that has the session open, and   *)
(* as one line per entry in a file.  A file is created by the first reply,  *)
(* appended to afterwards, and read again by a later process, by a fork and *)
(* by a second process that opens the same session.  A write may be cut     *)
(* short: the process dies in it, or the disk is full and the process goes  *)
(* on.  The writes of one call come one after the other without an await;   *)
(* they are taken as one step of which a part may be missing.               *)
EXTENDS Integers, Sequences, FiniteSets, SequencesExt

CONSTANTS Process,    \* processes that open sessions
          Editor,     \* those that do more in them than say things
          File,       \* paths of session files
          NoFile,     \* no path
          Found,      \* what earlier processes may have left: files and their entries
          Legacy,     \* files of the first version, whose entries have no ids
          MaxHurt,    \* bound on the files in which a write is cut short
          FirstId,    \* the largest id in them
          MaxId       \* bound on the ids given away

Null == 0
Messages == {"user", "assistant", "summary"}
Kind == Messages \cup {"label", "unlabel", "compaction"}
Entry == [id : Nat, parent : Nat, kind : Kind, ref : Nat]

(* An entry is a root, or there is its parent before it; its id is its own.  *)
RootOrChild(es, i) == es[i].parent = Null \/ \E j \in 1..(i - 1) : es[j].id = es[i].parent

ASSUME FileAssumption ==
  /\ NoFile \notin File /\ Legacy \subseteq File
  /\ \A past \in Found : DOMAIN past \subseteq File
ASSUME FoundAssumption ==
  \A past \in Found : \A f \in DOMAIN past :
    /\ past[f] \in Seq(Entry)
    /\ \A i \in DOMAIN past[f] :
         IF f \in Legacy THEN past[f][i].id = Null /\ past[f][i].parent = Null
         ELSE /\ past[f][i].id \in 1..FirstId /\ RootOrChild(past[f], i)
              /\ \A j \in 1..(i - 1) : past[f][j].id # past[f][i].id
ASSUME BoundAssumption == MaxHurt \in Nat /\ FirstId \in Nat /\ MaxId \in Nat /\ FirstId <= MaxId

(* A line of a file: the header with its version or an entry, whether all   *)
(* of it was written, and whether the newline was.                          *)
Current == 3
Old == 1
Header(version) == [id |-> Null, parent |-> Null, kind |-> "session", ref |-> version]
Line == [entry : Entry \cup {Header(Old), Header(Current)}, whole : BOOLEAN, nl : BOOLEAN]
Whole(e) == [entry |-> e, whole |-> TRUE, nl |-> TRUE]
Lines(es) == [i \in DOMAIN es |-> Whole(es[i])]
SessionLines(es) == Lines(<<Header(Current)>> \o es)

VARIABLES
  exists,     \* the files there are
  disk,       \* the lines of each
  mem,        \* what a process has in memory: its session, or Down
  lastId,     \* the ids given away
  hurt,       \* history: files with a write that was cut short, and copies of them
  behind      \* history: processes with an entry that a write did not take

vars == <<exists, disk, mem, lastId, hurt, behind>>

Session == [file : File, entries : Seq(Entry), leaf : Nat, flushed : BOOLEAN]
Down == [file |-> NoFile, entries |-> <<>>, leaf |-> Null, flushed |-> FALSE]

-----------------------------------------------------------------------------
(* The elements of a sequence at a set of positions, in their order.        *)
Picked(s, at) ==
  IF at = DOMAIN s THEN s
  ELSE [k \in 1..Cardinality(at) |-> s[CHOOSE i \in at : Cardinality({j \in at : j <= i}) = k]]

(* Reading a file: a line that is torn, or glued to what a torn line left,  *)
(* does not parse and is skipped.                                           *)
Legible(ls, i) ==
  /\ ls[i].whole
  /\ i > 1 => ls[i - 1].nl
  /\ i < Len(ls) => ls[i].nl

Parsed(ls) == Picked([i \in DOMAIN ls |-> ls[i].entry], {i \in DOMAIN ls : Legible(ls, i)})
Valid(ls) == Parsed(ls) # <<>> /\ Head(Parsed(ls)).kind = "session"
Loaded(ls) == IF Valid(ls) THEN Tail(Parsed(ls)) ELSE <<>>
Version(ls) == Head(Parsed(ls)).ref

(* migrateV1ToV2(): the entries get ids, each the child of the one before,  *)
(* and a compaction, which kept from a place in the file, keeps from the id *)
(* that the entry there got.                                                *)
Migrated(es) ==
  LET kept(e) == IF e.kind # "compaction" THEN e.ref
                 ELSE IF e.ref \in DOMAIN es THEN lastId + e.ref ELSE Null
  IN  [i \in DOMAIN es |-> [es[i] EXCEPT !.id = lastId + i,
                                         !.parent = IF i = 1 THEN Null ELSE lastId + i - 1,
                                         !.ref = kept(es[i])]]

-----------------------------------------------------------------------------
(* The tree in memory.  byId holds the last entry of an id.                 *)
Ids(es) == {es[i].id : i \in DOMAIN es}
ById(es, id) == es[CHOOSE i \in DOMAIN es :
                     es[i].id = id /\ \A j \in DOMAIN es : es[j].id = id => j <= i]

(* getBranch(): the entries from the root to an entry.                      *)
Branch(es, leaf) ==
  LET up[n \in 0..Len(es)] ==
        IF n = 0 THEN leaf
        ELSE IF up[n - 1] \in Ids(es) THEN ById(es, up[n - 1]).parent ELSE Null
      depth == Cardinality({n \in 0..Len(es) : up[n] # Null /\ up[n] \in Ids(es)})
  IN  [k \in 1..depth |-> ById(es, up[depth - k])]

HasReply(es) == \E i \in DOMAIN es : es[i].kind = "assistant"

IsCompaction(e) == e.kind = "compaction"
IsMessage(e) == e.kind \in Messages

(* buildContextEntries(): the newest compaction, what it keeps, and what    *)
(* came after it; of these, what the model is shown.                        *)
Context(path) ==
  LET compactions == {i \in DOMAIN path : path[i].kind = "compaction"}
      last == CHOOSE i \in compactions : \A j \in compactions : j <= i
      firstKept == {i \in 1..(last - 1) : path[i].id = path[last].ref}
      first == IF firstKept = {} THEN last
               ELSE CHOOSE i \in firstKept : \A j \in firstKept : i <= j
      shown == IF compactions = {} THEN path
               ELSE <<path[last]>> \o SubSeq(path, first, last - 1)
                    \o SubSeq(path, last + 1, Len(path))
  IN  Picked(shown, {i \in DOMAIN shown : IsMessage(shown[i]) \/ IsCompaction(shown[i])})

(* prepareCompaction(): the entries a summary may keep from, whatever the   *)
(* sizes of the messages.  The cut is made at a message and moved back over *)
(* what is none; there must be a message before it.                         *)
FirstKept(path) ==
  LET compactions == {i \in DOMAIN path : path[i].kind = "compaction"}
      last == CHOOSE i \in compactions : \A j \in compactions : j <= i
      kept == {i \in DOMAIN path : path[i].id = path[last].ref}
      start == IF compactions = {} THEN 1
               ELSE IF kept = {} THEN last + 1 ELSE CHOOSE i \in kept : TRUE
      stops(i) == path[i].kind \in {"user", "assistant", "compaction"}
      back(i) == {j \in start..i : j = start \/ stops(j - 1)}
      cut(i) == CHOOSE j \in back(i) : \A k \in back(i) : k <= j
  IN  IF path # <<>> /\ IsCompaction(Last(path)) THEN {}
      ELSE {path[cut(i)].id : i \in {i \in start..Len(path) :
              IsMessage(path[i]) /\ \E j \in start..(cut(i) - 1) : IsMessage(path[j])}}

(* The entries that carry a label: the last label entry of each decides.    *)
Labelled(es) ==
  {t \in Ids(es) : \E i \in DOMAIN es :
     /\ es[i].kind = "label" /\ es[i].ref = t
     /\ \A j \in (i + 1)..Len(es) : es[j].kind = "unlabel" => es[j].ref # t}

-----------------------------------------------------------------------------
Init ==
  /\ \E past \in Found :
       /\ exists = DOMAIN past
       /\ disk = [f \in File |->
            IF f \in DOMAIN past
            THEN Lines(<<Header(IF f \in Legacy THEN Old ELSE Current)>> \o past[f]) ELSE <<>>]
  /\ mem = [p \in Process |-> Down]
  /\ lastId = FirstId /\ hurt = {} /\ behind = {}

(* What a write of ls behind old leaves when it is cut: some of the lines,  *)
(* and of the next one nothing, a part, or all but the newline.             *)
Cuts(old, ls) ==
  UNION {{old \o SubSeq(ls, 1, k) \o tail :
            tail \in {<<>>} \cup {<<[ls[k + 1] EXCEPT !.whole = w, !.nl = FALSE]>> :
                                    w \in BOOLEAN}} : k \in 0..(Len(ls) - 1)}

(* Lines ls are written to f behind old: done is the session if they all    *)
(* are, failed if the call throws half way; or the process dies in it.      *)
(* hurts: what is written lacks entries itself.                             *)
Writes(p, f, old, ls, hurts, done, failed) ==
  /\ exists' = exists \cup {f}
  /\ \/ /\ disk' = [disk EXCEPT ![f] = old \o ls]
        /\ mem' = [mem EXCEPT ![p] = done]
        /\ behind' = IF done.file = mem[p].file THEN behind ELSE behind \ {p}
        /\ hurt' = IF hurts THEN hurt \cup {f} ELSE hurt
     \/ \E cut \in Cuts(old, ls), s \in {failed, Down} :
        /\ Cardinality(hurt) < MaxHurt
        /\ disk' = [disk EXCEPT ![f] = cut]
        /\ mem' = [mem EXCEPT ![p] = s]
        /\ hurt' = hurt \cup {f}
        /\ behind' = IF s = Down THEN behind \ {p}
                     ELSE IF s.entries # mem[p].entries THEN behind \cup {p} ELSE behind

Unwritten == UNCHANGED <<exists, disk, hurt>>

-----------------------------------------------------------------------------
(* Opening a session *)

Opened(f, es) ==
  [file |-> f, entries |-> es, flushed |-> TRUE,
   leaf |-> IF es = <<>> THEN Null ELSE Last(es).id]
Fresh(f) == f \notin exists /\ \A p \in Process : mem[p].file # f

(* newSession(), and setSessionFile() of a path where there is no file.     *)
OpenNew(p, f) ==
  /\ mem[p] = Down /\ f \notin exists
  /\ mem' = [mem EXCEPT ![p] = [Opened(f, <<>>) EXCEPT !.flushed = FALSE]]
  /\ UNCHANGED <<lastId, behind>> /\ Unwritten

(* setSessionFile() of an empty file; one that does not start with a header *)
(* and is not empty is refused.                                             *)
OpenEmpty(p, f) ==
  /\ mem[p] = Down /\ f \in exists /\ disk[f] = <<>>
  /\ Writes(p, f, <<>>, SessionLines(<<>>), FALSE, Opened(f, <<>>), Down)
  /\ UNCHANGED lastId

OpenCurrent(p, f) ==
  /\ mem[p] = Down /\ Valid(disk[f]) /\ Version(disk[f]) = Current
  /\ mem' = [mem EXCEPT ![p] = Opened(f, Loaded(disk[f]))]
  /\ UNCHANGED <<lastId, behind>> /\ Unwritten

(* A session of the first version is migrated and rewritten in place.  So   *)
(* is one of the second, which has the same entries but for the role of     *)
(* some messages; none is offered, and what a cut in that rewriting costs,  *)
(* entries that have ids, is outside the model.                             *)
OpenOld(p, f) ==
  LET es == Migrated(Loaded(disk[f])) IN
  /\ mem[p] = Down /\ Valid(disk[f]) /\ Version(disk[f]) = Old
  /\ lastId + Len(es) <= MaxId /\ lastId' = lastId + Len(es)
  /\ Writes(p, f, <<>>, SessionLines(es), FALSE, Opened(f, es), Down)

(* forkFrom(): a copy of a session file, opened.                            *)
ForkFrom(p, f, g) ==
  LET es == Loaded(disk[f]) IN
  /\ mem[p] = Down /\ Valid(disk[f]) /\ Fresh(g)
  /\ Writes(p, g, <<>>, SessionLines(es), f \in hurt, Opened(g, es), Down)
  /\ UNCHANGED lastId

(* The process ends, by will or by accident.                                *)
Exit(p) ==
  /\ mem[p] # Down
  /\ mem' = [mem EXCEPT ![p] = Down] /\ behind' = behind \ {p}
  /\ UNCHANGED lastId /\ Unwritten

-----------------------------------------------------------------------------
(* Appending *)

(* Mutant of Persist: the first write has the newest entry only.            *)
PersistNewest(p, s) ==
  IF ~s.flushed /\ ~HasReply(s.entries)
  THEN mem' = [mem EXCEPT ![p] = s] /\ Unwritten /\ UNCHANGED behind
  ELSE Writes(p, s.file, disk[s.file],
              IF s.flushed THEN Lines(<<Last(s.entries)>>) ELSE SessionLines(<<Last(s.entries)>>),
              FALSE, [s EXCEPT !.flushed = TRUE], s)

(* Mutant of Persist: the first write opens with "w" instead of "wx".       *)
PersistTruncating(p, s) ==
  IF ~s.flushed /\ ~HasReply(s.entries)
  THEN mem' = [mem EXCEPT ![p] = s] /\ Unwritten /\ UNCHANGED behind
  ELSE Writes(p, s.file, IF s.flushed THEN disk[s.file] ELSE <<>>,
              IF s.flushed THEN Lines(<<Last(s.entries)>>) ELSE SessionLines(s.entries),
              FALSE, [s EXCEPT !.flushed = TRUE], s)

(* _persist() of the newest entry of s.                                     *)
Persist(p, s) ==
  \/ /\ s.flushed
     /\ Writes(p, s.file, disk[s.file], Lines(<<Last(s.entries)>>), FALSE, s, s)
  \/ /\ ~s.flushed /\ ~HasReply(s.entries)
     /\ mem' = [mem EXCEPT ![p] = s] /\ Unwritten /\ UNCHANGED behind
  \/ /\ ~s.flushed /\ HasReply(s.entries) /\ s.file \notin exists
     /\ Writes(p, s.file, <<>>, SessionLines(s.entries), FALSE, [s EXCEPT !.flushed = TRUE], s)
  \/ /\ ~s.flushed /\ HasReply(s.entries) /\ s.file \in exists    \* EEXIST
     /\ mem' = [mem EXCEPT ![p] = s] /\ behind' = behind \cup {p} /\ Unwritten

(* _appendEntry() of a child of an entry, or of a root.                     *)
AppendEntry(p, kind, ref, parent) ==
  /\ mem[p] # Down /\ lastId < MaxId
  /\ lastId' = lastId + 1
  /\ LET e == [id |-> lastId', parent |-> parent, kind |-> kind, ref |-> ref]
     IN  Persist(p, [mem[p] EXCEPT !.entries = Append(@, e), !.leaf = e.id])

Say(p) ==
  \E kind \in {"user", "assistant"} : AppendEntry(p, kind, Null, mem[p].leaf)
Label(p) ==
  \E t \in Ids(mem[p].entries) \ {Null} :
    AppendEntry(p, IF t \in Labelled(mem[p].entries) THEN "unlabel" ELSE "label", t, mem[p].leaf)
Compact(p) ==
  \E kept \in FirstKept(Branch(mem[p].entries, mem[p].leaf)) :
    AppendEntry(p, "compaction", kept, mem[p].leaf)

(* Mutant of GoTo: it takes any id for an entry of this session.            *)
GoToAnywhere(p) ==
  /\ mem[p] # Down /\ \E t \in 0..lastId : mem' = [mem EXCEPT ![p].leaf = t]
  /\ UNCHANGED <<lastId, behind>> /\ Unwritten

(* branch() and resetLeaf(): the next entry becomes a child of an earlier   *)
(* one, or a root.  No file hears of it.                                    *)
GoTo(p) ==
  /\ \E t \in Ids(mem[p].entries) \cup {Null} : mem' = [mem EXCEPT ![p].leaf = t]
  /\ mem[p] # Down /\ mem' # mem
  /\ UNCHANGED <<lastId, behind>> /\ Unwritten

(* branchWithSummary()                                                      *)
Summarize(p) ==
  \E t \in Ids(mem[p].entries) \cup {Null} : AppendEntry(p, "summary", t, t)

-----------------------------------------------------------------------------
(* fork(): the path to an entry becomes a session of its own, without the   *)
(* label entries on it, which are made again behind it.  It is read from    *)
(* the file, not from memory.                                               *)
IsLabel(e) == e.kind \in {"label", "unlabel"}
Retained(path) == Picked(path, {i \in DOMAIN path : ~IsLabel(path[i])})

(* Mutant of Chained: the entries keep the parents they had.                *)
Unchained(es) == es

Chained(es) ==
  [i \in DOMAIN es |-> [es[i] EXCEPT !.parent = IF i = 1 THEN Null ELSE es[i - 1].id]]
LabelsAgain(es, labelled) ==
  LET targets == Picked(es, {i \in DOMAIN es : es[i].id \in labelled})
      leaf == IF es = <<>> THEN Null ELSE Last(es).id
  IN  [k \in DOMAIN targets |->
         [id |-> lastId + k, parent |-> IF k = 1 THEN leaf ELSE lastId + k - 1,
          kind |-> "label", ref |-> targets[k].id]]
Branched(es, id) ==
  LET kept == Chained(Retained(Branch(es, id)))
  IN  kept \o LabelsAgain(kept, Labelled(es))

Fork(p, id, g) ==
  LET source == Loaded(disk[mem[p].file])
      es == Branched(source, id)
      labels == Cardinality({i \in DOMAIN es : es[i].id > lastId})
  IN
  /\ mem[p] # Down /\ mem[p].file \in exists /\ Valid(disk[mem[p].file])
  /\ id \in (Ids(mem[p].entries) \cap Ids(source)) \ {Null} /\ Fresh(g)
  /\ lastId + labels <= MaxId /\ lastId' = lastId + labels
  /\ IF HasReply(es)
     THEN Writes(p, g, <<>>, SessionLines(es), FALSE, Opened(g, es), mem[p])
     ELSE /\ mem' = [mem EXCEPT ![p] = [Opened(g, es) EXCEPT !.flushed = FALSE]]
          /\ behind' = behind \ {p} /\ Unwritten

-----------------------------------------------------------------------------
Next ==
  \E p \in Process :
    \/ \E f \in File : OpenNew(p, f) \/ OpenEmpty(p, f) \/ OpenCurrent(p, f) \/ OpenOld(p, f)
    \/ Say(p) \/ Exit(p)
    \/ /\ p \in Editor
       /\ \/ Label(p) \/ Compact(p) \/ GoTo(p) \/ Summarize(p)
          \/ \E f, g \in File : ForkFrom(p, f, g)
          \/ \E id \in Ids(mem[p].entries), g \in File : Fork(p, id, g)

Spec == Init /\ [][Next]_vars

-----------------------------------------------------------------------------
(* Files, sessions and ids are what they seem; a leaf is an entry of its    *)
(* session, or there is none.                                               *)
TypeOK ==
  /\ exists \subseteq File /\ hurt \subseteq exists /\ behind \subseteq Process
  /\ disk \in [File -> Seq(Line)]
  /\ mem \in [Process -> Session \cup {Down}]
  /\ \A p \in Process : mem[p].leaf = Null \/ mem[p].leaf \in Ids(mem[p].entries)
  /\ lastId \in 0..MaxId

(* What a process has said is in the file it says it in: its entries, in    *)
(* their order, among those of others.  An entry may wait in memory only    *)
(* until the first reply.                                                   *)
Saved ==
  \A p \in Process \ behind :
    LET s == mem[p] IN
    s # Down /\ s.file \notin hurt /\ (s.flushed \/ HasReply(s.entries)) =>
      /\ s.file \in exists
      /\ LET there == Loaded(disk[s.file])
         IN  Picked(there, {i \in DOMAIN there : there[i] \in Range(s.entries)}) = s.entries

FromLabel(path) ==
  \E i, j \in DOMAIN path : /\ path[i].kind = "compaction" /\ path[i].ref = path[j].id /\ IsLabel(path[j])
IdsOf(es) == [i \in DOMAIN es |-> es[i].id]
Said(es) == Picked(es, {i \in DOMAIN es : IsMessage(es[i])})
Forks(p, id, g) == mem'[p].file = g /\ mem[p] # Down /\ mem[p].file # g /\ Fork(p, id, g)

(* A fork is the path it was made of: the messages of it, with the labels   *)
(* they have; its context too, unless a compaction keeps from a label on.   *)
ForkKeeps ==
  [][\A p \in Process, g \in File : \A id \in Ids(mem[p].entries) : Forks(p, id, g) =>
       LET source == Loaded(disk[mem[p].file])
           path == Branch(source, id)
           fork == Branch(mem'[p].entries, mem'[p].leaf)
       IN  /\ IdsOf(Said(fork)) = IdsOf(Said(path))
           /\ Labelled(mem'[p].entries) = Labelled(source) \cap Ids(Retained(path))
           /\ FromLabel(path) \/ IdsOf(Context(fork)) = IdsOf(Context(path))]_vars

(* The trees of the files, as a reader finds them.                          *)
Trees == INSTANCE SessionTree WITH tree <- [f \in File |-> Loaded(disk[f])],
                                   harmed <- hurt, Old <- Legacy
Touched == disk' # disk \/ hurt' # hurt

(* What readers see of the files are the trees they were promised: nothing  *)
(* appended by one process or several is lost or moved, a parent is there   *)
(* before its children, and a write cut short costs one entry at most.      *)
TreeSpec == Trees!Init /\ [][Touched => Trees!Next]_vars
=============================================================================
