----------------------------- MODULE SessionTree -----------------------------
(* What a session file promises to whoever reads it: the entries of a tree, *)
(* in the order they were appended.  Nothing is changed or taken away, and  *)
(* a parent is there before its children.  A file in which a write was cut  *)
(* short may lose the last entry again, and with it the root of others; one *)
(* of the first version is replaced when it is migrated.                    *)
EXTENDS Integers, Sequences, SequencesExt

CONSTANTS File,
          Null,    \* the parent of a root
          Old      \* files left by the first version

VARIABLES tree,    \* the entries that can be read from each file
          harmed   \* files in which a write was cut short

vars == <<tree, harmed>>

Rooted(es) ==
  \A i \in DOMAIN es :
    es[i].parent = Null \/ \E j \in 1..(i - 1) : es[j].id = es[i].parent

Init == harmed = {} /\ \A f \in File : Rooted(tree[f])

(* Entries are appended, by one process after the other or by several.      *)
Grow(f, old, new) ==
  f \notin harmed /\ harmed' = harmed /\ IsPrefix(old, new) /\ Rooted(new)

(* A write is cut short: at most it adds what of it can be read.            *)
Harm(f, old, new) ==
  f \notin harmed /\ harmed' = harmed \cup {f} /\ (IsPrefix(old, new) \/ f \in Old)

(* What is written behind a torn line costs one entry, and no more.         *)
GrowHarmed(f, old, new) ==
  /\ f \in harmed /\ harmed' = harmed
  /\ IsPrefix(old, new) \/ (old # <<>> /\ new = Front(old))

(* The entries are the same, and a compaction keeps from the same one, which *)
(* a file of the first version names by its place.                          *)
Same(old, new) ==
  Len(new) = Len(old) /\ \A i \in DOMAIN old :
    /\ new[i].kind = old[i].kind
    /\ old[i].kind = "compaction" /\ old[i].ref \in DOMAIN old => new[i].ref = new[old[i].ref].id

Migrate(f, old, new) ==
  f \in Old \ harmed /\ harmed' = harmed /\ Rooted(new) /\ Same(old, new)

(* The singletons have TLC evaluate what tree stands for only once.         *)
Next ==
  \E f \in File : \E old \in {tree[f]}, new \in {tree'[f]} :
    /\ \A g \in File \ {f} : tree'[g] = tree[g]
    /\ Grow(f, old, new) \/ Harm(f, old, new) \/ GrowHarmed(f, old, new) \/ Migrate(f, old, new)
Spec == Init /\ [][Next]_vars
=============================================================================
