---------------------------- MODULE MCColdStore ----------------------------
(* Three texts, of which two branch from the first (a rung over the shared  *)
(* prefix, and two prompts), and captures of different sizes: two of the    *)
(* same text, one of them a mid-session one.                                *)
EXTENDS ColdStore

CONSTANTS kvA, kvB, kvC, kvD

MCText == {<<1>>, <<1, 2>>, <<1, 3>>}
MCPrompt == {<<1, 2, 2>>, <<1, 3>>}
MCTruncated == {<<1, 2>>}

Cap(t, k, r) == [text |-> t, kv |-> k, reason |-> r]
MCSnapshot == {Cap(<<1>>, kvA, "cold"), Cap(<<1, 2>>, kvB, "cold"),
               Cap(<<1, 2>>, kvC, "continued"), Cap(<<1, 3>>, kvD, "continued")}

(* For two loops: the rung both write, and one prompt.                      *)
MCNone == {}
MCTextTwo == {<<1>>, <<1, 3>>}
MCSnapshotTwo == {Cap(<<1>>, kvA, "cold"), Cap(<<1, 3>>, kvB, "cold")}
MCTextOne == {<<1>>}
MCSnapshotOne == {Cap(<<1>>, kvA, "cold")}
MCPromptOne == {<<1, 2>>}

MCSize(s) == IF s.kv \in {kvA, kvD} THEN 1 ELSE 2

(* The truncated files there are at first fit the budget (WithinBudget).    *)
ASSUME FirstFits == Budget > 0 => Cardinality(Truncated) <= Budget

(* Inode names do not matter, nor what a file holds once nothing refers to  *)
(* it: the view keeps the contents of every bound name and of every open    *)
(* descriptor, and which of them are the same file.                         *)
Content(i) == IF i = NoInode THEN "none" ELSE data[i]
Aliases(i) == IF i = NoInode THEN {}
              ELSE {<<"final", t>> : t \in {u \in Text : final[u] = i}}
                   \cup {<<"tmp", t>> : t \in {u \in Text : tmp[u] = i}}
                   \cup {<<"fd", l>> : l \in {m \in Loop : fd[m] = i}}
MCView ==
  <<[t \in Text |-> <<Content(final[t]), Aliases(final[t])>>],
    [t \in Text |-> <<Content(tmp[t]), Aliases(tmp[t])>>],
    [l \in Loop |-> <<Content(fd[l]), Aliases(fd[l])>>],
    phase, queue, next, loaded>>

============================================================================
