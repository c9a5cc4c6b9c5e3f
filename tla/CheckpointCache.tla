-------------------------- MODULE CheckpointCache --------------------------
(***************************************************************************)
(* What the cold store promises the loops: a cache from texts to KV        *)
(* captures.  An entry is put whole or not at all, may be forgotten at any *)
(* time, and a lookup returns the entry with the longest text that is a    *)
(* prefix of the prompt, or nothing.                                       *)
(***************************************************************************)
EXTENDS Naturals, Sequences, SequencesExt

CONSTANTS Loop, Text, Prompt, Snapshot, NoSnap

VARIABLES
  store,   \* text -> the capture held for it
  got      \* loop -> the prompt and the capture of its last lookup

vars == <<store, got>>

Nothing == <<<<>>, NoSnap>>

Init ==
  /\ store = [t \in Text |-> NoSnap]
  /\ got = [l \in Loop |-> Nothing]

Held == {t \in Text : store[t] # NoSnap}

Put(s) ==
  /\ store' = [store EXCEPT ![s.text] = s]
  /\ UNCHANGED got

Forget(T) ==
  /\ store' = [t \in Text |-> IF t \in T THEN NoSnap ELSE store[t]]
  /\ UNCHANGED got

(* The capture restored is the longest match, so its text is the prompt's.  *)
Hit(l, p) ==
  /\ \E t \in Held :
       /\ IsPrefix(t, p)
       /\ \A u \in Held : IsPrefix(u, p) => Len(u) <= Len(t)
       /\ got' = [got EXCEPT ![l] = <<p, store[t]>>]
  /\ UNCHANGED store

(* A lookup may miss, and may drop one entry when it does; so does a loop   *)
(* that has just been constructed.                                          *)
Miss(l) ==
  /\ got' = [got EXCEPT ![l] = Nothing]
  /\ \/ UNCHANGED store
     \/ \E t \in Held : store' = [store EXCEPT ![t] = NoSnap]

Next ==
  \/ \E s \in Snapshot : Put(s)
  \/ \E T \in SUBSET Text : Forget(T)
  \/ \E l \in Loop, p \in Prompt : Hit(l, p)
  \/ \E l \in Loop : Miss(l)

Spec == Init /\ [][Next]_vars

============================================================================
