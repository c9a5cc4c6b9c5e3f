---------------------------- MODULE MCSessionFile ----------------------------
(* There is nothing at first, or a session with a label on the way to its   *)
(* leaf, or a session of the first version, perhaps a compacted one.        *)
EXTENDS SessionFile, TLC

CONSTANTS p1, p2, f1, f2

E(id, parent, kind, ref) == [id |-> id, parent |-> parent, kind |-> kind, ref |-> ref]
MCFound ==
  {<<>>,
   f1 :> <<E(1, 0, "user", 0), E(2, 1, "label", 1), E(3, 2, "assistant", 0)>>,
   f2 :> <<E(0, 0, "user", 0), E(0, 0, "assistant", 0)>>,
   f2 :> <<E(0, 0, "user", 0), E(0, 0, "compaction", 1)>>}

(* Three bounds.  Once a write was cut, sessions are only opened, spoken in *)
(* and copied.  Once there is a reply one more is no different from a       *)
(* question.  With no entry left to append the leaf need not be moved.      *)
Appends(p) == Len(mem'[p].entries) > Len(mem[p].entries) /\ mem[p].file = mem'[p].file
Moves(p) == mem'[p] # mem[p] /\ mem'[p].entries = mem[p].entries /\ mem[p].file = mem'[p].file
MCBound ==
  \A p \in Process :
    /\ hurt # {} =>
         \/ mem'[p].file # mem[p].file /\ (mem[p] = Down \/ mem'[p] = Down)
         \/ mem'[p] = mem[p]
         \/ Appends(p) /\ IsMessage(Last(mem'[p].entries))
    /\ Appends(p) /\ HasReply(mem[p].entries) => Last(mem'[p].entries).kind # "assistant"
    /\ Moves(p) => lastId < MaxId
=============================================================================
