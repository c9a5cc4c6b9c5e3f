---------------------------- MODULE LlamaContext ----------------------------
(***************************************************************************)
(* One native model context of synapse, as the JavaScript side drives it:  *)
(* the operators of synapse/src/native/binding_gpu.cpp on the KV cells of  *)
(* sequence 0, the position counter n_past_ and the logits of the last     *)
(* decode.  A context is a record                                          *)
(*   kv   the tokens of the cells, by position (Hole: an empty cell)       *)
(*   n    n_past_, where the next decodeAppend() writes                    *)
(*   lg   the tokens the current logits were computed from                 *)
(* Operators that can fail return the set of contexts they may leave.      *)
(***************************************************************************)
EXTENDS Naturals, Sequences

CONSTANT Hole    \* the token of a position no decode has filled

Upto(s, n) == SubSeq(s, 1, IF n <= Len(s) THEN n ELSE Len(s))

Fresh == [kv |-> <<>>, n |-> 0, lg |-> <<>>]

(* getLogits*() predicts the token after the cells only when the logits are *)
(* those of the last cell.                                                  *)
LogitsValid(c) == c.kv # <<>> /\ c.lg = c.kv

(* The guard of decodeAppend() and mtpVerifyBatch(): "would exceed context  *)
(* size" is thrown otherwise.                                               *)
Fits(c, toks, size) == c.n + Len(toks) <= size

(* llama_decode() wants consecutive positions: n_past_ right behind the     *)
(* last cell, or anything when the sequence is empty.                       *)
Consecutive(c) == c.kv = <<>> \/ c.n = Len(c.kv)

(* forwardAsync(), status 0: the memory is cleared first.                   *)
Forward(toks) == [kv |-> toks, n |-> Len(toks), lg |-> toks]

(* forwardAsync(), status other than 0: some chunks may have been decoded.  *)
ForwardFailed(c, toks) ==
  {[kv |-> Upto(toks, i), n |-> 0, lg |-> c.lg] : i \in 0..(Len(toks) - 1)}

Cells(c) == IF c.kv = <<>> THEN [i \in 1..c.n |-> Hole] ELSE c.kv

(* decodeAppendAsync(), status 0.                                           *)
Appended(c, toks) ==
  [kv |-> Cells(c) \o toks, n |-> c.n + Len(toks), lg |-> Cells(c) \o toks]

(* decodeAppendAsync(), status other than 0 in the chunk after the first i  *)
(* tokens: n_past_ stays, the cells of the earlier chunks do too.           *)
AppendFailed(c, toks, i) ==
  [c EXCEPT !.kv = IF i = 0 THEN @ ELSE Cells(c) \o Upto(toks, i)]

(* kvCacheSeqRemove(0, pos, -1); resetNPast(pos).                           *)
Rewind(c, pos) == [c EXCEPT !.kv = Upto(@, pos), !.n = pos]

(* setKVState(): cells and n_past_ are back, logits are not.                *)
Restore(c, cells) == [c EXCEPT !.kv = cells, !.n = Len(cells)]

============================================================================
