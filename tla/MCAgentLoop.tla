---------------------------- MODULE MCAgentLoop ----------------------------
(* Four characters.  A newline and the space behind it are one token, and   *)
(* so are x and y together, in either order: the leftmost pair wins.        *)
EXTENDS AgentLoop

CONSTANTS x, y, nl, sp

MCChar == {x, y, nl, sp}
Pairs == {<<nl, sp>>, <<x, y>>, <<y, x>>}

RECURSIVE MCTokenize(_)
MCTokenize(text) ==
  IF text = <<>> THEN <<>>
  ELSE IF Upto(text, 2) \in Pairs
       THEN <<Upto(text, 2)>> \o MCTokenize(SubSeq(text, 3, Len(text)))
       ELSE <<Upto(text, 1)>> \o MCTokenize(Tail(text))

(* The tokenizer loses nothing, on short texts.                             *)
ASSUME Spells ==
  \A n \in 0..5 : \A text \in [1..n -> MCChar] : TextOf(MCTokenize(text)) = text

(* Two prompts that share a line, and differ in whether its end is fused    *)
(* with what follows.  The long one has two rungs and does not fit the      *)
(* window.                                                                  *)
MCPrompt == {<<x, x, nl, sp, x, x>>, <<x, x, nl, nl, x, x, x, x, x, x>>}

(* Behind an x, the turn's text is tokenized differently, to as many        *)
(* tokens; with the input behind it, to fewer.                              *)
MCOutput == {<<<<x>>, <<y, x>>>>}
MCInput == {<<y, nl>>}

=============================================================================
