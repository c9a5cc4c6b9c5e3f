--------------------------- MODULE MCConversation ---------------------------
(* Two files, so that one can be active while the other was read before.    *)
EXTENDS Conversation

CONSTANTS f, g

============================================================================
