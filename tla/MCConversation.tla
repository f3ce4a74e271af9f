--------------------------- MODULE MCConversation ---------------------------
(* Small instance of Conversation for TLC. *)
EXTENDS Conversation, TLC
CONSTANTS h1, h2
MCListings == {h1, h2}
Symmetry == Permutations(MCListings)
=============================================================================
