------------------------ MODULE MCEmbeddingDispatcher ------------------------
(* Small instances of EmbeddingDispatcher for TLC. *)
EXTENDS EmbeddingDispatcher, TLC

Symmetry == Permutations(Tasks) \cup Permutations(Workers)
=============================================================================
