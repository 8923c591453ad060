------------------------- MODULE MCImplicitProducer -------------------------
(* Blocks are alike, and so are consumers. *)
EXTENDS ImplicitProducer, TLC

Symmetry == Permutations(Blocks) \cup Permutations(Consumers)
=============================================================================
