------------------------------ MODULE MCWallet ------------------------------
(***************************************************************************)
(* Instances of Wallet for TLC: heights of the blocks, of which b2 and b2f *)
(* are the last blocks of two branches of one length.                      *)
(***************************************************************************)
EXTENDS Wallet, TLC

CONSTANTS b1, b2, b2f

MCBlocks == {b1, b2, b2f}
MCThreads == Readers \cup {Refresher}
OneBranch == {b1, b2}
MCHeight == [b \in Blocks \cup {NoBlock} |->
               CASE b = NoBlock -> 0 [] b = b1 -> 1 [] OTHER -> 2]

ReaderSymmetry == Permutations(Readers)
=============================================================================
