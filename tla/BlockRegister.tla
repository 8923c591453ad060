---------------------------- MODULE BlockRegister ----------------------------
(***************************************************************************)
(* What Wallet promises about the current block: it is replaced as a       *)
(* whole, only by a higher block, and get_current_block returns one whole  *)
(* block that was current at some moment of the call.                      *)
(***************************************************************************)
EXTENDS Integers

CONSTANTS Readers, BlockValues   \* a block value is a record with height_

VARIABLES
    block,   \* the current block
    got      \* what each reader's last completed call returned

vars == <<block, got>>

Init ==
    /\ block \in BlockValues
    /\ got = [t \in Readers |-> block]

Replace(b) ==
    /\ block.height_ < b.height_
    /\ block' = b
    /\ UNCHANGED got

Read(t) ==
    /\ got' = [got EXCEPT ![t] = block]
    /\ UNCHANGED block

Next ==
    \/ \E b \in BlockValues : Replace(b)
    \/ \E t \in Readers : Read(t)

Spec == Init /\ [][Next]_vars
=============================================================================
