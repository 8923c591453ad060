---------------------- MODULE MCDeadlineRequestHandler ----------------------
(***************************************************************************)
(* A small node for TLC: account a1 has a registered round and several     *)
(* competing requests, a2 is not registered with any pool.                 *)
(***************************************************************************)
EXTENDS DeadlineRequestHandler

CONSTANTS r1, r2, r3, r4, a1, a2

MCAccounts == {a1, a2}
MCRegistered == {a1}

\* r4 belongs to nobody the pool knows.
MCAccountId == [r \in Requests |-> IF r = r4 THEN a2 ELSE a1]

\* r2 and r3 tie, r1 is worse; a PoC2 plot is one worse than a PoC1 plot and
\* odd blocks are two worse than even ones, so limit and UINT64_MAX are hit.
MCCalculateDeadline(r, h, p) ==
    (IF r = r1 THEN 2 ELSE 1) + (IF p THEN 1 ELSE 0) + 2 * (h % 2)

\* Only block 1 is given the base target zero, so that blocks 2 and 3 may share
\* a batch without ending the process; or no block is.
MCZeroBaseTarget == [h \in 1 .. MaxHeight |-> IF h = 1 THEN 0 ELSE 1]
MCBaseTargets    == [h \in 1 .. MaxHeight |-> 1]
=============================================================================
