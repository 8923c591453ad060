------------------------- MODULE MCConcurrentQueue --------------------------
(* The hashes of both threads collide; the first calls enqueue twice. *)
EXTENDS ConcurrentQueue

CONSTANTS t1, t2

MCHash == [t \in Threads |-> 0]
MCCalls == [t \in Threads |-> IF t = t1 THEN 2 ELSE 1]
=============================================================================
