----------------------------- MODULE LinkedList ------------------------------
(***************************************************************************)
(* Singly linked lists: link[n] is the node after n, nil ends a list.      *)
(* What a list holds is stated as the least closed set, not by following   *)
(* the links one after the other, so that it can be reasoned about.        *)
(***************************************************************************)

Closed(link, nil, S) == \A n \in S : link[n] \in S \cup {nil}

\* The nodes of the list that starts at x.
Reach(link, nil, nodes, x) ==
    {n \in nodes : \A S \in SUBSET nodes :
        x \in S \cup {nil} /\ Closed(link, nil, S) => n \in S}

=============================================================================
