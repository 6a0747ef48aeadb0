--------------------------- MODULE MCPoolRequest ---------------------------
(* A pool of four nodes, which tolerates one faulty node. *)
EXTENDS PoolRequest

CONSTANTS n1, n2, n3, n4, Unknown
MCPreordered == <<n1, n2, n3, n4>>

\* The ledger as of time 1, and as of time 2.
OldAndNew == [old |-> 1, new |-> 2]

Write == [kind |-> "Consensus", timestamps |-> <<None, None>>, nodes |-> None]
ReadAt(from, to) == [kind |-> "Single", timestamps |-> <<from, to>>, nodes |-> None]
Action(nodes) == [kind |-> "Full", timestamps |-> <<None, None>>, nodes |-> nodes]

\* GET_NYM and others; GET_TXN; a revocation delta with and without its end.
Reads == {ReadAt(None, None), ReadAt(None, 0), ReadAt(1, 2), ReadAt(1, None), ReadAt(None, 1)}
\* All nodes, some, none, an unknown one, one that is named twice.
Actions == {Action(None), Action(<<n1, n3>>), Action(<<>>), Action(<<n1, Unknown>>),
            Action(<<n1, n3, n1>>)}
Requests == {Write} \cup Reads \cup Actions

\* A node that changes its mind is worth looking at where replies add up.
TwoUnlessRead(kind) == IF kind = "Single" THEN 1 ELSE 2
=============================================================================
