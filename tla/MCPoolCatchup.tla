---------------------------- MODULE MCPoolCatchup ----------------------------
(* A pool of four nodes, which tolerates one faulty node. *)
EXTENDS PoolCatchup

CONSTANTS n1, n2, n3, n4
MCPreordered == <<n1, n2, n3, n4>>
MCReqId == {CatchupId} \cup 1..3 \cup (Wrong + 1)..(Wrong + 3)
\* Every node has the whole ledger; one is behind; as many as can decide are.
Behind(S) == [n \in Node |-> IF n \in S THEN 1 ELSE 3]
Start(S, T, c, i) == [length |-> Behind(S), faulty |-> T, cache |-> c, idle |-> i]
\* A cache that is not a prefix of the ledger; shorter prefixes are what a
\* crash leaves for the second catch-up.
MCStarts ==
    {Start(S, {}, c, "none") : S \in {{}, {n1}, {n1, n2}}, c \in {NoCache, Wrong + 2}}
      \cup {Start({n1}, {}, c, "active") : c \in {NoCache, Wrong + 2}}
      \cup {Start({n1, n2}, {n4}, Wrong + 2, "none"), Start({n1}, {n4}, NoCache, "none")}
=============================================================================
