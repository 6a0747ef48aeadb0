--------------------------- MODULE MCPoolLifecycle ---------------------------
(* Small instances of PoolLifecycle. *)
EXTENDS PoolLifecycle

\* Any two calls of a client that does what it likes, and
\* more calls of one that opens, submits and closes.
AnyCalls == [ops |-> {"delete", "close", "refresh", "submit", "resubmit", "version"},
             calls |-> 2]
CarefulCalls == [ops |-> {"close", "submit"}, calls |-> 3]
AnyAndCareful == {AnyCalls, CarefulCalls}
============================================================================
