---------------------------- MODULE AtomicLedger ----------------------------
(***************************************************************************)
(* What the ledger promises its clients: every transaction that takes      *)
(* effect runs its call once, in one step, against the current state, and  *)
(* the answer its client gets is the one of that run.                      *)
(***************************************************************************)
CONSTANTS
    Tx,               \* transaction identifiers
    Call,             \* the calls that clients make
    Deployed,         \* the state after the instantiation of the chaincode
    Simulate(_, _),   \* the response of the chaincode to a call in a state
    Apply(_, _)       \* the state after a write set is committed

VARIABLES
    ledger,   \* the state
    done      \* the transactions that took effect, each with its answer

vars == <<ledger, done>>

Init ==
    /\ ledger = Deployed
    /\ done = {}

Execute(t, c) ==
    /\ \A d \in done : d.tx # t
    /\ Simulate(ledger, c).ok
    /\ ledger' = Apply(ledger, Simulate(ledger, c).writes)
    /\ done' = done \cup {[tx |-> t, call |-> c,
                           payload |-> Simulate(ledger, c).payload]}

Next == \E t \in Tx, c \in Call : Execute(t, c)

Spec == Init /\ [][Next]_vars
============================================================================
