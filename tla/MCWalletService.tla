--------------------------- MODULE MCWalletService ---------------------------
(* Small instances of WalletService. *)
EXTENDS WalletService, TLC

\* All calls meet at one name.
MCClients == {[careful |-> FALSE, calls |-> 3, faults |-> 2],
              [careful |-> TRUE, calls |-> 4, faults |-> 2],
              [careful |-> TRUE, calls |-> 5, faults |-> 1]}
\* No passphrase is special.
PassSymmetry == Permutations(Pass)
=============================================================================
