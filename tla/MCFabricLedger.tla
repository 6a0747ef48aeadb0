--------------------------- MODULE MCFabricLedger ---------------------------
(***************************************************************************)
(* Instances of FabricLedger for TLC.  An int has three bits, so sums of   *)
(* two balances overflow.                                                  *)
(***************************************************************************)
EXTENDS FabricLedger, TLC

CONSTANTS alice, bob

Accounts == {Admin, alice, bob}

\* One call of every kind, with the arguments that make each guard of the
\* chaincode decide: a negative, an unparsable and an out-of-range amount, a
\* wrong number of arguments, an unknown function.
EveryCall ==
    {Upgrade,
     Invoke("create_account", <<alice, 1>>),
     Invoke("create_account", <<alice, -1>>),
     Invoke("create_account", <<Admin>>),
     Invoke("remit", <<Admin, alice, 1>>),
     Invoke("remit", <<alice, alice, 1>>),
     Invoke("remit", <<alice, bob, 2>>),
     Invoke("create_account", <<bob, 0>>),
     Invoke("remit", <<alice, Admin, 1>>),
     Invoke("remit", <<alice, Admin, MaxInt + 1>>),
     Invoke("balance_check", <<alice>>),
     Invoke("money_issuance", <<MaxInt>>),
     Invoke("money_issuance", <<NotInt>>),
     Invoke("delete_account", <<alice>>),
     Invoke("delete_account", <<Admin>>),
     Invoke("burn", <<alice>>)}

\* Transaction identifiers and peers are interchangeable.
TxPeerSymmetry == Permutations(Tx) \cup Permutations(Peer)
============================================================================
