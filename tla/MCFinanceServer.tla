-------------------------- MODULE MCFinanceServer --------------------------
(***************************************************************************)
(* Instances of FinanceServer for TLC.                                     *)
(***************************************************************************)
EXTENDS FinanceServer

CONSTANTS alice

Accounts == {Admin, alice}

Body(route, name, value) == [route |-> route, name |-> name, value |-> value]

\* Every route, with the bodies that make it branch: a missing field, a
\* deposit the chaincode refuses, the name of the admin.
EveryRoute ==
    {Body("/createaccount", alice, 1),
     Body("/createaccount", alice, 2),
     Body("/createaccount", alice, -1),
     Body("/createaccount", Admin, 1),
     Body("/createaccount", Missing, 1),
     Body("/money_issuance", Missing, 2),
     Body("/money_issuance", Missing, Missing),
     Body("/balance_check", alice, Missing)}

\* Requests that race for one account, next to issuances.
SameName ==
    {Body("/createaccount", alice, 1),
     Body("/createaccount", alice, 2),
     Body("/money_issuance", Missing, 3)}

\* The chaincode calls of the requests.
Calls == {CallOf(q) : q \in {h \in Http : Complete(h)}}
============================================================================
