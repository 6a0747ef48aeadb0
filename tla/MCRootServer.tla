---------------------------- MODULE MCRootServer ----------------------------
(***************************************************************************)
(* Instances of RootServer for TLC.                                        *)
(***************************************************************************)
EXTENDS RootServer, TLC

CONSTANTS alice

Accounts == {Admin, alice}

ClientBody(route, name, deposit) == [route |-> route, name |-> name, deposit |-> deposit]

\* The routes of the root server.  The documentation of /balance_check calls
\* its parameter user; a client that follows it sends no name.
ClientRequests ==
    {ClientBody("/register", alice, 1),
     ClientBody("/balance_check", alice, Missing),
     ClientBody("/balance_check", Missing, Missing),
     ClientBody("/pay", Missing, Missing)}

\* What reaches the finance server.
FinanceRequests ==
    {Forward(q) : q \in {c \in RootHttp : c.route # "/pay"}}
        \cup {[route |-> "/money_issuance", name |-> Missing, value |-> 2]}

\* The chaincode calls of the requests.
Calls == {CallOf(q) : q \in {h \in Http : Complete(h)}}
============================================================================
