----------------------------- MODULE RootServer -----------------------------
(***************************************************************************)
(* The root API server (apiserver/rootapiserver.js) in front of the        *)
(* finance API server.  A request of a client becomes at most one request  *)
(* of the same name at the finance server; /money_issuance has no route at *)
(* the root server and is sent to the finance server itself.               *)
(***************************************************************************)
EXTENDS FinanceServer

CONSTANTS
    RootHttp   \* the contents of client requests

\* A client request has a route and the fields name and deposit.
ASSUME RootHttpAssumption ==
    RootHttp \subseteq [route : {"/register", "/balance_check", "/pay"},
                        name : Key \cup {Missing},
                        deposit : Int \cup {Empty, NotInt, Missing}]

VARIABLES
    client,    \* how far each client request has come
    rootHttp   \* its content

rootVars == <<client, rootHttp>>
allVars  == <<vars, rootVars>>

\* Mutant of Forward: the deposit documented as the default is sent.
ForwardNoDeposit(q) ==
    IF q.route = "/register"
    THEN [route |-> "/createaccount", name |-> q.name, value |-> 0]
    ELSE [route |-> "/balance_check", name |-> q.name, value |-> Missing]

\* The request to the finance server.  A field that is undefined is dropped
\* when the body is serialised.
Forward(q) ==
    IF q.route = "/register"
    THEN [route |-> "/createaccount", name |-> q.name, value |-> q.deposit]
    ELSE [route |-> "/balance_check", name |-> q.name, value |-> Missing]

Waiting(r) == client[r] \in {"posting", "posted"}

RootInit ==
    /\ Init
    /\ client = [r \in Req |-> "idle"]
    /\ rootHttp = [r \in Req |-> [route |-> "none", name |-> Missing,
                                  deposit |-> Missing]]

\* A route runs to axios.post; /pay is a stub that answers at once.
RootReceive(r, q) ==
    /\ client[r] = "idle" /\ At(r, "idle")
    /\ client' = [client EXCEPT ![r] = IF q.route = "/pay" THEN "answered" ELSE "posting"]
    /\ rootHttp' = [rootHttp EXCEPT ![r] = q]
    /\ UNCHANGED vars

\* The finance server receives the request.
Post(r) ==
    /\ client[r] = "posting"
    /\ Receive(r, Forward(rootHttp[r]))
    /\ client' = [client EXCEPT ![r] = "posted"]
    /\ UNCHANGED rootHttp

\* Mutant of Reply: the route answers only when the submission succeeded.
ReplySuccessOnly(r) ==
    /\ client[r] = "posted" /\ At(r, "answered") /\ msg2[r] = "submitted"
    /\ client' = [client EXCEPT ![r] = "answered"]
    /\ UNCHANGED <<vars, rootHttp>>

\* Its answer comes back and the client gets it.
Reply(r) ==
    /\ client[r] = "posted" /\ At(r, "answered")
    /\ client' = [client EXCEPT ![r] = "answered"]
    /\ UNCHANGED <<vars, rootHttp>>

\* axios.post rejects: the finance server is not reached, dies, or its answer
\* is lost.  No handler catches it: before version 15 node warns and the
\* client waits for ever, since then the process dies with all its requests.
Reject(r) ==
    /\ Waiting(r)
    /\ \/ client' = [client EXCEPT ![r] = "hung"]
       \/ client' = [c \in Req |-> IF Waiting(c) THEN "lost" ELSE client[c]]
    /\ UNCHANGED <<vars, rootHttp>>

\* A request that is sent to the finance server directly.
Direct(r, q) ==
    /\ client[r] = "idle" /\ q.route = "/money_issuance"
    /\ Receive(r, q)
    /\ UNCHANGED rootVars

\* The connection of a request the finance server died on is closed, so its
\* promise settles like any other.
RootStep(r) == Post(r) \/ Reply(r) \/ Reject(r)

RootNext ==
    \/ \E r \in Req, q \in RootHttp : RootReceive(r, q)
    \/ \E r \in Req, q \in Http : Direct(r, q)
    \/ \E r \in Req : RootStep(r)
    \/ /\ \/ \E r \in Req : Step(r) \/ Commit(r) \/ Discard(r)
          \/ EnrollAdminStep
          \/ Crash
       /\ UNCHANGED rootVars

\* The promise of axios.post settles once the finance server has answered or
\* died; before that it need not.
RootSpec ==
    /\ RootInit /\ [][RootNext]_allVars
    /\ \A r \in Req : WF_allVars(Step(r) /\ UNCHANGED rootVars)
    /\ \A r \in Req : WF_allVars(Post(r)) /\ WF_allVars(Reply(r))
    /\ \A r \in Req : WF_allVars(At(r, "lost") /\ Reject(r))

----------------------------------------------------------------------------
Told(r) == client[r] = "answered" /\ msg2[r] = "submitted"

\* What a client is told across both servers is so: a /register answered with
\* success has left its user with an identity and an account that holds the
\* deposit of that request, and a /balance_check reports the balance of the
\* account it names.
ToldTheTruth ==
    \A r \in Req : Told(r) =>
        LET q == rootHttp[r]
        IN  /\ q.route = "/register" => q.name \in wallet /\ ledger[q.name] = q.deposit
            /\ q.route = "/balance_check" /\ q.name # Admin =>
                  \E d \in done : d.tx = r /\ d.payload = ledger[q.name]

\* No client waits for a server that is done with its request.  That is less than
\* an answer: a client whose forwarding was rejected ("hung", or "lost" with the
\* process) gets none, because nothing catches the rejection of axios.post.
ClientSettled == \A r \in Req : Waiting(r) ~> client[r] \in {"answered", "hung", "lost"}
============================================================================
