---------------------------- MODULE PoolNetworker ----------------------------
(***************************************************************************)
(* libindy's ZMQNetworker (services/pool/networker.rs): the connections of *)
(* one pool to its nodes, the request each connection carries and the      *)
(* timers that bound the wait for every node asked.                        *)
(*                                                                         *)
(* The networker's state is one record, w, and process_event is an       *)
(* operator on it, so that the request handlers (PoolRequest, PoolCatchup) *)
(* compose several events into one step as the code does.  Time is         *)
(* abstract: a timer may fire at any moment after it is armed, a           *)
(* connection stops being active at any moment after it is made.  Only the *)
(* remainder of a resend counter selects a node, so only it is kept.       *)
(***************************************************************************)
EXTENDS Integers, SequencesExt

CONSTANTS
    ReqId,        \* the request ids
    Node,         \* the validator nodes
    None,         \* the absent value
    Preordered,   \* the preordered_nodes option: a sequence of nodes
    ConnLimit     \* the conn_limit option

ASSUME NetworkerAssumption ==
    /\ ReqId # {}
    /\ Node # {} /\ IsFiniteSet(Node) /\ None \notin Node
    /\ Preordered \in Seq(Node)
    /\ ConnLimit \in Nat \ {0}

----------------------------------------------------------------------------
(* PoolConnection *)

Empty == [x \in {} |-> x]
Put(f, S, v) == [x \in DOMAIN f \cup S |-> IF x \in S THEN v ELSE f[x]]
Drop(f, S) == Restrict(f, DOMAIN f \ S)

\* Where the option puts a node: nodes it does not name come last.
Position(n) ==
    IF n \in ToSet(Preordered)
    THEN Min({i \in 1..Len(Preordered) : Preordered[i] = n})
    ELSE Len(Preordered) + 1

\* The orders a new connection may give its nodes: shuffled, then stably
\* sorted by Position.
Orders(S) == {o \in SetToSeqs(S) :
                 \A i, j \in 1..Len(o) : i < j => Position(o[i]) <= Position(o[j])}

ConnectionNew(order) ==
    [order |-> order, sockets |-> {}, resend |-> Empty, timeouts |-> {},
     req_cnt |-> 0, active |-> TRUE]

HasActiveRequests(pc) == pc.timeouts # {}
IsOrphaned(pc) == ~pc.active /\ ~HasActiveRequests(pc)

\* Sending to nodes opens their sockets and (re)arms their timers.
SendMsg(pc, r, S) ==
    [pc EXCEPT !.sockets = @ \cup S, !.timeouts = @ \cup ({r} \X S)]

\* A request goes to the first node, to a set of nodes, or once more to the
\* next node round the connection's order.
SendRequest(pc, ev) ==
    CASE ev.op = "SendOne" ->
            [SendMsg(pc, ev.req, {pc.order[1]})
                EXCEPT !.req_cnt = @ + 1, !.resend = Put(@, {ev.req}, 0)]
      [] ev.op = "SendAll" ->
            [SendMsg(pc, ev.req, ToSet(pc.order) \cap ev.nodes) EXCEPT !.req_cnt = @ + 1]
      [] ev.op = "Resend" ->
            IF ev.req \in DOMAIN pc.resend
            THEN LET cnt == (pc.resend[ev.req] + 1) % Len(pc.order)
                 IN  [SendMsg(pc, ev.req, {pc.order[cnt + 1]})
                         EXCEPT !.resend = Put(@, {ev.req}, cnt)]
            ELSE pc

\* Mutant of ConnExtendTimeout: a late REQACK arms a timer nobody waits for.
ConnExtendTimeoutLate(pc, r, n) == [pc EXCEPT !.timeouts = @ \cup {<<r, n>>}]

\* REQACK moves the deadline of a timer that is armed, and arms none: with
\* deadlines abstract, nothing changes.
ConnExtendTimeout(pc, r, n) == pc

\* Mutant of ConnCleanTimeout: every timer of the node goes, whoever's it is.
ConnCleanTimeoutNode(pc, r, S) ==
    [pc EXCEPT !.timeouts = {p \in @ : p[2] \notin S}]

\* The timers of a request are disarmed: one node's, or all of them.
ConnCleanTimeout(pc, r, S) == [pc EXCEPT !.timeouts = @ \ ({r} \X S)]

----------------------------------------------------------------------------
(* ZMQNetworker::process_event *)

NetworkerNew(nodes) ==
    [nodes |-> nodes, conns |-> Empty, mappings |-> Empty, made |-> 0]

\* Mutant of Reusable: the nodes the newest connection reaches are not compared.
ReusableOldNodes(w) ==
    {c \in DOMAIN w.conns :
        /\ \A d \in DOMAIN w.conns : d <= c
        /\ w.conns[c].active
        /\ w.conns[c].req_cnt < ConnLimit}

\* The newest connection, if it may take one more request.
Reusable(w) ==
    {c \in DOMAIN w.conns :
        /\ \A d \in DOMAIN w.conns : d <= c
        /\ w.conns[c].active
        /\ w.conns[c].req_cnt < ConnLimit
        /\ ToSet(w.conns[c].order) = w.nodes}

\* Mutant of ConnectionFor: a request that is under way looks for a
\* connection again.
ConnectionForAgain(w, r) == Reusable(w)

\* The connection an event of request r goes to: the one that carries r, or
\* the reusable one, or none.
ConnectionFor(w, r) ==
    IF r \in DOMAIN w.mappings THEN {w.mappings[r]} ELSE Reusable(w)

\* SendOneRequest, SendAllRequest and Resend.  A new connection takes the
\* given order; an event for a connection that is gone is only logged.
Send(w, ev, order) ==
    LET C == ConnectionFor(w, ev.req)
        id == w.made + 1
    IN  IF C # {}
        THEN LET c == CHOOSE c \in C : TRUE
             IN  [w EXCEPT
                    !.conns = IF c \in DOMAIN @ THEN [@ EXCEPT ![c] = SendRequest(w.conns[c], ev)] ELSE @,
                    !.mappings = Put(@, {ev.req}, c)]
        ELSE [w EXCEPT
                !.conns = Put(@, {id}, SendRequest(ConnectionNew(order), ev)),
                !.mappings = Put(@, {ev.req}, id),
                !.made = id]

NodesStateUpdated(w, nodes) == [w EXCEPT !.nodes = nodes]

ExtendTimeout(w, r, n) ==
    IF r \in DOMAIN w.mappings /\ w.mappings[r] \in DOMAIN w.conns
    THEN [w EXCEPT !.conns[w.mappings[r]] = ConnExtendTimeout(@, r, n)]
    ELSE w

RemoveOrphans(w, S) == [w EXCEPT !.conns = Drop(@, {c \in S \cap DOMAIN @ : IsOrphaned(@[c])})]

\* CleanTimeout(r, Some(n)) for a node, CleanTimeout(r, None) for n = None.
CleanTimeout(w, r, n) ==
    LET cleaned ==
            IF r \in DOMAIN w.mappings /\ w.mappings[r] \in DOMAIN w.conns
            THEN RemoveOrphans([w EXCEPT !.conns[w.mappings[r]] =
                                    ConnCleanTimeout(@, r, IF n \in Node THEN {n} ELSE Node)],
                               {w.mappings[r]})
            ELSE w
    IN  IF n \in Node THEN cleaned ELSE [cleaned EXCEPT !.mappings = Drop(@, {r})]

\* NetworkerEvent::Timeout: the idle connections whose time is over go.
IdleTimeout(w) == RemoveOrphans(w, DOMAIN w.conns)

\* The timers of a request, wherever they are armed.
Timers(w, r) == {n \in Node : \E c \in DOMAIN w.conns : <<r, n>> \in w.conns[c].timeouts}

\* The nodes a reply can be read from: those with an open socket.
Reachable(w) == UNION {w.conns[c].sockets : c \in DOMAIN w.conns}

\* What get_timeout may return: an armed timer, or the end of the active time
\* of a connection that has none.
GetTimeout(w) ==
    (UNION {w.conns[c].timeouts : c \in DOMAIN w.conns})
      \cup {<<"", "">> : c \in {d \in DOMAIN w.conns : ~HasActiveRequests(w.conns[d])}}

=============================================================================
