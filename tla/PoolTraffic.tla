---------------------------- MODULE PoolTraffic ----------------------------
(***************************************************************************)
(* The networker of PoolNetworker on its own, driven by any pool: requests *)
(* of any kind, in any order, each with a fresh id or one under way.       *)
(***************************************************************************)
EXTENDS PoolNetworker

CONSTANT MaxConns      \* bound: connections made in a behaviour

ASSUME TrafficAssumption == MaxConns \in Nat \ {0}

VARIABLE net

Live == DOMAIN net.mappings

NetworkerInit == \E S \in (SUBSET Node) \ {{}} : net = NetworkerNew(S)

SendOne(r) ==
    /\ r \notin Live /\ net.nodes # {} /\ net.made < MaxConns
    /\ \E o \in Orders(net.nodes) : net' = Send(net, [op |-> "SendOne", req |-> r], o)

SendAll(r, S) ==
    /\ r \notin Live /\ net.nodes # {} /\ net.made < MaxConns
    /\ S \subseteq net.nodes
    /\ \E o \in Orders(net.nodes) :
          net' = Send(net, [op |-> "SendAll", req |-> r, nodes |-> S], o)

Resend(r) ==
    /\ r \in Live
    /\ net' = Send(net, [op |-> "Resend", req |-> r], <<>>)

Update(S) == net' = NodesStateUpdated(net, S)

ReqAck(r, n) == r \in Live /\ net' = ExtendTimeout(net, r, n)

\* A handler is done with one node, having asked another before, or with the
\* request.
Clean(r, n) == r \in Live /\ Timers(net, r) \ {n} # {} /\ net' = CleanTimeout(net, r, n)
Finish(r)   == r \in Live /\ net' = CleanTimeout(net, r, None)

IdleEvent == <<"", "">> \in GetTimeout(net) /\ net' = IdleTimeout(net)

\* The active time of a connection passes.
Expire(c) ==
    /\ net.conns[c].active
    /\ net' = [net EXCEPT !.conns[c].active = FALSE]

NetworkerNext ==
    \/ \E r \in ReqId : SendOne(r) \/ Resend(r) \/ Finish(r)
    \/ \E r \in ReqId, S \in (SUBSET Node) \ {{}} : SendAll(r, S)
    \/ \E S \in (SUBSET Node) \ {{}} : Update(S)
    \/ \E r \in ReqId, n \in Node : ReqAck(r, n) \/ Clean(r, n)
    \/ \E c \in DOMAIN net.conns : Expire(c)
    \/ IdleEvent

NetworkerSpec == NetworkerInit /\ [][NetworkerNext]_net

----------------------------------------------------------------------------
(* Properties *)

\* A timer that is armed belongs to a request that is under way, and sits on
\* the connection the request is mapped to, so that CleanTimeout reaches it:
\* a timer out of reach fires for ever, because firing disarms nothing.
TimersCleanable ==
    \A c \in DOMAIN net.conns : \A p \in net.conns[c].timeouts :
        p[1] \in Live /\ net.mappings[p[1]] = c

\* A new request goes to a connection that reaches exactly the nodes of the
\* pool as it is now, whatever connections are left from before an update.
CurrentNodesAsked ==
    [][\A r \in (DOMAIN net.mappings') \ Live :
          ToSet(net.conns'[net.mappings'[r]].order) = net.nodes]_net

\* A step concerns one request: it neither arms nor disarms a timer of any
\* other, and takes no connection away that another still waits on, although
\* requests share connections.
OthersUndisturbed ==
    [][\E r \in ReqId : \A q \in ReqId \ {r} : Timers(net', q) = Timers(net, q)]_net

=============================================================================
