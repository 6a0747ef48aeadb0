----------------------------- MODULE PoolProofs -----------------------------
(***************************************************************************)
(* Proofs about libindy's pools, in two parts.                             *)
(*                                                                         *)
(* PoolTraffic, the networker under any traffic: for every set of requests *)
(* and of nodes, every connection limit and every order of sends, updates, *)
(* clean-ups and expirations, every timer can be disarmed, a new request   *)
(* reaches the nodes of the pool as it is, and requests that share a       *)
(* connection do not disturb each other.                                   *)
(*                                                                         *)
(* PoolLifecycle, the life of the pools of a process: for every client,    *)
(* every number of pools and calls and every order of their threads'       *)
(* steps, no answer goes astray and no call is answered twice.             *)
(***************************************************************************)
EXTENDS PoolTraffic, PoolLifecycle, FiniteSetTheorems, SequenceTheorems, TLAPS

----------------------------------------------------------------------------
(* The networker: the inductive invariant *)

\* The functions from a part of D to V: connections, mappings, resend counters.
Partial(D, V) == UNION {[S -> V] : S \in SUBSET D}

Connection ==
    [order : Seq(Node) \ {<<>>}, sockets : SUBSET Node, resend : Partial(ReqId, Nat),
     timeouts : SUBSET (ReqId \X Node), req_cnt : Nat, active : BOOLEAN]

\* The numbers of the connections.
ConnId == 1..MaxConns

Connections == Partial(ConnId, Connection)
Mappings    == Partial(ReqId, ConnId)

Networker ==
    [nodes : (SUBSET Node) \ {{}}, conns : Connections, mappings : Mappings, made : 0..MaxConns]

\* Connections are numbered in the order they are made, so that a new one
\* replaces none.
Numbered(w) == \A c \in DOMAIN w.conns : c <= w.made

\* Every timer is on the connection its request is mapped to.
Mapped(w) ==
    \A c \in DOMAIN w.conns : \A p \in w.conns[c].timeouts :
        p[1] \in DOMAIN w.mappings /\ w.mappings[p[1]] = c

Good(w) == w \in Networker /\ Numbered(w) /\ Mapped(w)

NetworkerInv == Good(net)

----------------------------------------------------------------------------
(* Partial functions *)

\* A partial function has a part of D for its domain and takes values in V.
LEMMA PartialIs ==
    ASSUME NEW D, NEW V, NEW f
    PROVE  f \in Partial(D, V) <=> DOMAIN f \in SUBSET D /\ f \in [DOMAIN f -> V]
BY DEF Partial

\* g is f with the value v at x.
Given(f, x, v, g) ==
    /\ DOMAIN g = DOMAIN f \cup {x} /\ g[x] = v
    /\ \A y \in DOMAIN f : y # x => g[y] = f[y]

\* g is f without the values at S.
Taken(f, S, g) ==
    DOMAIN g = DOMAIN f \ S /\ \A y \in DOMAIN f \ S : g[y] = f[y]

\* Giving a value keeps a function partial and keeps the other values.
LEMMA PartialPut ==
    ASSUME NEW D, NEW V, NEW f \in Partial(D, V), NEW x \in D, NEW v \in V
    PROVE  Put(f, {x}, v) \in Partial(D, V) /\ Given(f, x, v, Put(f, {x}, v))
<1>1. DOMAIN f \in SUBSET D /\ f \in [DOMAIN f -> V]
  BY PartialIs
<1>2. Put(f, {x}, v) \in [DOMAIN f \cup {x} -> V]
  BY <1>1 DEF Put
<1>3. DOMAIN f \cup {x} \in SUBSET D
  BY <1>1
<1>4. Put(f, {x}, v) \in Partial(D, V)
  BY <1>2, <1>3 DEF Partial
<1> QED
  BY <1>4 DEF Put, Given

\* Dropping values keeps a function partial and keeps the other values.
LEMMA PartialDrop ==
    ASSUME NEW D, NEW V, NEW f \in Partial(D, V), NEW S
    PROVE  Drop(f, S) \in Partial(D, V) /\ Taken(f, S, Drop(f, S))
<1>1. DOMAIN f \in SUBSET D /\ f \in [DOMAIN f -> V]
  BY PartialIs
<1>2. Drop(f, S) \in [DOMAIN f \ S -> V]
  BY <1>1 DEF Drop, Restrict
<1>3. DOMAIN f \ S \in SUBSET D
  BY <1>1
<1>4. Drop(f, S) \in Partial(D, V)
  BY <1>2, <1>3 DEF Partial
<1> QED
  BY <1>4 DEF Drop, Restrict, Taken

\* Changing a value keeps a function partial.
LEMMA PartialSet ==
    ASSUME NEW D, NEW V, NEW f \in Partial(D, V), NEW x \in DOMAIN f, NEW v \in V
    PROVE  [f EXCEPT ![x] = v] \in Partial(D, V) /\ Given(f, x, v, [f EXCEPT ![x] = v])
<1>1. DOMAIN f \in SUBSET D /\ f \in [DOMAIN f -> V]
  BY PartialIs
<1>2. [f EXCEPT ![x] = v] \in [DOMAIN f -> V]
  BY <1>1
<1>3. [f EXCEPT ![x] = v] \in Partial(D, V)
  BY <1>1, <1>2 DEF Partial
<1> QED
  BY <1>1, <1>3 DEF Given

\* The same for the mappings and the connections of a networker: a request is
\* mapped to a connection.
LEMMA GiveMapping ==
    ASSUME NEW f \in Mappings, NEW q \in ReqId, NEW c \in ConnId
    PROVE  Put(f, {q}, c) \in Mappings /\ Given(f, q, c, Put(f, {q}, c))
BY PartialPut, Zenon DEF Mappings

\* A request is no longer mapped.
LEMMA DropMapping ==
    ASSUME NEW f \in Mappings, NEW S
    PROVE  Drop(f, S) \in Mappings /\ Taken(f, S, Drop(f, S))
BY PartialDrop, Zenon DEF Mappings

\* A connection is made.
LEMMA GiveConnection ==
    ASSUME NEW f \in Connections, NEW c \in ConnId, NEW pc \in Connection
    PROVE  Put(f, {c}, pc) \in Connections /\ Given(f, c, pc, Put(f, {c}, pc))
BY PartialPut, Zenon DEF Connections

\* Connections are removed.
LEMMA DropConnections ==
    ASSUME NEW f \in Connections, NEW S
    PROVE  Drop(f, S) \in Connections /\ Taken(f, S, Drop(f, S))
BY PartialDrop, Zenon DEF Connections

\* A connection changes.
LEMMA ChangeConnection ==
    ASSUME NEW f \in Connections, NEW c \in DOMAIN f, NEW pc \in Connection
    PROVE  [f EXCEPT ![c] = pc] \in Connections /\ Given(f, c, pc, [f EXCEPT ![c] = pc])
BY PartialSet, Zenon DEF Connections

----------------------------------------------------------------------------
(* A connection *)

\* The order of a new connection names the nodes of the pool and no other.
LEMMA OrderIs ==
    ASSUME NEW S \in (SUBSET Node) \ {{}}, NEW o \in Orders(S)
    PROVE  o \in Seq(Node) \ {<<>>} /\ ToSet(o) = S
<1> DEFINE n == Cardinality(S)
<1>1. IsFiniteSet(S) /\ n \in Nat /\ n # 0
  BY NetworkerAssumption, FS_Subset, FS_CardinalityType, FS_EmptySet
<1>2. o \in [1..n -> S] /\ \A i, j \in 1..n : i # j => o[i] # o[j]
  BY DEF Orders, SetToSeqs
<1> HIDE DEF n
<1>3. o \in Injection(1..n, S)
  BY <1>2 DEF Injection, IsInjective
<1>4. Cardinality(1..n) = n
  <2>1. Cardinality(1..n) = IF 1 > n THEN 0 ELSE n - 1 + 1
    BY <1>1, FS_Interval
  <2> QED
    BY <1>1, <2>1
<1>5. o \in Surjection(1..n, S)
  BY <1>1, <1>3, <1>4, FS_Injection DEF n
<1>6. ToSet(o) = S
  BY <1>2, <1>5 DEF ToSet, Surjection
<1>7. o \in [1..n -> Node]
  BY <1>2
<1>8. o \in Seq(Node) /\ Len(o) = n
  BY <1>1, <1>7
<1> QED
  BY <1>1, <1>6, <1>8

\* What an event may carry.
Events(q) ==
    {[op |-> "SendOne", req |-> q], [op |-> "Resend", req |-> q]}
      \cup {[op |-> "SendAll", req |-> q, nodes |-> S] : S \in SUBSET Node}

\* Sending arms timers of the request that is sent and of no other.
Sent(pc, q, pd) ==
    /\ pd \in Connection /\ pd.order = pc.order
    /\ \E S \in SUBSET Node : pd.timeouts = pc.timeouts \cup ({q} \X S)

\* SendMsg arms timers of its own request.
LEMMA SendMsgSends ==
    ASSUME NEW pc \in Connection, NEW q \in ReqId, NEW S \in SUBSET Node
    PROVE  Sent(pc, q, SendMsg(pc, q, S))
<1>1. {q} \X S \in SUBSET (ReqId \X Node)
  OBVIOUS
<1>2. SendMsg(pc, q, S) \in Connection
  BY <1>1 DEF SendMsg, Connection
<1>3. SendMsg(pc, q, S).order = pc.order
      /\ SendMsg(pc, q, S).timeouts = pc.timeouts \cup ({q} \X S)
  BY DEF SendMsg, Connection
<1> QED
  BY <1>2, <1>3 DEF Sent

\* Counting the request and noting the node to ask next arm nothing.
Noted(pd, k, rs) == [pd EXCEPT !.req_cnt = k, !.resend = rs]

\* A connection that was sent on still was when its counters change.
LEMMA StillSent ==
    ASSUME NEW pc, NEW q, NEW pd, Sent(pc, q, pd), NEW rs \in Partial(ReqId, Nat), NEW k \in Nat
    PROVE  Sent(pc, q, Noted(pd, k, rs))
<1> DEFINE pe == [pd EXCEPT !.req_cnt = k, !.resend = rs]
<1>1. pd \in Connection
  BY DEF Sent
<1>2. pe \in Connection /\ pe.order = pd.order /\ pe.timeouts = pd.timeouts
  BY <1>1 DEF Connection
<1> HIDE DEF pe
<1>3. Sent(pc, q, pe)
  BY <1>2 DEF Sent
<1> QED
  BY <1>3 DEF pe, Noted

\* SendRequest, whatever the event, arms timers of its own request.
LEMMA SendRequestSends ==
    ASSUME NEW pc \in Connection, NEW q \in ReqId, NEW ev \in Events(q)
    PROVE  Sent(pc, q, SendRequest(pc, ev))
<1>1. pc.order \in Seq(Node) /\ pc.order # <<>> /\ Len(pc.order) \in Nat \ {0}
      /\ pc.resend \in Partial(ReqId, Nat)
  BY DEF Connection
<1>2. CASE ev = [op |-> "SendOne", req |-> q]
  <2> DEFINE S == {pc.order[1]}
             pd == SendMsg(pc, q, S)
             rs == Put(pc.resend, {q}, 0)
  <2>1. S \in SUBSET Node
    BY <1>1
  <2>2. Sent(pc, q, pd)
    BY <2>1, SendMsgSends
  <2>3. rs \in Partial(ReqId, Nat)
    BY <1>1, PartialPut
  <2>4. pd.resend = pc.resend
    BY DEF SendMsg, Connection
  <2>5. ev.op = "SendOne" /\ ev.req = q
    BY <1>2
  <2>6. SendRequest(pc, ev) = [pd EXCEPT !.req_cnt = @ + 1, !.resend = Put(@, {q}, 0)]
    BY <2>5 DEF SendRequest
  <2> HIDE DEF pd
  <2>7. SendRequest(pc, ev) = Noted(pd, pd.req_cnt + 1, rs)
    BY <2>4, <2>6 DEF Noted
  <2>8. pd.req_cnt + 1 \in Nat
    BY <2>2 DEF Sent, Connection
  <2> HIDE DEF rs
  <2> QED
    BY <2>2, <2>3, <2>7, <2>8, StillSent
<1>3. CASE ev \in {[op |-> "SendAll", req |-> q, nodes |-> S] : S \in SUBSET Node}
  <2>1. PICK A \in SUBSET Node : ev = [op |-> "SendAll", req |-> q, nodes |-> A]
    BY <1>3
  <2> DEFINE S == ToSet(pc.order) \cap A
             pd == SendMsg(pc, q, S)
  <2>2. S \in SUBSET Node
    OBVIOUS
  <2>3. Sent(pc, q, pd)
    BY <2>2, SendMsgSends
  <2>4. ev.op = "SendAll" /\ ev.req = q /\ ev.nodes = A
    BY <2>1
  <2>5. SendRequest(pc, ev) = [pd EXCEPT !.req_cnt = @ + 1]
    BY <2>4 DEF SendRequest
  <2> HIDE DEF pd
  <2>6. pd \in Connection /\ pd.req_cnt + 1 \in Nat /\ pd.resend \in Partial(ReqId, Nat)
    BY <2>3 DEF Sent, Connection
  <2>7. SendRequest(pc, ev) = Noted(pd, pd.req_cnt + 1, pd.resend)
    BY <2>5, <2>6 DEF Noted, Connection
  <2> QED
    BY <2>3, <2>6, <2>7, StillSent
<1>4. CASE ev = [op |-> "Resend", req |-> q]
  <2>1. ev.op = "Resend" /\ ev.req = q
    BY <1>4
  <2>2. CASE q \notin DOMAIN pc.resend
    <3>1. SendRequest(pc, ev) = pc
      BY <2>1, <2>2 DEF SendRequest
    <3>2. pc.timeouts = pc.timeouts \cup ({q} \X {})
      OBVIOUS
    <3> QED
      BY <3>1, <3>2 DEF Sent
  <2>3. CASE q \in DOMAIN pc.resend
    <3> DEFINE cnt == (pc.resend[q] + 1) % Len(pc.order)
               S == {pc.order[cnt + 1]}
               pd == SendMsg(pc, q, S)
               rs == Put(pc.resend, {q}, cnt)
    <3>1. pc.resend[q] \in Nat
      BY <1>1, <2>3, PartialIs
    <3>2. cnt \in Nat /\ cnt < Len(pc.order)
      BY <1>1, <3>1
    <3>3. SendRequest(pc, ev) = [pd EXCEPT !.resend = Put(@, {q}, cnt)]
      BY <2>1, <2>3 DEF SendRequest
    <3> HIDE DEF cnt
    <3>4. S \in SUBSET Node
      BY <1>1, <3>2
    <3>5. Sent(pc, q, pd)
      BY <3>4, SendMsgSends
    <3>6. rs \in Partial(ReqId, Nat)
      BY <1>1, <3>2, PartialPut
    <3>7. pd.resend = pc.resend
      BY DEF SendMsg, Connection
    <3> HIDE DEF pd
    <3>8. SendRequest(pc, ev) = [pd EXCEPT !.resend = rs]
      BY <3>3, <3>7
    <3> HIDE DEF rs
    <3>9. pd \in Connection /\ pd.req_cnt \in Nat
      BY <3>5 DEF Sent, Connection
    <3>10. SendRequest(pc, ev) = Noted(pd, pd.req_cnt, rs)
      BY <3>8, <3>9 DEF Noted, Connection
    <3> QED
      BY <3>5, <3>6, <3>9, <3>10, StillSent
  <2> QED
    BY <2>2, <2>3
<1> QED
  BY <1>2, <1>3, <1>4 DEF Events

----------------------------------------------------------------------------
(* The networker *)

\* The step from w to v leaves the timers of every other request alone.
Spares(w, v, q) == \A p \in ReqId \ {q} : Timers(v, p) = Timers(w, p)

\* What the types say of a connection and of a mapping.
LEMMA NetworkerIs ==
    ASSUME NEW w \in Networker
    PROVE  /\ w.conns \in Connections /\ w.mappings \in Mappings
           /\ w.nodes \in (SUBSET Node) \ {{}} /\ w.made \in 0..MaxConns
           /\ \A c \in DOMAIN w.conns :
                 /\ c \in ConnId /\ w.conns[c] \in Connection
                 /\ w.conns[c].timeouts \in SUBSET (ReqId \X Node)
           /\ \A q \in DOMAIN w.mappings : q \in ReqId /\ w.mappings[q] \in ConnId
<1>1. w.conns \in Connections /\ w.mappings \in Mappings
      /\ w.nodes \in (SUBSET Node) \ {{}} /\ w.made \in 0..MaxConns
  BY DEF Networker
<1>2. \A c \in DOMAIN w.conns : c \in ConnId /\ w.conns[c] \in Connection
  BY <1>1, PartialIs DEF Connections
<1>3. \A q \in DOMAIN w.mappings : q \in ReqId /\ w.mappings[q] \in ConnId
  BY <1>1, PartialIs DEF Mappings
<1> QED
  BY <1>1, <1>2, <1>3 DEF Connection

\* From w to v, timers of request q for nodes of S are armed on connection c,
\* which carries it from then on.
Arms(w, v, q, c, S) ==
    /\ v \in Networker
    /\ q \in DOMAIN w.mappings => w.mappings[q] = c
    /\ v.mappings = Put(w.mappings, {q}, c)
    /\ w.made <= v.made /\ c <= v.made
    /\ DOMAIN v.conns = DOMAIN w.conns \cup {c}
    /\ \A d \in DOMAIN w.conns : d # c => v.conns[d] = w.conns[d]
    /\ c \in DOMAIN w.conns => w.conns[c].timeouts \subseteq v.conns[c].timeouts
    /\ \A p \in v.conns[c].timeouts :
          p \in {q} \X S \/ (c \in DOMAIN w.conns /\ p \in w.conns[c].timeouts)

\* Such a step keeps the invariant, adds the mapping of q alone and disturbs
\* no other request.
LEMMA ArmStep ==
    ASSUME NEW w, NEW v, NEW q \in ReqId, NEW c \in ConnId, NEW S \in SUBSET Node,
           Good(w), Arms(w, v, q, c, S)
    PROVE  Good(v) /\ Spares(w, v, q) /\ DOMAIN v.mappings = DOMAIN w.mappings \cup {q}
<1> USE DEF Arms
<1>1. w \in Networker /\ Numbered(w) /\ Mapped(w)
  BY DEF Good
<1>2. /\ DOMAIN v.mappings = DOMAIN w.mappings \cup {q} /\ v.mappings[q] = c
      /\ \A y \in DOMAIN w.mappings : y # q => v.mappings[y] = w.mappings[y]
  <2>1. w.mappings \in Mappings
    BY <1>1, NetworkerIs
  <2> QED
    <3>1. Given(w.mappings, q, c, Put(w.mappings, {q}, c))
      BY <2>1, GiveMapping, Zenon
    <3> QED
      BY <3>1 DEF Given
<1>3. Numbered(v)
  <2> SUFFICES ASSUME NEW d \in DOMAIN v.conns PROVE d <= v.made
    BY DEF Numbered
  <2>1. CASE d = c
    BY <2>1
  <2>2. CASE d \in DOMAIN w.conns
    <3>1. d <= w.made /\ d \in Nat /\ w.made \in Nat /\ v.made \in Nat
      BY <1>1, <2>2, NetworkerIs, TrafficAssumption DEF Numbered, ConnId
    <3> QED
      BY <3>1
  <2> QED
    BY <2>1, <2>2
<1>4. Mapped(v)
  <2> SUFFICES ASSUME NEW d \in DOMAIN v.conns, NEW p \in v.conns[d].timeouts
               PROVE  p[1] \in DOMAIN v.mappings /\ v.mappings[p[1]] = d
    BY DEF Mapped
  <2>1. CASE d \in DOMAIN w.conns /\ p \in w.conns[d].timeouts
    <3>1. p[1] \in DOMAIN w.mappings /\ w.mappings[p[1]] = d
      BY <1>1, <2>1 DEF Mapped
    <3> QED
      BY <1>2, <3>1
  <2>2. CASE d = c /\ p \in {q} \X S
    BY <1>2, <2>2
  <2> QED
    BY <2>1, <2>2
<1>5. Spares(w, v, q)
  <2> SUFFICES ASSUME NEW p \in ReqId, p # q, NEW n \in Node
               PROVE  (\E d \in DOMAIN v.conns : <<p, n>> \in v.conns[d].timeouts)
                        <=> (\E d \in DOMAIN w.conns : <<p, n>> \in w.conns[d].timeouts)
    BY DEF Spares, Timers
  <2>1. <<p, n>> \notin {q} \X S
    OBVIOUS
  <2>2. PICK t : t = <<p, n>>
    OBVIOUS
  <2>3. t \notin {q} \X S
    BY <2>1, <2>2
  <2>4. ASSUME NEW d \in DOMAIN v.conns, t \in v.conns[d].timeouts
        PROVE  d \in DOMAIN w.conns /\ t \in w.conns[d].timeouts
    BY <2>3, <2>4
  <2>5. ASSUME NEW d \in DOMAIN w.conns, t \in w.conns[d].timeouts
        PROVE  d \in DOMAIN v.conns /\ t \in v.conns[d].timeouts
    BY <2>5
  <2> QED
    BY <2>2, <2>4, <2>5
<1> QED
  BY <1>2, <1>3, <1>4, <1>5 DEF Good

\* SendOneRequest, SendAllRequest and Resend: on the connection that carries
\* the request, on the newest one if it may be used again, or on a new one.
LEMMA SendStep ==
    ASSUME NEW w, Good(w), NEW q \in ReqId, NEW ev \in Events(q), NEW o,
           q \in DOMAIN w.mappings \/ (o \in Orders(w.nodes) /\ w.made < MaxConns)
    PROVE  /\ Good(Send(w, ev, o)) /\ Spares(w, Send(w, ev, o), q)
           /\ DOMAIN Send(w, ev, o).mappings = DOMAIN w.mappings \cup {q}
           /\ q \notin DOMAIN w.mappings =>
                 ToSet(Send(w, ev, o).conns[Send(w, ev, o).mappings[q]].order) = w.nodes
<1> DEFINE v == Send(w, ev, o)
           C == ConnectionFor(w, q)
<1>1. w \in Networker /\ Numbered(w) /\ Mapped(w)
  BY DEF Good
<1>2. ev.req = q
  BY DEF Events
<1>3. w.conns \in Connections /\ w.mappings \in Mappings /\ w.nodes \in (SUBSET Node) \ {{}}
      /\ w.made \in 0..MaxConns
  BY <1>1, NetworkerIs
<1>4. CASE C # {}
  <2>1. PICK c \in C : c = CHOOSE x \in C : TRUE
    BY <1>4
  <2>2. /\ c \in ConnId
        /\ q \in DOMAIN w.mappings => w.mappings[q] = c
        /\ q \notin DOMAIN w.mappings => c \in Reusable(w)
    BY <1>1, NetworkerIs DEF ConnectionFor, Reusable
  <2> DEFINE mp == Put(w.mappings, {q}, c)
  <2>3. mp \in Mappings /\ mp[q] = c
    <3>1. mp \in Mappings /\ Given(w.mappings, q, c, mp)
      BY <1>3, <2>2, GiveMapping, Zenon
    <3> QED
      BY <3>1 DEF Given
  <2>4. CASE c \in DOMAIN w.conns
    <3> DEFINE pd == SendRequest(w.conns[c], ev)
               cs == [w.conns EXCEPT ![c] = pd]
    <3>1. v = [w EXCEPT !.conns = cs, !.mappings = mp]
      BY <1>2, <1>4, <2>1, <2>4 DEF Send
    <3>2. w.conns[c] \in Connection
      BY <1>1, <2>4, NetworkerIs
    <3>3. Sent(w.conns[c], q, pd)
      BY <3>2, SendRequestSends
    <3>4. PICK S \in SUBSET Node : pd.timeouts = w.conns[c].timeouts \cup ({q} \X S)
      BY <3>3 DEF Sent
    <3>5. pd \in Connection /\ pd.order = w.conns[c].order
      BY <3>3 DEF Sent
    <3> HIDE DEF pd
    <3>6. /\ cs \in Connections /\ DOMAIN cs = DOMAIN w.conns /\ cs[c] = pd
          /\ \A d \in DOMAIN w.conns : d # c => cs[d] = w.conns[d]
      <4>1. cs \in Connections /\ Given(w.conns, c, pd, cs)
        BY <1>3, <2>4, <3>5, ChangeConnection, Zenon
      <4> QED
        BY <2>4, <4>1 DEF Given
    <3> HIDE DEF cs, mp
    <3>7. v \in Networker /\ v.conns = cs /\ v.mappings = mp /\ v.made = w.made
      BY <1>1, <2>3, <3>1, <3>6 DEF Networker
    <3>8. c <= w.made /\ w.made <= w.made
      BY <1>1, <1>3, <2>4 DEF Numbered
    <3>9. \A p \in pd.timeouts : p \in {q} \X S \/ p \in w.conns[c].timeouts
      BY <3>4
    <3> HIDE DEF v
    <3>10. Good(v) /\ Spares(w, v, q) /\ DOMAIN v.mappings = DOMAIN w.mappings \cup {q}
      <4>1. Arms(w, v, q, c, S)
        BY <2>2, <2>4, <3>4, <3>6, <3>7, <3>8, <3>9 DEF mp, Arms
      <4> QED
        BY <2>2, <4>1, ArmStep
    <3>11. q \notin DOMAIN w.mappings => ToSet(v.conns[v.mappings[q]].order) = w.nodes
      BY <2>2, <2>3, <3>5, <3>6, <3>7 DEF Reusable
    <3> QED
      BY <3>10, <3>11 DEF v
  <2>5. CASE c \notin DOMAIN w.conns
    <3>1. v = [w EXCEPT !.conns = @, !.mappings = mp]
      BY <1>2, <1>4, <2>1, <2>5 DEF Send
    <3>2. q \in DOMAIN w.mappings /\ w.mappings[q] = c
      BY <2>2, <2>5 DEF Reusable
    <3> HIDE DEF mp
    <3>3. v \in Networker /\ v.conns = w.conns /\ v.mappings = mp /\ v.made = w.made
      BY <1>1, <2>3, <3>1 DEF Networker
    <3> HIDE DEF v
    <3>4. /\ DOMAIN v.mappings = DOMAIN w.mappings \cup {q}
          /\ \A y \in DOMAIN w.mappings : v.mappings[y] = w.mappings[y]
      <4>1. Given(w.mappings, q, c, mp)
        BY <1>3, <2>2, GiveMapping, Zenon DEF mp
      <4> QED
        BY <3>2, <3>3, <4>1 DEF Given
    <3>5. Good(v)
      BY <1>1, <3>3, <3>4 DEF Good, Numbered, Mapped
    <3>6. Spares(w, v, q)
      BY <3>3 DEF Spares, Timers
    <3> QED
      BY <3>2, <3>4, <3>5, <3>6 DEF v
  <2> QED
    BY <2>4, <2>5
<1>5. CASE C = {}
  <2> DEFINE id == w.made + 1
             pc == ConnectionNew(o)
             pd == SendRequest(pc, ev)
             cs == Put(w.conns, {id}, pd)
             mp == Put(w.mappings, {q}, id)
  <2>1. q \notin DOMAIN w.mappings /\ o \in Orders(w.nodes) /\ w.made < MaxConns
    BY <1>5 DEF ConnectionFor
  <2>2. o \in Seq(Node) \ {<<>>} /\ ToSet(o) = w.nodes
    BY <1>3, <2>1, OrderIs
  <2>3. Empty \in Partial(ReqId, Nat)
    BY PartialIs DEF Empty
  <2>4. pc \in Connection /\ pc.order = o /\ pc.timeouts = {}
    BY <2>2, <2>3 DEF ConnectionNew, Connection
  <2>5. v = [w EXCEPT !.conns = cs, !.mappings = mp, !.made = id]
    BY <1>2, <1>5 DEF Send
  <2> HIDE DEF pc
  <2>6. Sent(pc, q, pd)
    BY <2>4, SendRequestSends
  <2>7. PICK S \in SUBSET Node : pd.timeouts = pc.timeouts \cup ({q} \X S)
    BY <2>6 DEF Sent
  <2>8. pd \in Connection /\ pd.order = o
    BY <2>4, <2>6 DEF Sent
  <2>9. id \in ConnId /\ id \in 0..MaxConns /\ w.made <= id
    BY <1>3, <2>1, TrafficAssumption DEF ConnId
  <2>10. id \notin DOMAIN w.conns
    BY <1>1, <1>3, NetworkerIs DEF Numbered
  <2> HIDE DEF pd, id
  <2>11. /\ cs \in Connections /\ DOMAIN cs = DOMAIN w.conns \cup {id} /\ cs[id] = pd
         /\ \A d \in DOMAIN w.conns : d # id => cs[d] = w.conns[d]
    <3>1. cs \in Connections /\ Given(w.conns, id, pd, cs)
      BY <1>3, <2>8, <2>9, GiveConnection, Zenon
    <3> QED
      BY <3>1 DEF Given
  <2>12. mp \in Mappings /\ mp[q] = id
    <3>1. mp \in Mappings /\ Given(w.mappings, q, id, mp)
      BY <1>3, <2>9, GiveMapping, Zenon
    <3> QED
      BY <3>1 DEF Given
  <2> HIDE DEF cs, mp
  <2>13. v \in Networker /\ v.conns = cs /\ v.mappings = mp /\ v.made = id
    BY <1>1, <2>5, <2>9, <2>11, <2>12 DEF Networker
  <2>14. \A p \in pd.timeouts : p \in {q} \X S
    BY <2>4, <2>7
  <2> HIDE DEF v
  <2>15. Good(v) /\ Spares(w, v, q) /\ DOMAIN v.mappings = DOMAIN w.mappings \cup {q}
    <3>1. id <= id
      BY <2>9
    <3>2. Arms(w, v, q, id, S)
      BY <2>1, <2>9, <2>10, <2>11, <2>13, <2>14, <3>1 DEF mp, Arms
    <3> QED
      BY <2>9, <3>2, ArmStep
  <2>16. ToSet(v.conns[v.mappings[q]].order) = w.nodes
    BY <2>2, <2>8, <2>11, <2>12, <2>13
  <2> QED
    BY <2>15, <2>16 DEF v
<1> QED
  BY <1>4, <1>5

\* From w to v only timers of request q go, with connections that have none
\* left, and its mapping only after all of its timers.
Disarms(w, v, q) ==
    /\ v \in Networker /\ v.made = w.made
    /\ \A x \in DOMAIN v.mappings : x \in DOMAIN w.mappings /\ v.mappings[x] = w.mappings[x]
    /\ \A x \in DOMAIN w.mappings : x # q => x \in DOMAIN v.mappings
    /\ \A c \in DOMAIN v.conns :
          c \in DOMAIN w.conns /\ v.conns[c].timeouts \subseteq w.conns[c].timeouts
    /\ \A c \in DOMAIN w.conns : \A p \in w.conns[c].timeouts :
          p[1] # q => c \in DOMAIN v.conns /\ p \in v.conns[c].timeouts
    /\ q \notin DOMAIN v.mappings =>
          \A c \in DOMAIN v.conns : \A p \in v.conns[c].timeouts : p[1] # q

\* Such a step keeps the invariant, maps no new request and disturbs no other.
LEMMA DisarmStep ==
    ASSUME NEW w, NEW v, NEW q \in ReqId, Good(w), Disarms(w, v, q)
    PROVE  Good(v) /\ Spares(w, v, q) /\ DOMAIN v.mappings \subseteq DOMAIN w.mappings
<1> USE DEF Disarms
<1>1. w \in Networker /\ Numbered(w) /\ Mapped(w)
  BY DEF Good
<1>2. Numbered(v)
  BY <1>1 DEF Numbered
<1>3. Mapped(v)
  <2> SUFFICES ASSUME NEW d \in DOMAIN v.conns, NEW p \in v.conns[d].timeouts
               PROVE  p[1] \in DOMAIN v.mappings /\ v.mappings[p[1]] = d
    BY DEF Mapped
  <2>1. d \in DOMAIN w.conns /\ p \in w.conns[d].timeouts
    OBVIOUS
  <2>2. p[1] \in DOMAIN w.mappings /\ w.mappings[p[1]] = d
    BY <1>1, <2>1 DEF Mapped
  <2>3. p[1] \in DOMAIN v.mappings
    BY <2>2
  <2> QED
    BY <2>2, <2>3
<1>4. Spares(w, v, q)
  <2> SUFFICES ASSUME NEW p \in ReqId, p # q, NEW n \in Node
               PROVE  (\E d \in DOMAIN v.conns : <<p, n>> \in v.conns[d].timeouts)
                        <=> (\E d \in DOMAIN w.conns : <<p, n>> \in w.conns[d].timeouts)
    BY DEF Spares, Timers
  <2>1. PICK t : t = <<p, n>>
    OBVIOUS
  <2>2. t[1] # q
    BY <2>1
  <2>3. (\E d \in DOMAIN v.conns : t \in v.conns[d].timeouts)
           <=> (\E d \in DOMAIN w.conns : t \in w.conns[d].timeouts)
    BY <2>2
  <2> QED
    BY <2>1, <2>3
<1> QED
  BY <1>2, <1>3, <1>4 DEF Good

\* Only connections without timers are removed as orphans.
Shrinks(w, v) ==
    /\ v \in Networker /\ v.made = w.made /\ v.mappings = w.mappings
    /\ \A c \in DOMAIN v.conns : c \in DOMAIN w.conns /\ v.conns[c] = w.conns[c]
    /\ \A c \in DOMAIN w.conns : w.conns[c].timeouts # {} => c \in DOMAIN v.conns

\* RemoveOrphans removes nothing else.
LEMMA OrphansStep ==
    ASSUME NEW w \in Networker, NEW S
    PROVE  Shrinks(w, RemoveOrphans(w, S))
<1> DEFINE gone == {c \in S \cap DOMAIN w.conns : IsOrphaned(w.conns[c])}
           cs == Drop(w.conns, gone)
           v == RemoveOrphans(w, S)
<1>1. w.conns \in Connections
  BY NetworkerIs
<1>2. v = [w EXCEPT !.conns = cs]
  BY DEF RemoveOrphans
<1>3. \A c \in gone : w.conns[c].timeouts = {}
  BY DEF IsOrphaned, HasActiveRequests
<1> HIDE DEF gone
<1>4. /\ cs \in Connections /\ DOMAIN cs = DOMAIN w.conns \ gone
      /\ \A c \in DOMAIN w.conns \ gone : cs[c] = w.conns[c]
  <2>1. cs \in Connections /\ Taken(w.conns, gone, cs)
    BY <1>1, DropConnections, Zenon
  <2> QED
    BY <2>1 DEF Taken
<1> HIDE DEF cs
<1>5. v \in Networker /\ v.conns = cs /\ v.made = w.made /\ v.mappings = w.mappings
  BY <1>2, <1>4 DEF Networker
<1> HIDE DEF v
<1>6. Shrinks(w, v)
  BY <1>3, <1>4, <1>5 DEF Shrinks
<1> QED
  BY <1>6 DEF v

\* CleanTimeout, for one node or for the request as a whole.
LEMMA CleanStep ==
    ASSUME NEW w, Good(w), NEW q \in DOMAIN w.mappings, NEW n \in Node \cup {None}
    PROVE  Disarms(w, CleanTimeout(w, q, n), q)
<1> DEFINE c == w.mappings[q]
           S == IF n \in Node THEN {n} ELSE Node
           pd == ConnCleanTimeout(w.conns[c], q, S)
           cs == [w.conns EXCEPT ![c] = pd]
           x == [w EXCEPT !.conns = cs]
           y == IF c \in DOMAIN w.conns THEN RemoveOrphans(x, {c}) ELSE w
           v == IF n \in Node THEN y ELSE [y EXCEPT !.mappings = Drop(@, {q})]
<1>1. w \in Networker /\ Numbered(w) /\ Mapped(w)
  BY DEF Good
<1>2. w.conns \in Connections /\ w.mappings \in Mappings /\ q \in ReqId /\ S \in SUBSET Node
      /\ \A d \in DOMAIN w.conns : w.conns[d].timeouts \in SUBSET (ReqId \X Node)
  BY <1>1, NetworkerIs
<1>3. CleanTimeout(w, q, n) = v
  BY DEF CleanTimeout
<1> DEFINE Cleaned(u) ==
        /\ u \in Networker /\ u.made = w.made /\ u.mappings = w.mappings
        /\ \A d \in DOMAIN u.conns :
              d \in DOMAIN w.conns /\ u.conns[d].timeouts \subseteq w.conns[d].timeouts
        /\ \A d \in DOMAIN w.conns : \A p \in w.conns[d].timeouts :
              p[1] # q => d \in DOMAIN u.conns /\ p \in u.conns[d].timeouts
        /\ c \in DOMAIN u.conns => \A p \in u.conns[c].timeouts : p \notin {q} \X S
<1>4. Cleaned(y)
  <2>1. CASE c \notin DOMAIN w.conns
    BY <1>1, <2>1
  <2>2. CASE c \in DOMAIN w.conns
    <3>1. w.conns[c] \in Connection
      BY <1>1, <2>2, NetworkerIs
    <3>2. pd \in Connection /\ pd.timeouts = w.conns[c].timeouts \ ({q} \X S)
      BY <3>1 DEF ConnCleanTimeout, Connection
    <3> HIDE DEF pd, c, S
    <3>3. cs \in Connections /\ Given(w.conns, c, pd, cs)
      BY <1>2, <2>2, <3>2, ChangeConnection, Zenon
    <3> HIDE DEF cs
    <3>4. x \in Networker /\ x.conns = cs /\ x.made = w.made /\ x.mappings = w.mappings
      BY <1>1, <3>3 DEF Networker
    <3> HIDE DEF x
    <3>5. y = RemoveOrphans(x, {c}) /\ Shrinks(x, y)
      BY <2>2, <3>4, OrphansStep
    <3> HIDE DEF y
    <3>6. y \in Networker /\ y.made = w.made /\ y.mappings = w.mappings
      BY <3>4, <3>5 DEF Shrinks
    <3>7. \A d \in DOMAIN w.conns : cs[d].timeouts \subseteq w.conns[d].timeouts
      BY <3>2, <3>3 DEF Given
    <3>8. DOMAIN cs = DOMAIN w.conns
      BY <2>2, <3>3 DEF Given
    <3>9. \A d \in DOMAIN y.conns : d \in DOMAIN w.conns /\ y.conns[d] = cs[d]
      BY <3>4, <3>5, <3>8 DEF Shrinks
    <3>10. ASSUME NEW d \in DOMAIN w.conns, NEW p \in w.conns[d].timeouts, p[1] # q
           PROVE  d \in DOMAIN y.conns /\ p \in y.conns[d].timeouts
      <4>1. p \in cs[d].timeouts
        BY <3>2, <3>3, <3>10 DEF Given
      <4> QED
        BY <3>4, <3>5, <3>8, <4>1 DEF Shrinks
    <3>11. ASSUME c \in DOMAIN y.conns
           PROVE  \A p \in y.conns[c].timeouts : p \notin {q} \X S
      BY <3>2, <3>3, <3>9, <3>11 DEF Given
    <3> QED
      BY <3>6, <3>7, <3>9, <3>10, <3>11
  <2> QED
    BY <2>1, <2>2
<1> HIDE DEF y
<1>5. CASE n \in Node
  <2>1. v = y
    BY <1>5
  <2> HIDE DEF v
  <2> QED
    BY <1>3, <1>4, <2>1 DEF Disarms
<1>6. CASE n \notin Node
  <2> DEFINE mp == Drop(w.mappings, {q})
  <2>1. v = [y EXCEPT !.mappings = mp] /\ S = Node
    BY <1>4, <1>6
  <2>2. /\ mp \in Mappings /\ DOMAIN mp = DOMAIN w.mappings \ {q}
        /\ \A a \in DOMAIN w.mappings \ {q} : mp[a] = w.mappings[a]
    <3>1. mp \in Mappings /\ Taken(w.mappings, {q}, mp)
      BY <1>2, DropMapping, Zenon
    <3> QED
      BY <3>1 DEF Taken
  <2> HIDE DEF mp, v
  <2>3. v \in Networker /\ v.conns = y.conns /\ v.made = w.made /\ v.mappings = mp
    BY <1>4, <2>1, <2>2 DEF Networker
  <2>4. ASSUME NEW d \in DOMAIN y.conns, NEW p \in y.conns[d].timeouts, p[1] = q
        PROVE  FALSE
    <3>1. d \in DOMAIN w.conns /\ p \in w.conns[d].timeouts
      BY <1>4
    <3>2. d = c
      BY <1>1, <2>4, <3>1 DEF Mapped
    <3>3. p \in ReqId \X Node
      BY <1>2, <3>1
    <3>4. p \in {q} \X Node
      BY <2>4, <3>3
    <3> QED
      BY <1>4, <2>1, <3>2, <3>4
  <2>5. Disarms(w, v, q)
    BY <1>4, <2>2, <2>3, <2>4 DEF Disarms
  <2> QED
    BY <1>3, <2>5
<1> QED
  BY <1>5, <1>6

----------------------------------------------------------------------------
(* The invariant is inductive *)

\* A step from w to v about request q: it keeps the invariant, spares the
\* timers of the others, and asks the nodes of the pool as it is if q is new.
Takes(w, v, q) ==
    /\ Good(v) /\ Spares(w, v, q)
    /\ \A r \in DOMAIN v.mappings \ DOMAIN w.mappings :
          ToSet(v.conns[v.mappings[r]].order) = w.nodes

\* Every send is such a step.
LEMMA SendTakes ==
    ASSUME NEW w, Good(w), NEW q \in ReqId, NEW ev \in Events(q), NEW o,
           q \in DOMAIN w.mappings \/ (o \in Orders(w.nodes) /\ w.made < MaxConns)
    PROVE  Takes(w, Send(w, ev, o), q)
<1>1. PICK v : v = Send(w, ev, o)
  OBVIOUS
<1>2. /\ Good(v) /\ Spares(w, v, q)
      /\ DOMAIN v.mappings = DOMAIN w.mappings \cup {q}
      /\ q \notin DOMAIN w.mappings => ToSet(v.conns[v.mappings[q]].order) = w.nodes
  BY <1>1, SendStep
<1>3. Takes(w, v, q)
  BY <1>2 DEF Takes
<1> QED
  BY <1>1, <1>3

\* Whatever only disarms timers of q is such a step.
LEMMA DisarmTakes ==
    ASSUME NEW w, NEW v, NEW q \in ReqId, Good(w), Disarms(w, v, q)
    PROVE  Takes(w, v, q)
BY DisarmStep DEF Takes

\* So is a change of nothing but the nodes, the sockets, the counters or the
\* active time, whatever the request.
LEMMA QuietTakes ==
    ASSUME NEW w, NEW v, NEW q, Good(w), v \in Networker, v.made = w.made,
           v.mappings = w.mappings, DOMAIN v.conns = DOMAIN w.conns,
           \A c \in DOMAIN w.conns : v.conns[c].timeouts = w.conns[c].timeouts
    PROVE  Takes(w, v, q)
<1>1. Good(v)
  BY DEF Good, Numbered, Mapped
<1>2. Spares(w, v, q)
  BY DEF Spares, Timers
<1> QED
  BY <1>1, <1>2 DEF Takes

\* The networker starts without connections.
LEMMA InitNetworker == NetworkerInit => NetworkerInv
<1> SUFFICES ASSUME NEW S \in (SUBSET Node) \ {{}}, net = NetworkerNew(S)
             PROVE  Good(net)
  BY DEF NetworkerInit, NetworkerInv
<1>1. Empty \in Connections /\ Empty \in Mappings /\ DOMAIN Empty = {}
  BY PartialIs DEF Empty, Connections, Mappings
<1>2. 0 \in 0..MaxConns
  BY TrafficAssumption
<1> HIDE DEF Empty
<1>3. net \in Networker
  BY <1>1, <1>2 DEF NetworkerNew, Networker
<1>4. DOMAIN net.conns = {}
  BY <1>1 DEF NetworkerNew
<1> QED
  BY <1>3, <1>4 DEF Good, Numbered, Mapped

\* Every step of the networker is about one request.
LEMMA NextTakes ==
    ASSUME NetworkerInv, NetworkerNext
    PROVE  \E q \in ReqId : Takes(net, net', q)
<1>1. Good(net) /\ net \in Networker
  BY DEF NetworkerInv, Good
<1>2. \A d \in DOMAIN net.conns : d \in ConnId /\ net.conns[d] \in Connection
  BY <1>1, NetworkerIs
<1>3. PICK any \in ReqId : TRUE
  BY NetworkerAssumption
<1>4. ASSUME NEW q \in ReqId, SendOne(q)
      PROVE  Takes(net, net', q)
  <2>1. PICK o \in Orders(net.nodes) : net' = Send(net, [op |-> "SendOne", req |-> q], o)
    BY <1>4 DEF SendOne
  <2>2. [op |-> "SendOne", req |-> q] \in Events(q)
    BY DEF Events
  <2>3. net.made < MaxConns
    BY <1>4 DEF SendOne
  <2> QED
    BY <1>1, <2>1, <2>2, <2>3, SendTakes
<1>5. ASSUME NEW q \in ReqId, NEW S \in (SUBSET Node) \ {{}}, SendAll(q, S)
      PROVE  Takes(net, net', q)
  <2>1. PICK o \in Orders(net.nodes) :
           net' = Send(net, [op |-> "SendAll", req |-> q, nodes |-> S], o)
    BY <1>5 DEF SendAll
  <2>2. [op |-> "SendAll", req |-> q, nodes |-> S] \in Events(q)
    BY DEF Events
  <2>3. net.made < MaxConns
    BY <1>5 DEF SendAll
  <2> QED
    BY <1>1, <2>1, <2>2, <2>3, SendTakes
<1>6. ASSUME NEW q \in ReqId, Resend(q)
      PROVE  Takes(net, net', q)
  <2>1. q \in DOMAIN net.mappings /\ net' = Send(net, [op |-> "Resend", req |-> q], <<>>)
    BY <1>6 DEF Resend, Live
  <2>2. [op |-> "Resend", req |-> q] \in Events(q)
    BY DEF Events
  <2> QED
    BY <1>1, <2>1, <2>2, SendTakes
<1>7. ASSUME NEW q \in ReqId, Finish(q)
      PROVE  Takes(net, net', q)
  <2>1. q \in DOMAIN net.mappings /\ net' = CleanTimeout(net, q, None)
    BY <1>7 DEF Finish, Live
  <2>2. Disarms(net, net', q)
    BY <1>1, <2>1, CleanStep
  <2> QED
    BY <1>1, <2>2, DisarmTakes
<1>8. ASSUME NEW q \in ReqId, NEW n \in Node, Clean(q, n)
      PROVE  Takes(net, net', q)
  <2>1. q \in DOMAIN net.mappings /\ net' = CleanTimeout(net, q, n)
    BY <1>8 DEF Clean, Live
  <2>2. Disarms(net, net', q)
    BY <1>1, <2>1, CleanStep
  <2> QED
    BY <1>1, <2>2, DisarmTakes
<1>9. ASSUME NEW q \in ReqId, NEW n \in Node, ReqAck(q, n)
      PROVE  Takes(net, net', q)
  <2>1. net' = net
    <3>1. net' = ExtendTimeout(net, q, n)
      BY <1>9 DEF ReqAck
    <3>2. ASSUME NEW c \in DOMAIN net.conns
          PROVE  [net EXCEPT !.conns[c] = net.conns[c]] = net
      <4> DEFINE cs == [net.conns EXCEPT ![c] = net.conns[c]]
      <4>1. net.conns \in Connections
        BY <1>1, NetworkerIs
      <4>2. net.conns \in [DOMAIN net.conns -> Connection]
        BY <4>1, PartialIs DEF Connections
      <4>3. cs = net.conns
        BY <4>2
      <4>4. [net EXCEPT !.conns = net.conns] = net
        BY <1>1 DEF Networker
      <4> QED
        BY <4>3, <4>4
    <3> QED
      BY <3>1, <3>2 DEF ExtendTimeout, ConnExtendTimeout
  <2> QED
    BY <1>1, <2>1, QuietTakes
<1>10. ASSUME NEW S \in (SUBSET Node) \ {{}}, Update(S)
       PROVE  Takes(net, net', any)
  <2>1. net' \in Networker /\ net'.conns = net.conns /\ net'.mappings = net.mappings
        /\ net'.made = net.made
    BY <1>1, <1>10 DEF Update, NodesStateUpdated, Networker
  <2> QED
    BY <1>1, <2>1, QuietTakes
<1>11. ASSUME NEW c \in DOMAIN net.conns, Expire(c)
       PROVE  Takes(net, net', any)
  <2> DEFINE pd == [net.conns[c] EXCEPT !.active = FALSE]
             cs == [net.conns EXCEPT ![c] = pd]
  <2>1. net' = [net EXCEPT !.conns = cs]
    BY <1>11 DEF Expire
  <2>2. pd \in Connection /\ pd.timeouts = net.conns[c].timeouts
    BY <1>2 DEF Connection
  <2>3. net.conns \in Connections
    BY <1>1, NetworkerIs
  <2> HIDE DEF pd
  <2>4. cs \in Connections /\ Given(net.conns, c, pd, cs)
    BY <2>2, <2>3, ChangeConnection, Zenon
  <2> HIDE DEF cs
  <2>5. net' \in Networker /\ net'.conns = cs /\ net'.mappings = net.mappings
        /\ net'.made = net.made
    BY <1>1, <2>1, <2>4 DEF Networker
  <2>6. /\ DOMAIN cs = DOMAIN net.conns
        /\ \A d \in DOMAIN net.conns : cs[d].timeouts = net.conns[d].timeouts
    BY <2>2, <2>4 DEF Given
  <2> QED
    BY <1>1, <2>5, <2>6, QuietTakes
<1>12. ASSUME IdleEvent
       PROVE  Takes(net, net', any)
  <2>1. net' = RemoveOrphans(net, DOMAIN net.conns)
    BY <1>12, Zenon DEF IdleEvent, IdleTimeout
  <2>2. Shrinks(net, net')
    BY <1>1, <2>1, OrphansStep
  <2>3. Disarms(net, net', any)
    <3>1. any \notin DOMAIN net'.mappings =>
             \A c \in DOMAIN net'.conns : \A p \in net'.conns[c].timeouts : p[1] # any
      BY <1>1, <2>2 DEF Shrinks, Good, Mapped
    <3> QED
      BY <2>2, <3>1 DEF Shrinks, Disarms
  <2> QED
    BY <1>1, <2>3, DisarmTakes
<1> QED
  BY <1>3, <1>4, <1>5, <1>6, <1>7, <1>8, <1>9, <1>10, <1>11, <1>12, Zenon DEF NetworkerNext

\* A step that leaves the networker alone keeps the invariant.
LEMMA NextNetworker == NetworkerInv /\ [NetworkerNext]_net => NetworkerInv'
<1>1. ASSUME NetworkerInv, NetworkerNext PROVE NetworkerInv'
  BY <1>1, NextTakes DEF Takes, NetworkerInv
<1>2. ASSUME NetworkerInv, UNCHANGED net PROVE NetworkerInv'
  BY <1>2 DEF NetworkerInv
<1> QED
  BY <1>1, <1>2

\* The invariant holds throughout.
LEMMA NetworkerInductive == NetworkerSpec => []NetworkerInv
BY InitNetworker, NextNetworker, PTL DEF NetworkerSpec

----------------------------------------------------------------------------
(* The theorems *)

\* Every timer that is armed belongs to a request under way and sits on the
\* connection CleanTimeout looks at, so no timer fires for ever: an update of
\* the nodes, a shared connection or a resend leaves none behind.
THEOREM NoTimerOutOfReach == NetworkerSpec => []TimersCleanable
<1>1. NetworkerInv => TimersCleanable
  BY DEF NetworkerInv, Good, Mapped, TimersCleanable, Live
<1> QED
  BY <1>1, NetworkerInductive, PTL

\* A request that is new is sent on a connection to exactly the nodes of the
\* pool as it is at that moment, whatever connections are left from before.
THEOREM NewRequestsReachThePool == NetworkerSpec => CurrentNodesAsked
<1>1. ASSUME NetworkerInv, [NetworkerNext]_net
      PROVE  [\A r \in (DOMAIN net.mappings') \ Live :
                 ToSet(net.conns'[net.mappings'[r]].order) = net.nodes]_net
  <2>1. CASE NetworkerNext
    BY <1>1, <2>1, NextTakes DEF Takes, Live
  <2>2. CASE UNCHANGED net
    BY <2>2
  <2> QED
    BY <1>1, <2>1, <2>2
<1> QED
  BY <1>1, NetworkerInductive, PTL DEF NetworkerSpec, CurrentNodesAsked

\* A step of the networker concerns one request: the timers of every other,
\* on the same connection or not, stay as they are.
THEOREM RequestsStayApart == NetworkerSpec => OthersUndisturbed
<1>1. ASSUME NetworkerInv, [NetworkerNext]_net
      PROVE  [\E r \in ReqId : \A q \in ReqId \ {r} : Timers(net', q) = Timers(net, q)]_net
  <2>1. CASE NetworkerNext
    BY <1>1, <2>1, NextTakes, Zenon DEF Takes, Spares
  <2>2. CASE UNCHANGED net
    BY <2>2
  <2> QED
    BY <1>1, <2>1, <2>2
<1> QED
  BY <1>1, NetworkerInductive, PTL DEF NetworkerSpec, OthersUndisturbed

----------------------------------------------------------------------------
(* The life of a pool: the inductive invariant *)

\* What a command in an inbox asks for, named like the answer to it.
Asks(c) ==
    <<CASE c.op = "connect" -> "open"
        [] c.op = "refresh" -> "refresh"
        [] c.op = "exit"    -> "close"
        [] OTHER            -> "submit", c.id>>

\* A pool reads the commands of its inbox up to the first exit.
Readable(box, i) == i \in 1..Len(box) /\ \A j \in 1..(i - 1) : box[j].op # "exit"

\* The calls that the commands of an inbox ask for, and that none does twice.
Queued(box) == {Asks(box[i]) : i \in {j \in 1..Len(box) : Readable(box, j)}}
AskedOnce(box) ==
    \A i, j \in 1..Len(box) :
        Readable(box, i) /\ Readable(box, j) /\ Asks(box[i]) = Asks(box[j]) => i = j

\* The calls a pool holds: the opening or the refresh of a catch-up, and the
\* requests no one has answered.
Syncing(p) ==
    IF p.st \in {"GettingCatchupTarget", "SyncCatchup"} THEN {Call(AckOf(p, TRUE))} ELSE {}
Pending(p) == {<<"submit", p.handlers[r].cmd>> : r \in Unanswered(p)}

\* The calls that a pool has yet to answer.
Owed(p) == IF p.st = "Closed" THEN {} ELSE Queued(p.inbox) \cup Syncing(p) \cup Pending(p)

Commanded == [op : {"connect", "refresh", "exit"} \cup Req, id : Nat]
Handler   == [cmd : Nat, done : BOOLEAN]
Handlers  == {f \in Partial(Req, Handler) : IsFiniteSet(DOMAIN f)}
Answer    == [kind : {"open", "refresh", "submit", "close"}, id : Nat, ok : BOOLEAN]
State     == {"Initialization", "GettingCatchupTarget", "SyncCatchup", "Active",
              "Terminated", "Closed"}

TimerOf   == Req \cup {StatusTimer}

PoolRecord ==
    [name : Name, reg : {"pending", "open", "gone"}, st : State, cmd : Nat, refresh : BOOLEAN,
     inbox : Seq(Commanded), handlers : Handlers, timers : Seq(TimerOf)]

Distinct(s) == \A i, j \in 1..Len(s) : s[i] = s[j] => i = j

\* Only an Active pool has requests, and a refresh comes after the opening.
Phased(p) ==
    /\ p.st # "Active" => DOMAIN p.handlers = {}
    /\ p.st = "Initialization" => ~p.refresh

\* No request has two timers, and one that is answered has none.
Timed(p) ==
    /\ Distinct(p.timers)
    /\ \A r \in DOMAIN p.handlers :
          p.handlers[r].done => \A i \in 1..Len(p.timers) : p.timers[i] # r

\* A pool owes each call one answer.
OwedOnce(p) ==
    /\ AskedOnce(p.inbox)
    /\ Queued(p.inbox) \cap (Syncing(p) \cup Pending(p)) = {}
    /\ \A r, q \in Unanswered(p) : p.handlers[r].cmd = p.handlers[q].cmd => r = q

Sound(p) ==
    /\ p \in PoolRecord
    /\ Phased(p) /\ Timed(p)
    /\ p.st # "Closed" => OwedOnce(p)

\* Every answer in a sequence is to another call.
AnswersOnce(s) == \A i, j \in 1..Len(s) : Call(s[i]) = Call(s[j]) => i = j
Answered(s) == {Call(s[i]) : i \in 1..Len(s)}

\* The calls with a callback, and the one that gets it when the join is over.
Closing == IF Idle THEN {} ELSE {<<"close", joining[2]>>}
Called  == callbacks \cup Closing

\* The calls whose ids were given out.
GivenOut == ({"open"} \X (1..Len(pools))) \cup ({"refresh", "submit", "close"} \X (1..calls))

LifeInv ==
    /\ calls \in Nat /\ acks \in Seq(Answer) /\ pools \in Seq(PoolRecord)
    /\ \A h \in Handles : Sound(pools[h])
    /\ Called \subseteq GivenOut
    /\ Closing \cap callbacks = {}
    /\ Answered(acks) \subseteq Called
    /\ \A h \in Handles : Owed(pools[h]) \subseteq Called
    /\ AnswersOnce(acks)
    /\ \A h \in Handles : Owed(pools[h]) \cap Answered(acks) = {}
    /\ \A g, h \in Handles : g # h => Owed(pools[g]) \cap Owed(pools[h]) = {}

----------------------------------------------------------------------------
(* Inboxes, timers and answers *)

\* A command that is read asks for a call no command left behind asks for.
LEMMA ReadOnce ==
    ASSUME NEW box \in Seq(Commanded), box # <<>>, AskedOnce(box)
    PROVE  /\ Head(box) \in Commanded /\ Tail(box) \in Seq(Commanded)
           /\ Asks(Head(box)) \in Queued(box)
           /\ Head(box).op # "exit" =>
                /\ AskedOnce(Tail(box))
                /\ Queued(Tail(box)) \subseteq Queued(box) \ {Asks(Head(box))}
<1>1. /\ Head(box) \in Commanded /\ Tail(box) \in Seq(Commanded)
      /\ Len(box) \in Nat \ {0}
      /\ Len(Tail(box)) = Len(box) - 1
      /\ \A i \in 1..Len(Tail(box)) : Tail(box)[i] = box[i + 1]
      /\ Head(box) = box[1]
  BY HeadTailProperties, LenProperties, EmptySeq
<1>2. Readable(box, 1)
  BY <1>1 DEF Readable
<1>3. Asks(Head(box)) \in Queued(box)
  BY <1>1, <1>2 DEF Queued
<1>4. ASSUME Head(box).op # "exit", NEW i \in 1..Len(Tail(box)), Readable(Tail(box), i)
      PROVE  i + 1 \in 1..Len(box) /\ Readable(box, i + 1)
  <2>1. i + 1 \in 1..Len(box)
    BY <1>1
  <2>2. ASSUME NEW j \in 1..i
        PROVE  box[j].op # "exit"
    <3>1. CASE j = 1
      BY <1>1, <1>4, <3>1
    <3>2. CASE j # 1
      <4>1. j - 1 \in 1..(i - 1) /\ j - 1 \in 1..Len(Tail(box))
        BY <1>1, <3>2
      <4>2. Tail(box)[j - 1].op # "exit"
        BY <1>4, <4>1 DEF Readable
      <4>3. Tail(box)[j - 1] = box[j]
        BY <1>1, <4>1
      <4> QED
        BY <4>2, <4>3
    <3> QED
      BY <3>1, <3>2
  <2> QED
    BY <1>1, <2>1, <2>2 DEF Readable
<1>5. ASSUME Head(box).op # "exit"
      PROVE  AskedOnce(Tail(box))
  <2> SUFFICES ASSUME NEW i \in 1..Len(Tail(box)), NEW j \in 1..Len(Tail(box)),
                      Readable(Tail(box), i), Readable(Tail(box), j),
                      Asks(Tail(box)[i]) = Asks(Tail(box)[j])
               PROVE  i = j
    BY DEF AskedOnce
  <2>1. /\ i + 1 \in 1..Len(box) /\ Readable(box, i + 1)
        /\ j + 1 \in 1..Len(box) /\ Readable(box, j + 1)
    BY <1>4, <1>5
  <2>2. Asks(box[i + 1]) = Asks(box[j + 1])
    BY <1>1
  <2>3. i + 1 = j + 1
    BY <2>1, <2>2 DEF AskedOnce
  <2> QED
    BY <2>3, <1>1
<1>6. ASSUME Head(box).op # "exit", NEW c \in Queued(Tail(box))
      PROVE  c \in Queued(box) \ {Asks(Head(box))}
  <2>1. PICK i \in 1..Len(Tail(box)) : Readable(Tail(box), i) /\ c = Asks(Tail(box)[i])
    BY <1>6 DEF Queued
  <2>2. i + 1 \in 1..Len(box) /\ Readable(box, i + 1) /\ c = Asks(box[i + 1])
    BY <1>1, <1>4, <1>6, <2>1
  <2>3. c \in Queued(box)
    BY <2>2 DEF Queued
  <2>4. c # Asks(box[1])
    <3>1. 1 \in 1..Len(box) /\ i + 1 # 1
      BY <1>1
    <3> QED
      BY <3>1, <1>2, <2>2 DEF AskedOnce
  <2> QED
    BY <2>3, <2>4, <1>1
<1> QED
  BY <1>1, <1>3, <1>5, <1>6

\* A command is added behind an inbox: it asks for one more call, at most.
LEMMA QueueOne ==
    ASSUME NEW box \in Seq(Commanded), NEW c \in Commanded, AskedOnce(box),
           Asks(c) \notin Queued(box)
    PROVE  /\ Append(box, c) \in Seq(Commanded)
           /\ AskedOnce(Append(box, c))
           /\ Queued(Append(box, c)) \subseteq Queued(box) \cup {Asks(c)}
<1> DEFINE new == Append(box, c)
<1>1. /\ new \in Seq(Commanded) /\ Len(new) = Len(box) + 1 /\ Len(box) \in Nat
      /\ \A i \in 1..Len(box) : new[i] = box[i]
      /\ new[Len(box) + 1] = c
  BY AppendProperties, LenProperties
<1> HIDE DEF new
<1>2. ASSUME NEW i \in 1..Len(new), Readable(new, i), i # Len(new)
      PROVE  i \in 1..Len(box) /\ Readable(box, i) /\ new[i] = box[i]
  BY <1>1, <1>2 DEF Readable
<1>3. ASSUME NEW i \in 1..Len(new), Readable(new, i)
      PROVE  i # Len(new) => Asks(new[i]) \in Queued(box)
  BY <1>2, <1>3 DEF Queued
<1>4. AskedOnce(new)
  <2> SUFFICES ASSUME NEW i \in 1..Len(new), NEW j \in 1..Len(new),
                      Readable(new, i), Readable(new, j), Asks(new[i]) = Asks(new[j])
               PROVE  i = j
    BY DEF AskedOnce
  <2>1. CASE i # Len(new) /\ j # Len(new)
    BY <2>1, <1>2 DEF AskedOnce
  <2>2. CASE i = Len(new) \/ j = Len(new)
    BY <2>2, <1>1, <1>3
  <2> QED
    BY <2>1, <2>2
<1>5. ASSUME NEW a \in Queued(new)
      PROVE  a \in Queued(box) \cup {Asks(c)}
  <2>1. PICK i \in 1..Len(new) : Readable(new, i) /\ a = Asks(new[i])
    BY DEF Queued
  <2> QED
    BY <2>1, <1>1, <1>3
<1> QED
  BY <1>1, <1>4, <1>5 DEF new

\* Behind an exit nothing is read.
LEMMA QueueBehindExit ==
    ASSUME NEW box \in Seq(Commanded), NEW c \in Commanded, NEW d \in Commanded,
           c.op = "exit", AskedOnce(Append(box, c))
    PROVE  /\ box \o <<c, d>> \in Seq(Commanded)
           /\ AskedOnce(box \o <<c, d>>)
           /\ Queued(box \o <<c, d>>) \subseteq Queued(Append(box, c))
<1> DEFINE one == Append(box, c)
           new == box \o <<c, d>>
<1>1. /\ one \in Seq(Commanded) /\ Len(one) = Len(box) + 1 /\ Len(box) \in Nat
      /\ \A i \in 1..Len(box) : one[i] = box[i]
      /\ one[Len(box) + 1] = c
  BY AppendProperties, LenProperties
<1>2. <<c, d>> \in Seq(Commanded) /\ Len(<<c, d>>) = 2 /\ <<c, d>>[1] = c
  OBVIOUS
<1>3. /\ new \in Seq(Commanded) /\ Len(new) = Len(box) + 2
      /\ \A i \in 1..Len(box) : new[i] = box[i]
      /\ new[Len(box) + 1] = c
  <2>1. /\ new \in Seq(Commanded) /\ Len(new) = Len(box) + 2
        /\ \A i \in 1..(Len(box) + 2) :
             new[i] = IF i <= Len(box) THEN box[i] ELSE <<c, d>>[i - Len(box)]
    BY <1>2, ConcatProperties
  <2> QED
    BY <2>1, <1>1, <1>2
<1> HIDE DEF one, new
<1>4. \A i \in 1..Len(one) : new[i] = one[i]
  BY <1>1, <1>3
<1>5. ASSUME NEW i \in 1..Len(new), Readable(new, i)
      PROVE  i \in 1..Len(one) /\ Readable(one, i)
  <2>1. i <= Len(box) + 1
    <3> SUFFICES ASSUME i > Len(box) + 1
                 PROVE  FALSE
      BY <1>1, <1>3
    <3>1. Len(box) + 1 \in 1..(i - 1)
      BY <1>1, <1>3
    <3> QED
      BY <3>1, <1>3, <1>5 DEF Readable
  <2>2. i \in 1..Len(one)
    BY <2>1, <1>1, <1>3
  <2> QED
    BY <2>2, <1>1, <1>4, <1>5 DEF Readable
<1>6. AskedOnce(new)
  BY <1>4, <1>5 DEF AskedOnce, one
<1>7. Queued(new) \subseteq Queued(one)
  BY <1>4, <1>5 DEF Queued
<1> QED
  BY <1>3, <1>6, <1>7 DEF one, new

\* A timer is disarmed: the others stay, each once.
LEMMA DisarmDrops ==
    ASSUME NEW t \in Seq(TimerOf), NEW r, Distinct(t)
    PROVE  /\ Disarm(t, r) \in Seq(TimerOf) /\ Distinct(Disarm(t, r))
           /\ \A i \in 1..Len(Disarm(t, r)) :
                 Disarm(t, r)[i] # r /\ \E j \in 1..Len(t) : Disarm(t, r)[i] = t[j]
<1> DEFINE at == {i \in 1..Len(t) : t[i] = r}
<1>1. CASE at = {}
  BY <1>1 DEF Disarm
<1>2. CASE at # {}
  <2> DEFINE k == CHOOSE i \in at : TRUE
             a == SubSeq(t, 1, k - 1)
             b == SubSeq(t, k + 1, Len(t))
             new == a \o b
  <2>1. k \in 1..Len(t) /\ t[k] = r /\ Len(t) \in Nat
    BY <1>2, LenProperties
  <2>2. Disarm(t, r) = new
    BY <1>2 DEF Disarm, RemoveAt
  <2> HIDE DEF k
  <2>3. /\ a \in Seq(TimerOf) /\ Len(a) = k - 1
        /\ \A i \in 1..(k - 1) : a[i] = t[i]
    <3>1. \A i \in 1..(k - 1) : t[i] \in TimerOf
      BY <2>1, ElementOfSeq
    <3> QED
      BY <2>1, <3>1, SubSeqProperties
  <2>4. /\ b \in Seq(TimerOf) /\ Len(b) = Len(t) - k
        /\ \A i \in 1..(Len(t) - k) : b[i] = t[k + i]
    <3>1. \A i \in (k + 1)..Len(t) : t[i] \in TimerOf
      BY <2>1, ElementOfSeq
    <3> QED
      BY <2>1, <3>1, SubSeqProperties
  <2> HIDE DEF a, b
  <2>5. /\ new \in Seq(TimerOf) /\ Len(new) = Len(t) - 1
        /\ \A i \in 1..(Len(t) - 1) : new[i] = IF i <= k - 1 THEN a[i] ELSE b[i - (k - 1)]
    <3>1. /\ new \in Seq(TimerOf) /\ Len(new) = Len(a) + Len(b)
          /\ \A i \in 1..(Len(a) + Len(b)) :
               new[i] = IF i <= Len(a) THEN a[i] ELSE b[i - Len(a)]
      BY <2>3, <2>4, ConcatProperties
    <3>2. Len(a) + Len(b) = Len(t) - 1
      BY <2>1, <2>3, <2>4
    <3> HIDE DEF new
    <3> QED
      BY <3>1, <3>2, <2>3
  <2> HIDE DEF new
  <2>6. \A i \in 1..(Len(t) - 1) : new[i] = IF i < k THEN t[i] ELSE t[i + 1]
    <3> TAKE i \in 1..(Len(t) - 1)
    <3>1. CASE i < k
      BY <3>1, <2>1, <2>3, <2>5
    <3>2. CASE i >= k
      <4>1. i - (k - 1) \in 1..(Len(t) - k) /\ k + (i - (k - 1)) = i + 1 /\ ~(i <= k - 1)
        BY <3>2, <2>1
      <4>2. new[i] = b[i - (k - 1)]
        BY <4>1, <2>5
      <4>3. b[i - (k - 1)] = t[k + (i - (k - 1))]
        BY <4>1, <2>4
      <4> QED
        BY <4>1, <4>2, <4>3, <2>1, <3>2
    <3> QED
      BY <3>1, <3>2, <2>1
  <2>7. Distinct(new)
    <3> SUFFICES ASSUME NEW i \in 1..(Len(t) - 1), NEW j \in 1..(Len(t) - 1), new[i] = new[j]
                 PROVE  i = j
      BY <2>5 DEF Distinct
    <3> DEFINE up(x) == IF x < k THEN x ELSE x + 1
    <3>1. up(i) \in 1..Len(t) /\ up(j) \in 1..Len(t) /\ t[up(i)] = t[up(j)]
      BY <2>1, <2>6
    <3>2. up(i) = up(j)
      BY <3>1 DEF Distinct
    <3> QED
      BY <3>2, <2>1
  <2>8. ASSUME NEW i \in 1..(Len(t) - 1)
        PROVE  new[i] # r /\ \E j \in 1..Len(t) : new[i] = t[j]
    <3> DEFINE up(x) == IF x < k THEN x ELSE x + 1
    <3>1. up(i) \in 1..Len(t) /\ new[i] = t[up(i)] /\ up(i) # k
      BY <2>1, <2>6
    <3> QED
      BY <3>1, <2>1 DEF Distinct
  <2> QED
    BY <2>2, <2>5, <2>7, <2>8
<1> QED
  BY <1>1, <1>2

\* What a status phase makes of the timers: each is still there once.
LEMMA LeftBehind ==
    ASSUME NEW t \in Seq(TimerOf), Distinct(t), NEW u \in AfterStatus(t)
    PROVE  u \in Seq(TimerOf) /\ Distinct(u)
<1>1. CASE u = t
  BY <1>1
<1>2. CASE u = Append(Disarm(t, StatusTimer), StatusTimer)
  <2>1. PICK d : d = Disarm(t, StatusTimer)
    OBVIOUS
  <2>2. d \in Seq(TimerOf) /\ Distinct(d) /\ \A i \in 1..Len(d) : d[i] # StatusTimer
    BY <2>1, DisarmDrops
  <2>3. u = Append(d, StatusTimer) /\ StatusTimer \in TimerOf
    BY <1>2, <2>1 DEF TimerOf
  <2>4. /\ u \in Seq(TimerOf) /\ Len(u) = Len(d) + 1 /\ Len(d) \in Nat
        /\ u[Len(d) + 1] = StatusTimer /\ \A i \in 1..Len(d) : u[i] = d[i]
    BY <2>2, <2>3, AppendProperties, LenProperties
  <2>5. \A i \in 1..Len(u) : i \in 1..Len(d) \/ i = Len(d) + 1
    BY <2>4
  <2>6. Distinct(u)
    BY <2>2, <2>4, <2>5 DEF Distinct
  <2> QED
    BY <2>4, <2>6
<1> QED
  BY <1>1, <1>2 DEF AfterStatus

\* A finite set of answers is put in some order, each answer once.
LEMMA InSomeOrder ==
    ASSUME NEW S, IsFiniteSet(S)
    PROVE  SetToSeq(S) \in Seq(S) /\ Distinct(SetToSeq(S))
<1>1. Cardinality(S) \in Nat /\ ExistsBijection(1..Cardinality(S), S)
  BY FS_CardinalityType
<1>2. \E f \in [1..Cardinality(S) -> S] : IsInjective(f)
  BY <1>1, Zenon DEF ExistsBijection, Bijection, Injection
<1>3. SetToSeq(S) \in [1..Cardinality(S) -> S] /\ IsInjective(SetToSeq(S))
  BY <1>2, Zenon DEF SetToSeq
<1> DEFINE s == SetToSeq(S)
<1> HIDE DEF s
<1>4. s \in [1..Cardinality(S) -> S] /\ IsInjective(s)
  BY <1>3, Zenon DEF s
<1>5. s \in Seq(S) /\ Len(s) = Cardinality(S) /\ DOMAIN s = 1..Len(s)
  BY <1>1, <1>4
<1>6. Distinct(s)
  BY <1>4, <1>5 DEF Distinct, IsInjective
<1> QED
  BY <1>5, <1>6 DEF s

\* Handlers, one by one.
LEMMA HandlersAre ==
    ASSUME NEW f \in Handlers
    PROVE  /\ DOMAIN f \in SUBSET Req /\ IsFiniteSet(DOMAIN f)
           /\ \A r \in DOMAIN f : f[r] \in Handler
BY PartialIs DEF Handlers

\* A pool without handlers has no request to answer.
LEMMA NoRequests ==
    ASSUME NEW p, DOMAIN p.handlers = {}
    PROVE  Unanswered(p) = {} /\ Pending(p) = {}
BY DEF Unanswered, Pending

\* Handlers are dropped.
LEMMA NoHandlersAre == NoHandlers \in Handlers /\ DOMAIN NoHandlers = {}
<1>1. NoHandlers \in [{} -> Handler] /\ DOMAIN NoHandlers = {}
  BY DEF NoHandlers
<1>2. NoHandlers \in Partial(Req, Handler)
  BY <1>1 DEF Partial
<1>3. IsFiniteSet(DOMAIN NoHandlers)
  BY <1>1, FS_EmptySet
<1> QED
  BY <1>1, <1>2, <1>3 DEF Handlers

\* The handlers after one request is added, goes or is done.
LEMMA HandlersChange ==
    ASSUME NEW f \in Handlers, NEW g, NEW r \in Req,
           DOMAIN g \in {DOMAIN f \cup {r}, DOMAIN f \ {r}, DOMAIN f},
           g \in [DOMAIN g -> Handler]
    PROVE  g \in Handlers
<1>1. DOMAIN f \in SUBSET Req /\ IsFiniteSet(DOMAIN f)
  BY HandlersAre
<1>2. DOMAIN g \in SUBSET Req
  BY <1>1
<1>3. IsFiniteSet(DOMAIN f \cup {r}) /\ IsFiniteSet(DOMAIN f \ {r})
  BY <1>1, FS_AddElement, FS_RemoveElement
<1>4. IsFiniteSet(DOMAIN g)
  BY <1>1, <1>3
<1>5. g \in Partial(Req, Handler)
  BY <1>2, PartialIs
<1> QED
  BY <1>4, <1>5 DEF Handlers

----------------------------------------------------------------------------
(* The steps of a pool's thread *)

\* A step of a pool from p to q pays what it owes: the answers it sends are to
\* calls it owed and owes no more, each to another, and it owes nothing new.
Pays(p, q, ans) ==
    /\ Sound(q)
    /\ ans \in Seq(Answer) /\ AnswersOnce(ans)
    /\ Owed(q) \subseteq Owed(p)
    /\ Answered(ans) \subseteq Owed(p) \ Owed(q)

\* A step that sends no answer pays when it owes nothing new.
LEMMA PaysNothing ==
    ASSUME NEW p, NEW q, Sound(q), Owed(q) \subseteq Owed(p)
    PROVE  Pays(p, q, <<>>)
BY DEF Pays, AnswersOnce, Answered

\* A step that sends one answer pays when it owed that call and owes it no more.
LEMMA PaysOne ==
    ASSUME NEW p, NEW q, Sound(q), Owed(q) \subseteq Owed(p),
           NEW a \in Answer, Call(a) \in Owed(p), Call(a) \notin Owed(q)
    PROVE  Pays(p, q, <<a>>)
<1>1. <<a>> \in Seq(Answer) /\ Len(<<a>>) = 1 /\ <<a>>[1] = a
  OBVIOUS
<1>2. AnswersOnce(<<a>>) /\ Answered(<<a>>) = {Call(a)}
  BY <1>1 DEF AnswersOnce, Answered
<1> QED
  BY <1>1, <1>2 DEF Pays

\* The fields of a pool.
LEMMA PoolFields ==
    ASSUME NEW p \in PoolRecord
    PROVE  /\ p.st \in State /\ p.cmd \in Nat /\ p.refresh \in BOOLEAN
           /\ p.inbox \in Seq(Commanded) /\ p.handlers \in Handlers /\ p.timers \in Seq(TimerOf)
           /\ p.name \in Name /\ p.reg \in {"pending", "open", "gone"}
BY DEF PoolRecord

\* A command that a pool reads is for a call the pool has not taken up.
LEMMA ReadCommand ==
    ASSUME NEW p, Sound(p), p.st # "Closed", p.inbox # <<>>, Head(p.inbox).op # "exit"
    PROVE  /\ Head(p.inbox) \in Commanded
           /\ Tail(p.inbox) \in Seq(Commanded) /\ AskedOnce(Tail(p.inbox))
           /\ Queued(Tail(p.inbox)) \subseteq Queued(p.inbox) \ {Asks(Head(p.inbox))}
           /\ Asks(Head(p.inbox)) \in Queued(p.inbox)
           /\ Asks(Head(p.inbox)) \notin Syncing(p) \cup Pending(p)
           /\ Queued(p.inbox) \cap (Syncing(p) \cup Pending(p)) = {}
<1>1. p.inbox \in Seq(Commanded) /\ OwedOnce(p)
  BY PoolFields DEF Sound
<1>2. AskedOnce(p.inbox) /\ Queued(p.inbox) \cap (Syncing(p) \cup Pending(p)) = {}
  BY <1>1 DEF OwedOnce
<1> QED
  BY <1>1, <1>2, ReadOnce

\* A pool reads a command that starts a catch-up for the call, or one that
\* leaves it without a call of its own, answered or not.
LEMMA StartsOver ==
    ASSUME NEW p, Sound(p), p.st # "Closed", p.inbox # <<>>, Head(p.inbox).op # "exit",
           NEW q \in PoolRecord, q.inbox = Tail(p.inbox), q.timers = p.timers,
           DOMAIN q.handlers = {}, q.st \notin {"Closed", "Initialization"},
           Syncing(q) \subseteq {Asks(Head(p.inbox))}
    PROVE  /\ Pays(p, q, <<>>)
           /\ \A a \in Answer : Syncing(q) = {} /\ Call(a) = Asks(Head(p.inbox)) =>
                 Pays(p, q, <<a>>)
<1>1. /\ AskedOnce(Tail(p.inbox))
      /\ Queued(Tail(p.inbox)) \subseteq Queued(p.inbox) \ {Asks(Head(p.inbox))}
      /\ Asks(Head(p.inbox)) \in Queued(p.inbox)
  BY ReadCommand
<1>2. Unanswered(q) = {} /\ Pending(q) = {}
  BY NoRequests
<1>3. OwedOnce(q)
  BY <1>1, <1>2 DEF OwedOnce
<1>4. Timed(q) /\ Phased(q)
  BY DEF Timed, Phased, Sound
<1>5. Sound(q)
  BY <1>3, <1>4 DEF Sound
<1>6. Owed(q) = Queued(q.inbox) \cup Syncing(q) /\ Queued(p.inbox) \subseteq Owed(p)
  BY <1>2 DEF Owed
<1>7. Owed(q) \subseteq Owed(p)
  BY <1>1, <1>6
<1>8. ASSUME NEW a \in Answer, Syncing(q) = {}, Call(a) = Asks(Head(p.inbox))
      PROVE  Pays(p, q, <<a>>)
  <2>1. Call(a) \in Owed(p) /\ Call(a) \notin Owed(q)
    BY <1>1, <1>6, <1>8
  <2> QED
    BY <1>5, <1>7, <2>1, PaysOne
<1> QED
  BY <1>5, <1>7, <1>8, PaysNothing

\* A catch-up goes on, ends with an answer or ends without one.
LEMMA CatchesUp ==
    ASSUME NEW p, Sound(p), p.st \in {"GettingCatchupTarget", "SyncCatchup"},
           NEW q \in PoolRecord, q.inbox = p.inbox, q.handlers = p.handlers,
           q.st \notin {"Closed", "Initialization"}, Distinct(q.timers),
           Syncing(q) \subseteq Syncing(p)
    PROVE  /\ Pays(p, q, <<>>)
           /\ \A a \in Answer : Syncing(q) = {} /\ Call(a) = Call(AckOf(p, TRUE)) =>
                 Pays(p, q, <<a>>)
<1>1. DOMAIN p.handlers = {}
  BY DEF Sound, Phased
<1>2. Unanswered(q) = {} /\ Pending(q) = {} /\ Unanswered(p) = {} /\ Pending(p) = {}
  BY <1>1, NoRequests
<1>3. Syncing(p) = {Call(AckOf(p, TRUE))}
  BY DEF Syncing
<1>4. AskedOnce(p.inbox) /\ Queued(p.inbox) \cap Syncing(p) = {}
  BY DEF Sound, OwedOnce
<1>5. OwedOnce(q)
  BY <1>2, <1>4 DEF OwedOnce
<1>6. Timed(q) /\ Phased(q)
  BY <1>1 DEF Timed, Phased
<1>7. Sound(q)
  BY <1>5, <1>6 DEF Sound
<1>8. Owed(q) = Queued(p.inbox) \cup Syncing(q) /\ Owed(p) = Queued(p.inbox) \cup Syncing(p)
  BY <1>2 DEF Owed
<1>9. ASSUME NEW a \in Answer, Syncing(q) = {}, Call(a) = Call(AckOf(p, TRUE))
      PROVE  Pays(p, q, <<a>>)
  <2>1. Call(a) \in Owed(p) /\ Call(a) \notin Owed(q)
    BY <1>3, <1>4, <1>8, <1>9
  <2> QED
    BY <1>7, <1>8, <2>1, PaysOne
<1> QED
  BY <1>7, <1>8, <1>9, PaysNothing

\* A pool reads a command and does nothing with it, or only answers it.
LEMMA ReadsOnly ==
    ASSUME NEW p, Sound(p), p.st # "Closed", p.inbox # <<>>, Head(p.inbox).op # "exit",
           NEW q \in PoolRecord, q.inbox = Tail(p.inbox), q.timers = p.timers,
           q.handlers = p.handlers, q.st = p.st, q.cmd = p.cmd, q.refresh = p.refresh
    PROVE  /\ Pays(p, q, <<>>)
           /\ \A a \in Answer : Call(a) = Asks(Head(p.inbox)) => Pays(p, q, <<a>>)
<1>1. /\ AskedOnce(Tail(p.inbox))
      /\ Queued(Tail(p.inbox)) \subseteq Queued(p.inbox) \ {Asks(Head(p.inbox))}
      /\ Asks(Head(p.inbox)) \in Queued(p.inbox)
      /\ Asks(Head(p.inbox)) \notin Syncing(p) \cup Pending(p)
      /\ Queued(p.inbox) \cap (Syncing(p) \cup Pending(p)) = {}
  BY ReadCommand
<1>2. Unanswered(q) = Unanswered(p)
  BY DEF Unanswered
<1>3. Pending(q) = Pending(p)
  BY <1>2 DEF Pending
<1>4. Syncing(q) = Syncing(p)
  BY DEF Syncing, AckOf, Ack, Call
<1>5. OwedOnce(q)
  BY <1>1, <1>2, <1>3, <1>4 DEF OwedOnce, Sound
<1>6. Sound(q)
  BY <1>5 DEF Sound, Timed, Phased
<1>7. /\ Owed(q) = Queued(q.inbox) \cup Syncing(p) \cup Pending(p)
      /\ Owed(p) = Queued(p.inbox) \cup Syncing(p) \cup Pending(p)
  BY <1>3, <1>4 DEF Owed
<1>8. Owed(q) \subseteq Owed(p)
  BY <1>1, <1>7
<1>9. Asks(Head(p.inbox)) \in Owed(p) /\ Asks(Head(p.inbox)) \notin Owed(q)
  BY <1>1, <1>7
<1> QED
  BY <1>6, <1>8, <1>9, PaysNothing, PaysOne

\* What a command asks for, by its kind.
LEMMA AsksBy ==
    ASSUME NEW c \in Commanded
    PROVE  /\ c.op = "connect" => Asks(c) = <<"open", c.id>>
           /\ c.op = "refresh" => Asks(c) = <<"refresh", c.id>>
           /\ c.op = "exit" => Asks(c) = <<"close", c.id>>
           /\ c.op \in Req => Asks(c) = <<"submit", c.id>>
BY LifecycleAssumption DEF Asks

\* An Active pool is not in a catch-up.
LEMMA ActiveHasNoCatchup ==
    ASSUME NEW p, p.st = "Active"
    PROVE  Syncing(p) = {}
BY DEF Syncing

\* An Active pool takes up a request, under a new id or one it has already.
LEMMA TakesRequest ==
    ASSUME NEW p, Sound(p), p.st = "Active", p.inbox # <<>>, Head(p.inbox).op \in Req,
           NEW r, r = Head(p.inbox).op,
           NEW q \in PoolRecord, q.inbox = Tail(p.inbox), q.st = "Active",
           DOMAIN q.handlers = DOMAIN p.handlers \cup {r},
           q.handlers[r] = [cmd |-> Head(p.inbox).id, done |-> FALSE],
           \A x \in DOMAIN p.handlers \ {r} : q.handlers[x] = p.handlers[x],
           q.timers = Append(Disarm(p.timers, r), r)
    PROVE  Pays(p, q, <<>>)
<1>1. Head(p.inbox).op # "exit"
  BY LifecycleAssumption
<1>2. /\ Head(p.inbox) \in Commanded
      /\ AskedOnce(Tail(p.inbox))
      /\ Queued(Tail(p.inbox)) \subseteq Queued(p.inbox) \ {Asks(Head(p.inbox))}
      /\ Asks(Head(p.inbox)) \in Queued(p.inbox)
      /\ Asks(Head(p.inbox)) \notin Syncing(p) \cup Pending(p)
      /\ Queued(p.inbox) \cap (Syncing(p) \cup Pending(p)) = {}
  BY <1>1, ReadCommand
<1> DEFINE id == Head(p.inbox).id
<1>3. Asks(Head(p.inbox)) = <<"submit", id>> /\ r \in Req /\ id \in Nat
  BY <1>2, AsksBy DEF Commanded
<1>4. Syncing(p) = {} /\ Syncing(q) = {}
  BY ActiveHasNoCatchup
<1>5. /\ r \in Unanswered(q)
      /\ \A x \in Unanswered(q) : x # r => x \in Unanswered(p) /\ q.handlers[x] = p.handlers[x]
  BY DEF Unanswered
<1>6. \A x \in Unanswered(p) : p.handlers[x].cmd # id
  BY <1>2, <1>3 DEF Pending
<1>7. \A x, y \in Unanswered(q) : q.handlers[x].cmd = q.handlers[y].cmd => x = y
  <2>1. \A x, y \in Unanswered(p) : p.handlers[x].cmd = p.handlers[y].cmd => x = y
    BY DEF Sound, OwedOnce
  <2>2. q.handlers[r].cmd = id
    OBVIOUS
  <2> QED
    BY <1>5, <1>6, <2>1, <2>2
<1>8. Pending(q) \subseteq Pending(p) \cup {Asks(Head(p.inbox))}
  <2> SUFFICES ASSUME NEW x \in Unanswered(q)
               PROVE  <<"submit", q.handlers[x].cmd>> \in Pending(p) \cup {Asks(Head(p.inbox))}
    BY DEF Pending
  <2>1. CASE x = r
    BY <1>3, <2>1
  <2>2. CASE x # r
    BY <1>5, <2>2 DEF Pending
  <2> QED
    BY <2>1, <2>2
<1>9. OwedOnce(q)
  BY <1>2, <1>4, <1>7, <1>8 DEF OwedOnce
<1>10. Timed(q)
  <2> DEFINE d == Disarm(p.timers, r)
  <2>1. /\ p.timers \in Seq(TimerOf) /\ Distinct(p.timers)
        /\ \A x \in DOMAIN p.handlers :
             p.handlers[x].done => \A i \in 1..Len(p.timers) : p.timers[i] # x
    BY PoolFields DEF Sound, Timed
  <2>2. /\ d \in Seq(TimerOf) /\ Distinct(d)
        /\ \A i \in 1..Len(d) : d[i] # r /\ \E j \in 1..Len(p.timers) : d[i] = p.timers[j]
    BY <2>1, DisarmDrops
  <2> HIDE DEF d
  <2>3. /\ Len(q.timers) = Len(d) + 1 /\ Len(d) \in Nat
        /\ \A i \in 1..Len(d) : q.timers[i] = d[i]
        /\ q.timers[Len(d) + 1] = r
    BY <1>3, <2>2, AppendProperties, LenProperties DEF d
  <2>4. \A i \in 1..Len(q.timers) : i \in 1..Len(d) \/ i = Len(d) + 1
    BY <2>3
  <2>5. Distinct(q.timers)
    BY <2>2, <2>3, <2>4 DEF Distinct
  <2>6. ASSUME NEW x \in DOMAIN q.handlers, q.handlers[x].done,
               NEW i \in 1..Len(q.timers)
        PROVE  q.timers[i] # x
    <3>1. x # r
      BY <2>6
    <3>2. x \in DOMAIN p.handlers /\ p.handlers[x].done
      BY <2>6, <3>1
    <3>3. CASE i \in 1..Len(d)
      BY <3>2, <3>3, <2>1, <2>2, <2>3
    <3>4. CASE i = Len(d) + 1
      BY <3>1, <3>4, <2>3
    <3> QED
      BY <3>3, <3>4, <2>4
  <2> QED
    BY <2>5, <2>6 DEF Timed
<1>11. Sound(q)
  BY <1>9, <1>10 DEF Sound, Phased
<1>12. Owed(q) \subseteq Owed(p)
  BY <1>2, <1>4, <1>8 DEF Owed
<1> QED
  BY <1>11, <1>12, PaysNothing

\* An Active pool answers a request and does not answer it again.
LEMMA AnswersRequest ==
    ASSUME NEW p, Sound(p), p.st = "Active", NEW r \in Unanswered(p),
           NEW q \in PoolRecord, q.inbox = p.inbox, q.st = "Active",
           Unanswered(q) \subseteq Unanswered(p) \ {r},
           \A x \in Unanswered(q) : q.handlers[x].cmd = p.handlers[x].cmd,
           Timed(q),
           NEW a \in Answer, a.kind = "submit", a.id = p.handlers[r].cmd
    PROVE  Pays(p, q, <<a>>)
<1>1. /\ AskedOnce(p.inbox) /\ Queued(p.inbox) \cap Pending(p) = {}
      /\ \A x, y \in Unanswered(p) : p.handlers[x].cmd = p.handlers[y].cmd => x = y
  BY DEF Sound, OwedOnce
<1>2. Syncing(p) = {} /\ Syncing(q) = {}
  BY ActiveHasNoCatchup
<1>3. Pending(q) \subseteq Pending(p)
  BY DEF Pending
<1>4. Call(a) = <<"submit", p.handlers[r].cmd>>
  BY DEF Call
<1>5. Call(a) \in Pending(p)
  BY <1>4 DEF Pending
<1>6. Call(a) \notin Pending(q)
  BY <1>1, <1>4 DEF Pending
<1>7. OwedOnce(q)
  BY <1>1, <1>2, <1>3 DEF OwedOnce
<1>8. Sound(q)
  BY <1>7 DEF Sound, Phased
<1>9. Owed(q) = Queued(p.inbox) \cup Pending(q) /\ Owed(p) = Queued(p.inbox) \cup Pending(p)
  BY <1>2 DEF Owed
<1>10. Owed(q) \subseteq Owed(p) /\ Call(a) \in Owed(p) /\ Call(a) \notin Owed(q)
  BY <1>1, <1>3, <1>5, <1>6, <1>9
<1> QED
  BY <1>8, <1>10, PaysOne

\* The answers to the requests of a pool that closes are to other calls each.
LEMMA TerminateAnswers ==
    ASSUME NEW p, Sound(p), p.st # "Closed"
    PROVE  /\ TerminateAcks(p) \in Seq(Answer) /\ AnswersOnce(TerminateAcks(p))
           /\ Answered(TerminateAcks(p)) \subseteq Pending(p)
<1> DEFINE S == {Ack("submit", p.handlers[r].cmd, FALSE) : r \in Unanswered(p)}
           f == [r \in Unanswered(p) |-> Ack("submit", p.handlers[r].cmd, FALSE)]
<1>1. DOMAIN p.handlers \in SUBSET Req /\ IsFiniteSet(DOMAIN p.handlers)
      /\ \A r \in DOMAIN p.handlers : p.handlers[r] \in Handler
  BY PoolFields, HandlersAre DEF Sound
<1>2. IsFiniteSet(Unanswered(p))
  BY <1>1, FS_Subset DEF Unanswered
<1>3. f \in Surjection(Unanswered(p), S)
  BY Zenon DEF Surjection
<1>4. IsFiniteSet(S)
  BY <1>2, <1>3, FS_Surjection
<1>5. ASSUME NEW a \in S
      PROVE  a \in Answer /\ a.kind = "submit" /\ a.ok = FALSE /\ Call(a) \in Pending(p)
  <2>1. PICK r \in Unanswered(p) : a = Ack("submit", p.handlers[r].cmd, FALSE)
    OBVIOUS
  <2>2. p.handlers[r].cmd \in Nat
    BY <1>1 DEF Unanswered, Handler
  <2> QED
    BY <2>1, <2>2 DEF Ack, Answer, Call, Pending
<1> DEFINE s == TerminateAcks(p)
<1>6. s = SetToSeq(S)
  BY DEF TerminateAcks
<1> HIDE DEF S, f, s
<1>7. s \in Seq(S) /\ Distinct(s)
  BY <1>4, <1>6, InSomeOrder
<1>8. \A i \in 1..Len(s) : s[i] \in S
  BY <1>7, ElementOfSeq
<1>9. s \in Seq(Answer)
  <2>1. S \subseteq Answer
    BY <1>5
  <2> QED
    BY <1>7, <2>1, SeqMonotonic
<1>10. AnswersOnce(s)
  <2> SUFFICES ASSUME NEW i \in 1..Len(s), NEW j \in 1..Len(s), Call(s[i]) = Call(s[j])
               PROVE  i = j
    BY DEF AnswersOnce
  <2>1. /\ s[i] \in Answer /\ s[j] \in Answer /\ s[i].kind = s[j].kind
        /\ s[i].ok = s[j].ok /\ s[i].id = s[j].id
    BY <1>5, <1>8 DEF Call
  <2>2. s[i] = s[j]
    BY <2>1 DEF Answer
  <2> QED
    BY <2>2, <1>7 DEF Distinct
<1>11. Answered(s) \subseteq Pending(p)
  BY <1>5, <1>8 DEF Answered
<1> QED
  BY <1>9, <1>10, <1>11 DEF s

\* A pool reads exit: it answers the close and then every request.
LEMMA Closes ==
    ASSUME NEW p, Sound(p), p.st # "Closed", p.inbox # <<>>, Head(p.inbox).op = "exit",
           NEW q \in PoolRecord, q.st = "Closed", DOMAIN q.handlers = {}, q.timers = p.timers
    PROVE  Pays(p, q, <<Ack("close", Head(p.inbox).id, TRUE)>> \o TerminateAcks(p))
<1> DEFINE a == Ack("close", Head(p.inbox).id, TRUE)
           s == TerminateAcks(p)
           new == <<a>> \o s
<1>1. /\ p.inbox \in Seq(Commanded) /\ AskedOnce(p.inbox)
      /\ Queued(p.inbox) \cap Pending(p) = {}
  BY PoolFields DEF Sound, OwedOnce
<1>2. Head(p.inbox) \in Commanded /\ Asks(Head(p.inbox)) \in Queued(p.inbox)
  BY <1>1, ReadOnce
<1>3. a \in Answer /\ Call(a) = Asks(Head(p.inbox))
  BY <1>2, AsksBy DEF Ack, Answer, Call, Commanded
<1>4. s \in Seq(Answer) /\ AnswersOnce(s) /\ Answered(s) \subseteq Pending(p)
  BY TerminateAnswers
<1>5. Call(a) \notin Answered(s)
  BY <1>1, <1>2, <1>3, <1>4
<1> HIDE DEF a, s
<1>6. <<a>> \in Seq(Answer) /\ Len(<<a>>) = 1 /\ <<a>>[1] = a
  BY <1>3
<1>7. /\ new \in Seq(Answer) /\ Len(new) = 1 + Len(s) /\ Len(s) \in Nat
      /\ new[1] = a /\ \A i \in 2..(1 + Len(s)) : new[i] = s[i - 1]
  <2>1. /\ new \in Seq(Answer) /\ Len(new) = Len(<<a>>) + Len(s) /\ Len(s) \in Nat
        /\ \A i \in 1..(Len(<<a>>) + Len(s)) :
             new[i] = IF i <= Len(<<a>>) THEN <<a>>[i] ELSE s[i - Len(<<a>>)]
    BY <1>4, <1>6, ConcatProperties, LenProperties
  <2> HIDE DEF new
  <2> QED
    BY <2>1, <1>6
<1> HIDE DEF new
<1>8. \A i \in 1..Len(new) : i = 1 \/ (i \in 2..(1 + Len(s)) /\ i - 1 \in 1..Len(s))
  BY <1>7
<1>9. \A i \in 2..(1 + Len(s)) : Call(new[i]) \in Answered(s)
  <2> TAKE i \in 2..(1 + Len(s))
  <2>1. i - 1 \in 1..Len(s) /\ new[i] = s[i - 1]
    BY <1>7
  <2> QED
    BY <2>1 DEF Answered
<1>10. AnswersOnce(new)
  <2> SUFFICES ASSUME NEW i \in 1..Len(new), NEW j \in 1..Len(new), Call(new[i]) = Call(new[j])
               PROVE  i = j
    BY DEF AnswersOnce
  <2>1. CASE i = 1 \/ j = 1
    BY <2>1, <1>5, <1>7, <1>8, <1>9
  <2>2. CASE i # 1 /\ j # 1
    <3>1. i - 1 \in 1..Len(s) /\ j - 1 \in 1..Len(s) /\ Call(s[i - 1]) = Call(s[j - 1])
      BY <2>2, <1>7, <1>8
    <3>2. i - 1 = j - 1
      BY <3>1, <1>4 DEF AnswersOnce
    <3> QED
      BY <3>2, <1>7
  <2> QED
    BY <2>1, <2>2
<1>11. Answered(new) \subseteq Answered(s) \cup {Call(a)}
  BY <1>7, <1>8, <1>9 DEF Answered
<1>12. Answered(new) \subseteq Owed(p)
  BY <1>2, <1>3, <1>4, <1>11 DEF Owed
<1>13. Owed(q) = {}
  BY DEF Owed
<1>14. Sound(q)
  BY DEF Sound, Phased, Timed
<1> QED
  BY <1>7, <1>10, <1>12, <1>13, <1>14 DEF Pays, new, a, s

----------------------------------------------------------------------------
(* Steps preserve the invariant *)

\* Answers to other calls are put behind those in the queue.
LEMMA AnswersJoin ==
    ASSUME NEW s \in Seq(Answer), NEW t \in Seq(Answer), AnswersOnce(s), AnswersOnce(t),
           Answered(s) \cap Answered(t) = {}
    PROVE  /\ s \o t \in Seq(Answer) /\ AnswersOnce(s \o t)
           /\ Answered(s \o t) \subseteq Answered(s) \cup Answered(t)
<1> DEFINE new == s \o t
<1>1. /\ new \in Seq(Answer) /\ Len(new) = Len(s) + Len(t)
      /\ \A i \in 1..(Len(s) + Len(t)) : new[i] = IF i <= Len(s) THEN s[i] ELSE t[i - Len(s)]
      /\ Len(s) \in Nat /\ Len(t) \in Nat
  BY ConcatProperties, LenProperties
<1> HIDE DEF new
<1>2. ASSUME NEW i \in 1..Len(new)
      PROVE  \/ i \in 1..Len(s) /\ new[i] = s[i] /\ Call(new[i]) \in Answered(s)
             \/ /\ i - Len(s) \in 1..Len(t) /\ new[i] = t[i - Len(s)]
                /\ Call(new[i]) \in Answered(t)
  <2>1. CASE i <= Len(s)
    <3>1. i \in 1..Len(s) /\ new[i] = s[i]
      BY <1>1, <2>1
    <3> QED
      BY <3>1 DEF Answered
  <2>2. CASE ~(i <= Len(s))
    <3>1. i - Len(s) \in 1..Len(t) /\ new[i] = t[i - Len(s)]
      BY <1>1, <2>2
    <3> QED
      BY <3>1 DEF Answered
  <2> QED
    BY <2>1, <2>2
<1>3. AnswersOnce(new)
  <2> SUFFICES ASSUME NEW i \in 1..Len(new), NEW j \in 1..Len(new), Call(new[i]) = Call(new[j])
               PROVE  i = j
    BY DEF AnswersOnce
  <2>1. CASE Call(new[i]) \in Answered(s)
    <3>1. i \in 1..Len(s) /\ new[i] = s[i] /\ j \in 1..Len(s) /\ new[j] = s[j]
      BY <1>2, <2>1
    <3> QED
      BY <3>1 DEF AnswersOnce
  <2>2. CASE Call(new[i]) \in Answered(t)
    <3>1. /\ i - Len(s) \in 1..Len(t) /\ new[i] = t[i - Len(s)]
          /\ j - Len(s) \in 1..Len(t) /\ new[j] = t[j - Len(s)]
      BY <1>2, <2>2
    <3>2. i - Len(s) = j - Len(s)
      BY <3>1 DEF AnswersOnce
    <3> QED
      BY <3>2, <1>1
  <2> QED
    BY <1>2, <2>1, <2>2
<1>4. Answered(new) \subseteq Answered(s) \cup Answered(t)
  BY <1>2 DEF Answered
<1> QED
  BY <1>1, <1>3, <1>4 DEF new

\* One pool changes, the others are as they were.
LEMMA OnePool ==
    ASSUME LifeInv, NEW h \in Handles, NEW q \in PoolRecord, pools' = [pools EXCEPT ![h] = q]
    PROVE  /\ pools' \in Seq(PoolRecord) /\ Handles' = Handles /\ Len(pools') = Len(pools)
           /\ pools'[h] = q /\ \A g \in Handles : g # h => pools'[g] = pools[g]
<1>1. pools \in Seq(PoolRecord)
  BY DEF LifeInv
<1> QED
  BY <1>1, ExceptSeq DEF Handles

\* The calls do not change when the executor does nothing.
LEMMA SameCalls ==
    ASSUME UNCHANGED <<calls, callbacks, joining>>, Len(pools') = Len(pools)
    PROVE  Called' = Called /\ Closing' = Closing /\ GivenOut' = GivenOut
<1>1. Closing' = Closing
  BY DEF Closing, Idle
<1> QED
  BY <1>1 DEF Called, GivenOut

\* A step of a pool's thread that pays preserves the invariant.
LEMMA ThreadPays ==
    ASSUME LifeInv, NEW h \in Handles, NEW q, NEW ans, Thread(h, q, ans), Pays(pools[h], q, ans)
    PROVE  LifeInv'
<1> DEFINE p == pools[h]
<1>1. /\ Sound(q) /\ ans \in Seq(Answer) /\ AnswersOnce(ans)
      /\ Owed(q) \subseteq Owed(p) /\ Answered(ans) \subseteq Owed(p) \ Owed(q)
  BY DEF Pays
<1>2. q \in PoolRecord
  BY <1>1 DEF Sound
<1>3. /\ pools' = [pools EXCEPT ![h] = q] /\ acks' = acks \o ans
      /\ UNCHANGED <<calls, callbacks, joining>>
  BY DEF Thread
<1>4. /\ pools' \in Seq(PoolRecord) /\ Handles' = Handles /\ Len(pools') = Len(pools)
      /\ pools'[h] = q /\ \A g \in Handles : g # h => pools'[g] = pools[g]
  BY <1>2, <1>3, OnePool
<1>5. Called' = Called /\ Closing' = Closing /\ GivenOut' = GivenOut
  BY <1>3, <1>4, SameCalls
<1>6. /\ acks \in Seq(Answer) /\ AnswersOnce(acks) /\ Answered(acks) \subseteq Called
      /\ Owed(p) \cap Answered(acks) = {} /\ Owed(p) \subseteq Called
  BY DEF LifeInv
<1>7. /\ acks' \in Seq(Answer) /\ AnswersOnce(acks')
      /\ Answered(acks') \subseteq Answered(acks) \cup Answered(ans)
  BY <1>1, <1>3, <1>6, AnswersJoin
<1>8. ASSUME NEW g \in Handles
      PROVE  /\ Sound(pools'[g])
             /\ Owed(pools'[g]) \subseteq Owed(pools[g])
             /\ Owed(pools'[g]) \cap Answered(acks') = {}
  <2>1. CASE g = h
    BY <2>1, <1>1, <1>4, <1>6, <1>7
  <2>2. CASE g # h
    <3>1. /\ Sound(pools[g]) /\ Owed(pools[g]) \cap Answered(acks) = {}
          /\ Owed(pools[g]) \cap Owed(p) = {}
      BY <2>2 DEF LifeInv
    <3> QED
      BY <2>2, <3>1, <1>1, <1>4, <1>7
  <2> QED
    BY <2>1, <2>2
<1>9. \A g \in Handles : Owed(pools'[g]) \subseteq Called
  BY <1>8 DEF LifeInv
<1>10. ASSUME NEW f \in Handles, NEW g \in Handles, f # g
       PROVE  Owed(pools'[f]) \cap Owed(pools'[g]) = {}
  <2>1. Owed(pools[f]) \cap Owed(pools[g]) = {}
    BY <1>10 DEF LifeInv
  <2> QED
    BY <2>1, <1>8
<1>11. Answered(acks') \subseteq Called
  BY <1>1, <1>6, <1>7
<1>12. calls' \in Nat /\ Called \subseteq GivenOut /\ Closing' \cap callbacks' = {}
  BY <1>3, <1>5 DEF LifeInv
<1> QED
  BY <1>4, <1>5, <1>7, <1>8, <1>9, <1>10, <1>11, <1>12 DEF LifeInv

\* The pool of a handle is sound.
LEMMA PoolOf ==
    ASSUME LifeInv, NEW h \in Handles
    PROVE  Sound(pools[h]) /\ pools[h] \in PoolRecord
BY DEF LifeInv, Sound

\* The command a pool has read is off its inbox.
LEMMA ReceivedIs ==
    ASSUME NEW p \in PoolRecord, p.inbox # <<>>
    PROVE  /\ Head(p.inbox) \in Commanded /\ Tail(p.inbox) \in Seq(Commanded)
           /\ [p EXCEPT !.inbox = Tail(@)] \in PoolRecord
<1>1. p.inbox \in Seq(Commanded)
  BY PoolFields
<1>2. Head(p.inbox) \in Commanded /\ Tail(p.inbox) \in Seq(Commanded)
  BY <1>1, HeadTailProperties
<1> QED
  BY <1>2 DEF PoolRecord

\* The first command starts a catch-up, or is answered.
LEMMA CheckCacheKeeps ==
    ASSUME LifeInv, NEW h \in Handles, CheckCache(h)
    PROVE  LifeInv'
<1> DEFINE p == pools[h]
           id == Head(p.inbox).id
           q == [[p EXCEPT !.inbox = Tail(@)] EXCEPT !.st = "GettingCatchupTarget", !.cmd = id]
           z == [[p EXCEPT !.inbox = Tail(@)] EXCEPT !.st = "Terminated"]
<1>1. Sound(p) /\ p \in PoolRecord
  BY PoolOf
<1>2. p.st = "Initialization" /\ p.inbox # <<>> /\ Head(p.inbox).op = "connect"
  BY DEF CheckCache, In, Receives
<1>3. DOMAIN p.handlers = {} /\ p.refresh = FALSE
  BY <1>1, <1>2, PoolFields DEF Sound, Phased
<1>4. Head(p.inbox) \in Commanded /\ Tail(p.inbox) \in Seq(Commanded)
  BY <1>1, <1>2, ReceivedIs
<1>5. id \in Nat /\ Asks(Head(p.inbox)) = <<"open", id>>
  BY <1>2, <1>4, AsksBy DEF Commanded
<1>6. /\ q \in PoolRecord /\ q.inbox = Tail(p.inbox) /\ q.timers = p.timers
      /\ q.handlers = p.handlers /\ q.st = "GettingCatchupTarget" /\ q.cmd = id
      /\ q.refresh = FALSE
  BY <1>1, <1>3, <1>4, <1>5 DEF PoolRecord, State
<1>7. /\ z \in PoolRecord /\ z.inbox = Tail(p.inbox) /\ z.timers = p.timers
      /\ z.handlers = p.handlers /\ z.st = "Terminated"
  BY <1>1, <1>4 DEF PoolRecord, State
<1>8. \/ Thread(h, q, <<>>)
      \/ Thread(h, z, <<Ack("open", id, FALSE)>>)
  BY DEF CheckCache, Received, Id
<1> HIDE DEF p, id, q, z
<1>9. CASE Thread(h, q, <<>>)
  <2>1. Syncing(q) = {Asks(Head(p.inbox))}
    BY <1>5, <1>6 DEF Syncing, AckOf, Ack, Call
  <2>2. Pays(p, q, <<>>)
    BY <1>1, <1>2, <1>3, <1>6, <2>1, StartsOver
  <2> QED
    BY <1>9, <2>2, ThreadPays DEF p
<1>10. CASE Thread(h, z, <<Ack("open", id, FALSE)>>)
  <2>1. Syncing(z) = {}
    BY <1>7 DEF Syncing
  <2>2. Ack("open", id, FALSE) \in Answer /\ Call(Ack("open", id, FALSE)) = Asks(Head(p.inbox))
    BY <1>5 DEF Ack, Answer, Call
  <2>3. Pays(p, z, <<Ack("open", id, FALSE)>>)
    BY <1>1, <1>2, <1>3, <1>7, <2>1, <2>2, StartsOver
  <2> QED
    BY <1>10, <2>3, ThreadPays DEF p
<1> QED
  BY <1>8, <1>9, <1>10

\* A pool that reads exit answers all it owes.
LEMMA ExitKeeps ==
    ASSUME LifeInv, NEW h \in Handles, Exit(h)
    PROVE  LifeInv'
<1> DEFINE p == pools[h]
           q == [[p EXCEPT !.inbox = Tail(@)] EXCEPT !.st = "Closed", !.handlers = NoHandlers]
           ans == <<Ack("close", Head(p.inbox).id, TRUE)>> \o TerminateAcks(p)
<1>1. Sound(p) /\ p \in PoolRecord
  BY PoolOf
<1>2. p.st # "Closed" /\ p.inbox # <<>> /\ Head(p.inbox).op = "exit" /\ Thread(h, q, ans)
  BY DEF Exit, In, Receives, Received, Id
<1>3. Tail(p.inbox) \in Seq(Commanded)
  BY <1>1, <1>2, ReceivedIs
<1>4. q \in PoolRecord /\ q.st = "Closed" /\ q.handlers = NoHandlers /\ q.timers = p.timers
  BY <1>1, <1>3, NoHandlersAre DEF PoolRecord, State
<1> HIDE DEF p, q
<1>5. Pays(p, q, ans)
  BY <1>1, <1>2, <1>4, NoHandlersAre, Closes
<1> QED
  BY <1>2, <1>5, ThreadPays DEF p

\* A refresh starts a catch-up, or nothing; the requests are forgotten.
LEMMA RefreshKeeps ==
    ASSUME LifeInv, NEW h \in Handles, RefreshCommand(h)
    PROVE  LifeInv'
<1> DEFINE p == pools[h]
           id == Head(p.inbox).id
           c == [[p EXCEPT !.inbox = Tail(@)] EXCEPT !.handlers = NoHandlers]
           q == [c EXCEPT !.st = "GettingCatchupTarget", !.cmd = id, !.refresh = TRUE]
           z == [c EXCEPT !.st = "Terminated"]
<1>1. Sound(p) /\ p \in PoolRecord
  BY PoolOf
<1>2. p.st \in {"Active", "Terminated"} /\ p.inbox # <<>> /\ Head(p.inbox).op = "refresh"
  BY DEF RefreshCommand, In, Receives
<1>3. Head(p.inbox) \in Commanded /\ Tail(p.inbox) \in Seq(Commanded)
  BY <1>1, <1>2, ReceivedIs
<1>4. id \in Nat /\ Asks(Head(p.inbox)) = <<"refresh", id>>
  BY <1>2, <1>3, AsksBy DEF Commanded
<1>5. /\ q \in PoolRecord /\ q.inbox = Tail(p.inbox) /\ q.timers = p.timers
      /\ q.handlers = NoHandlers /\ q.st = "GettingCatchupTarget" /\ q.cmd = id
      /\ q.refresh = TRUE
  BY <1>1, <1>3, <1>4, NoHandlersAre DEF PoolRecord, State
<1>6. /\ z \in PoolRecord /\ z.inbox = Tail(p.inbox) /\ z.timers = p.timers
      /\ z.handlers = NoHandlers /\ z.st = "Terminated"
  BY <1>1, <1>3, NoHandlersAre DEF PoolRecord, State
<1>7. Thread(h, q, <<>>) \/ Thread(h, z, <<>>)
  BY DEF RefreshCommand, Received, Id
<1> HIDE DEF p, id, q, z, c
<1>8. Syncing(q) = {Asks(Head(p.inbox))} /\ Syncing(z) = {}
  BY <1>4, <1>5, <1>6 DEF Syncing, AckOf, Ack, Call
<1>9. Pays(p, q, <<>>)
  BY <1>1, <1>2, <1>5, <1>8, NoHandlersAre, StartsOver
<1>10. Pays(p, z, <<>>)
  BY <1>1, <1>2, <1>6, <1>8, NoHandlersAre, StartsOver
<1> QED
  BY <1>7, <1>9, <1>10, ThreadPays DEF p

\* A request is taken up, or answered because it does not parse.
LEMMA SubmitKeeps ==
    ASSUME LifeInv, NEW h \in Handles, SubmitCommand(h)
    PROVE  LifeInv'
<1> DEFINE p == pools[h]
           id == Head(p.inbox).id
           r == Head(p.inbox).op
           z == [p EXCEPT !.inbox = Tail(@)]
           f == [x \in DOMAIN z.handlers \cup {r} |->
                   IF x = r THEN [cmd |-> id, done |-> FALSE] ELSE z.handlers[x]]
           t == Append(Disarm(z.timers, r), r)
           q == [z EXCEPT !.handlers = f, !.timers = t]
<1>1. Sound(p) /\ p \in PoolRecord
  BY PoolOf
<1>2. p.st = "Active" /\ p.inbox # <<>> /\ r \in Req
  BY DEF SubmitCommand, In, Receives
<1>3. Head(p.inbox) \in Commanded /\ Tail(p.inbox) \in Seq(Commanded) /\ z \in PoolRecord
  BY <1>1, <1>2, ReceivedIs
<1>4. id \in Nat /\ Asks(Head(p.inbox)) = <<"submit", id>>
  BY <1>2, <1>3, AsksBy DEF Commanded
<1>5. /\ z.inbox = Tail(p.inbox) /\ z.timers = p.timers /\ z.handlers = p.handlers
      /\ z.st = p.st /\ z.cmd = p.cmd /\ z.refresh = p.refresh
  BY <1>1 DEF PoolRecord
<1>6. \/ Thread(h, q, <<>>)
      \/ Thread(h, z, <<Ack("submit", id, FALSE)>>)
  BY DEF SubmitCommand, Received, Id
<1>7. f \in Handlers
  <2>1. z.handlers \in Handlers /\ \A x \in DOMAIN z.handlers : z.handlers[x] \in Handler
    BY <1>3, PoolFields, HandlersAre
  <2>2. [cmd |-> id, done |-> FALSE] \in Handler
    BY <1>4 DEF Handler
  <2>3. DOMAIN f = DOMAIN z.handlers \cup {r} /\ f \in [DOMAIN f -> Handler]
    BY <2>1, <2>2
  <2> HIDE DEF f
  <2> QED
    BY <1>2, <2>1, <2>3, HandlersChange
<1>8. t \in Seq(TimerOf)
  <2>1. z.timers \in Seq(TimerOf) /\ Distinct(z.timers)
    BY <1>1, <1>5, PoolFields DEF Sound, Timed
  <2>2. Disarm(z.timers, r) \in Seq(TimerOf)
    BY <2>1, DisarmDrops
  <2> QED
    BY <1>2, <2>2, AppendProperties DEF TimerOf
<1> HIDE DEF z
<1>9. DOMAIN f = DOMAIN p.handlers \cup {r} /\ f[r] = [cmd |-> id, done |-> FALSE]
      /\ \A x \in DOMAIN p.handlers \ {r} : f[x] = p.handlers[x]
  BY <1>5
<1> HIDE DEF f
<1>10. t = Append(Disarm(p.timers, r), r)
  BY <1>5
<1> HIDE DEF t
<1>11. /\ q \in PoolRecord /\ q.handlers = f /\ q.timers = t /\ q.inbox = z.inbox
       /\ q.st = z.st
  BY <1>3, <1>7, <1>8 DEF PoolRecord
<1> HIDE DEF p, id, r, q
<1>12. CASE Thread(h, q, <<>>)
  <2>1. Pays(p, q, <<>>)
    BY <1>1, <1>2, <1>5, <1>9, <1>10, <1>11, TakesRequest DEF r, id
  <2> QED
    BY <1>12, <2>1, ThreadPays DEF p
<1>13. CASE Thread(h, z, <<Ack("submit", id, FALSE)>>)
  <2>1. Head(p.inbox).op # "exit"
    BY <1>2, LifecycleAssumption DEF r
  <2>2. Ack("submit", id, FALSE) \in Answer /\ Call(Ack("submit", id, FALSE)) = Asks(Head(p.inbox))
    BY <1>4 DEF Ack, Answer, Call
  <2>3. Pays(p, z, <<Ack("submit", id, FALSE)>>)
    BY <1>1, <1>2, <1>3, <1>5, <2>1, <2>2, ReadsOnly
  <2> QED
    BY <1>13, <2>3, ThreadPays DEF p
<1> QED
  BY <1>6, <1>12, <1>13

\* A command is dropped.
LEMMA DroppedKeeps ==
    ASSUME LifeInv, NEW h \in Handles, Dropped(h)
    PROVE  LifeInv'
<1> DEFINE p == pools[h]
           q == [p EXCEPT !.inbox = Tail(@)]
<1>1. Sound(p) /\ p \in PoolRecord
  BY PoolOf
<1>2. p.st # "Closed" /\ p.inbox # <<>> /\ Head(p.inbox).op \in Req \cup {"refresh"}
      /\ Thread(h, q, <<>>)
  BY DEF Dropped, In, Receives, Received
<1>3. Head(p.inbox).op # "exit"
  BY <1>2, LifecycleAssumption
<1>4. q \in PoolRecord
  BY <1>1, <1>2, ReceivedIs
<1>5. /\ q.inbox = Tail(p.inbox) /\ q.timers = p.timers /\ q.handlers = p.handlers
      /\ q.st = p.st /\ q.cmd = p.cmd /\ q.refresh = p.refresh
  BY <1>1 DEF PoolRecord
<1> HIDE DEF p, q
<1>6. Pays(p, q, <<>>)
  BY <1>1, <1>2, <1>3, <1>4, <1>5, ReadsOnly
<1> QED
  BY <1>2, <1>6, ThreadPays DEF p

\* A catch-up goes on in another state, ends with an answer to its call, or
\* ends without one.
LEMMA CatchupKeeps ==
    ASSUME LifeInv, NEW h \in Handles,
           CatchupTargetNotFound(h) \/ CatchupRestart(h) \/ CatchupTargetFound(h) \/ Synced(h)
    PROVE  LifeInv'
<1> DEFINE p == pools[h]
           After == AfterStatus(p.timers)
           To(s, t) == [p EXCEPT !.st = s, !.timers = t]
<1>1. Sound(p) /\ p \in PoolRecord
  BY PoolOf
<1>2. p.st \in {"GettingCatchupTarget", "SyncCatchup"}
  BY DEF CatchupTargetNotFound, CatchupRestart, CatchupTargetFound, Synced, In
<1>3. \/ \E s \in {"GettingCatchupTarget", "SyncCatchup", "Terminated"}, t \in After :
            Thread(h, To(s, t), <<>>)
      \/ \E s \in {"Active", "Terminated"}, t \in After, ok \in BOOLEAN :
            Thread(h, To(s, t), <<AckOf(p, ok)>>)
  <2>1. CASE CatchupTargetNotFound(h)
    BY <2>1 DEF CatchupTargetNotFound
  <2>2. CASE CatchupRestart(h)
    <3>1. p.st = "GettingCatchupTarget"
      BY <2>2 DEF CatchupRestart, In
    <3>2. PICK t \in After : Thread(h, To(IF NodesKnown THEN p.st ELSE "Terminated", t), <<>>)
      BY <2>2 DEF CatchupRestart
    <3> QED
      BY <3>1, <3>2
  <2>3. CASE CatchupTargetFound(h)
    <3>1. PICK t \in After :
             Thread(h, To(IF NodesKnown THEN "SyncCatchup" ELSE "Terminated", t), <<>>)
      BY <2>3 DEF CatchupTargetFound
    <3> QED
      BY <3>1
  <2>4. CASE Synced(h)
    <3>1. PICK t \in After :
             Thread(h, To("Active", t), <<AckOf(p, TRUE)>>) \/ Thread(h, To("Terminated", t), <<>>)
      BY <2>4 DEF Synced
    <3> QED
      BY <3>1
  <2> QED
    BY <2>1, <2>2, <2>3, <2>4
<1>4. ASSUME NEW s \in {"GettingCatchupTarget", "SyncCatchup", "Terminated", "Active"},
             NEW t \in Seq(TimerOf)
      PROVE  /\ To(s, t) \in PoolRecord /\ To(s, t).st = s /\ To(s, t).inbox = p.inbox
             /\ To(s, t).handlers = p.handlers /\ To(s, t).timers = t
             /\ To(s, t).cmd = p.cmd /\ To(s, t).refresh = p.refresh
  BY <1>1 DEF PoolRecord, State
<1>5. ASSUME NEW ok \in BOOLEAN
      PROVE  AckOf(p, ok) \in Answer /\ Call(AckOf(p, ok)) = Call(AckOf(p, TRUE))
  <2>1. p.cmd \in Nat
    BY <1>1, PoolFields
  <2> QED
    BY <2>1 DEF AckOf, Ack, Answer, Call
<1>6. \A t \in After : t \in Seq(TimerOf) /\ Distinct(t)
  <2>1. p.timers \in Seq(TimerOf) /\ Distinct(p.timers)
    BY <1>1, PoolFields DEF Sound, Timed
  <2> QED
    BY <2>1, LeftBehind
<1> HIDE DEF p, To, After
<1>7. ASSUME NEW s \in {"GettingCatchupTarget", "SyncCatchup", "Terminated", "Active"},
             NEW t \in After
      PROVE  /\ Pays(p, To(s, t), <<>>)
             /\ s \notin {"GettingCatchupTarget", "SyncCatchup"} =>
                  \A ok \in BOOLEAN : Pays(p, To(s, t), <<AckOf(p, ok)>>)
  <2> DEFINE q == To(s, t)
  <2>1. /\ q \in PoolRecord /\ q.st = s /\ q.inbox = p.inbox
        /\ q.handlers = p.handlers /\ Distinct(q.timers)
        /\ q.cmd = p.cmd /\ q.refresh = p.refresh
    BY <1>4, <1>6
  <2> HIDE DEF q
  <2>2. /\ Syncing(q) \subseteq Syncing(p)
        /\ s \notin {"GettingCatchupTarget", "SyncCatchup"} => Syncing(q) = {}
    BY <1>2, <2>1 DEF Syncing, AckOf, Ack, Call
  <2>3. /\ Pays(p, q, <<>>)
        /\ \A a \in Answer : Syncing(q) = {} /\ Call(a) = Call(AckOf(p, TRUE)) =>
              Pays(p, q, <<a>>)
    BY <1>1, <1>2, <2>1, <2>2, CatchesUp
  <2> QED
    BY <2>2, <2>3, <1>5 DEF q
<1>8. CASE \E s \in {"GettingCatchupTarget", "SyncCatchup", "Terminated"}, t \in After :
              Thread(h, To(s, t), <<>>)
  <2>1. PICK s \in {"GettingCatchupTarget", "SyncCatchup", "Terminated"}, t \in After :
           Thread(h, To(s, t), <<>>)
    BY <1>8
  <2> QED
    BY <2>1, <1>7, ThreadPays DEF p
<1>9. CASE \E s \in {"Active", "Terminated"}, t \in After, ok \in BOOLEAN :
              Thread(h, To(s, t), <<AckOf(p, ok)>>)
  <2>1. PICK s \in {"Active", "Terminated"}, t \in After, ok \in BOOLEAN :
           Thread(h, To(s, t), <<AckOf(p, ok)>>)
    BY <1>9
  <2>2. Pays(p, To(s, t), <<AckOf(p, ok)>>)
    BY <2>1, <1>7
  <2> QED
    BY <2>1, <2>2, ThreadPays DEF p
<1> QED
  BY <1>3, <1>8, <1>9

\* The nodes answer a request, and its handler goes.
LEMMA NodeReplyKeeps ==
    ASSUME LifeInv, NEW h \in Handles, NEW r \in Req, NodeReply(h, r)
    PROVE  LifeInv'
<1> DEFINE p == pools[h]
           f == Without(p.handlers, r)
           t == Disarm(p.timers, r)
           q == [p EXCEPT !.handlers = f, !.timers = t]
           a == Ack("submit", p.handlers[r].cmd, TRUE)
<1>1. Sound(p) /\ p \in PoolRecord
  BY PoolOf
<1>2. p.st = "Active" /\ r \in Unanswered(p) /\ Thread(h, q, <<a>>)
  BY DEF NodeReply, In
<1>3. /\ p.handlers \in Handlers /\ p.timers \in Seq(TimerOf) /\ Distinct(p.timers)
      /\ \A x \in DOMAIN p.handlers : p.handlers[x] \in Handler
      /\ \A x \in DOMAIN p.handlers :
           p.handlers[x].done => \A i \in 1..Len(p.timers) : p.timers[i] # x
  BY <1>1, PoolFields, HandlersAre DEF Sound, Timed
<1>4. /\ DOMAIN f = DOMAIN p.handlers \ {r}
      /\ \A x \in DOMAIN p.handlers \ {r} : f[x] = p.handlers[x]
      /\ f \in [DOMAIN f -> Handler]
  BY <1>3 DEF Without, Restrict
<1> HIDE DEF f
<1>5. f \in Handlers
  BY <1>3, <1>4, HandlersChange
<1>6. /\ t \in Seq(TimerOf) /\ Distinct(t)
      /\ \A i \in 1..Len(t) : t[i] # r /\ \E j \in 1..Len(p.timers) : t[i] = p.timers[j]
  BY <1>3, DisarmDrops
<1> HIDE DEF t
<1>7. /\ q \in PoolRecord /\ q.handlers = f /\ q.timers = t /\ q.inbox = p.inbox
      /\ q.st = p.st
  BY <1>1, <1>5, <1>6 DEF PoolRecord
<1>8. a \in Answer /\ a.kind = "submit" /\ a.id = p.handlers[r].cmd
  BY <1>2, <1>3 DEF Ack, Answer, Unanswered, Handler
<1> HIDE DEF p, q, a
<1>9. Timed(q)
  BY <1>3, <1>4, <1>6, <1>7 DEF Timed
<1>10. /\ Unanswered(q) \subseteq Unanswered(p) \ {r}
       /\ \A x \in Unanswered(q) : q.handlers[x].cmd = p.handlers[x].cmd
  BY <1>4, <1>7 DEF Unanswered
<1>11. Pays(p, q, <<a>>)
  BY <1>1, <1>2, <1>7, <1>8, <1>9, <1>10, AnswersRequest
<1> QED
  BY <1>2, <1>11, ThreadPays DEF p

\* The earliest timer fires: a request that has one was not answered before.
LEMMA TimeoutKeeps ==
    ASSUME LifeInv, NEW h \in Handles, TimeoutStep(h)
    PROVE  LifeInv'
<1> DEFINE p == pools[h]
           r == Head(p.timers)
           z == [p EXCEPT !.timers = Tail(@)]
           q == [z EXCEPT !.handlers[r].done = TRUE]
           a == Ack("submit", z.handlers[r].cmd, FALSE)
<1>1. Sound(p) /\ p \in PoolRecord
  BY PoolOf
<1>2. /\ p.timers # <<>>
      /\ \/ p.st \in {"GettingCatchupTarget", "SyncCatchup"} /\ Thread(h, z, <<>>)
         \/ p.st = "Active" /\ r \in DOMAIN z.handlers /\ Thread(h, q, <<a>>)
  BY DEF TimeoutStep, In
<1>3. /\ p.handlers \in Handlers /\ p.timers \in Seq(TimerOf) /\ Distinct(p.timers)
      /\ \A x \in DOMAIN p.handlers : p.handlers[x] \in Handler
      /\ \A x \in DOMAIN p.handlers :
           p.handlers[x].done => \A i \in 1..Len(p.timers) : p.timers[i] # x
  BY <1>1, PoolFields, HandlersAre DEF Sound, Timed
<1>4. /\ r = p.timers[1] /\ Tail(p.timers) \in Seq(TimerOf) /\ Len(p.timers) \in Nat \ {0}
      /\ Len(Tail(p.timers)) = Len(p.timers) - 1
      /\ \A i \in 1..Len(Tail(p.timers)) : Tail(p.timers)[i] = p.timers[i + 1]
      /\ r \in TimerOf
  BY <1>2, <1>3, HeadTailProperties, LenProperties, EmptySeq
<1> DEFINE t == Tail(p.timers)
<1>5. /\ z \in PoolRecord /\ z.inbox = p.inbox /\ z.handlers = p.handlers /\ z.st = p.st
      /\ z.timers = t /\ z.cmd = p.cmd /\ z.refresh = p.refresh
  BY <1>1, <1>4 DEF PoolRecord
<1> HIDE DEF r, t
<1>6. /\ Distinct(t)
      /\ \A i \in 1..Len(t) : t[i] # r /\ \E j \in 1..Len(p.timers) : t[i] = p.timers[j]
  <2>1. \A i \in 1..Len(t) : i + 1 \in 1..Len(p.timers) /\ t[i] = p.timers[i + 1] /\ i + 1 # 1
    BY <1>4 DEF t
  <2>2. \A i, j \in 1..Len(t) : i + 1 = j + 1 => i = j
    OBVIOUS
  <2>3. Distinct(t)
    BY <1>3, <2>1, <2>2 DEF Distinct
  <2>4. \A i \in 1..Len(t) : p.timers[i + 1] # r
    <3>1. 1 \in 1..Len(p.timers)
      BY <1>4
    <3> QED
      BY <1>3, <1>4, <2>1, <3>1 DEF Distinct
  <2> QED
    BY <2>1, <2>3, <2>4
<1>7. CASE p.st \in {"GettingCatchupTarget", "SyncCatchup"} /\ Thread(h, z, <<>>)
  <2> HIDE DEF p, z
  <2>1. Syncing(z) = Syncing(p)
    BY <1>5 DEF Syncing, AckOf, Ack, Call
  <2>2. Pays(p, z, <<>>)
    BY <1>1, <1>5, <1>6, <1>7, <2>1, CatchesUp
  <2> QED
    BY <1>7, <2>2, ThreadPays DEF p
<1>8. CASE p.st = "Active" /\ r \in DOMAIN z.handlers /\ Thread(h, q, <<a>>)
  <2> DEFINE v == [z.handlers[r] EXCEPT !.done = TRUE]
             f == [z.handlers EXCEPT ![r] = v]
  <2>1. r \in DOMAIN p.handlers /\ p.handlers[r].done = FALSE
    <3>1. 1 \in 1..Len(p.timers) /\ r \in DOMAIN p.handlers
      BY <1>4, <1>5, <1>8
    <3>2. ~p.handlers[r].done
      BY <1>3, <1>4, <3>1
    <3> QED
      BY <1>3, <3>1, <3>2 DEF Handler
  <2>2. q = [z EXCEPT !.handlers = f]
    OBVIOUS
  <2> HIDE DEF z
  <2>3. v \in Handler /\ v.done = TRUE /\ v.cmd = p.handlers[r].cmd
    BY <1>3, <1>5, <2>1 DEF Handler
  <2> HIDE DEF v
  <2>4. /\ DOMAIN f = DOMAIN p.handlers /\ f[r] = v
        /\ \A x \in DOMAIN p.handlers : x # r => f[x] = p.handlers[x]
        /\ f \in [DOMAIN f -> Handler]
    BY <1>3, <1>5, <2>1, <2>3
  <2> HIDE DEF f
  <2>5. f \in Handlers
    <3>1. r \in Req
      BY <1>3, <2>1, HandlersAre
    <3> QED
      BY <1>3, <2>4, <3>1, HandlersChange
  <2>6. /\ q \in PoolRecord /\ q.handlers = f /\ q.inbox = p.inbox /\ q.st = p.st
        /\ q.timers = t
    BY <1>5, <2>2, <2>5 DEF PoolRecord
  <2>7. a \in Answer /\ a.kind = "submit" /\ a.id = p.handlers[r].cmd
    BY <1>3, <1>5, <2>1 DEF Ack, Answer, Handler
  <2> HIDE DEF p, q, a
  <2>8. Timed(q)
    <3> SUFFICES ASSUME NEW x \in DOMAIN q.handlers, q.handlers[x].done,
                        NEW i \in 1..Len(q.timers)
                 PROVE  q.timers[i] # x
      BY <1>6, <2>6 DEF Timed
    <3>1. CASE x = r
      BY <3>1, <1>6, <2>6
    <3>2. CASE x # r
      BY <3>2, <1>3, <1>6, <2>4, <2>6
    <3> QED
      BY <3>1, <3>2
  <2>9. /\ Unanswered(q) \subseteq Unanswered(p) \ {r} /\ r \in Unanswered(p)
        /\ \A x \in Unanswered(q) : q.handlers[x].cmd = p.handlers[x].cmd
    BY <2>1, <2>3, <2>4, <2>6 DEF Unanswered
  <2>10. Pays(p, q, <<a>>)
    BY <1>1, <1>8, <2>6, <2>7, <2>8, <2>9, AnswersRequest
  <2> QED
    BY <1>8, <2>10, ThreadPays DEF p
<1> QED
  BY <1>2, <1>7, <1>8

\* A call is new: its id is the next one.
LEMMA FreshCall ==
    ASSUME LifeInv, NEW kind \in {"refresh", "submit", "close"}
    PROVE  /\ <<kind, calls + 1>> \notin Called
           /\ \A h \in Handles : <<kind, calls + 1>> \notin Owed(pools[h])
           /\ <<kind, calls + 1>> \notin Answered(acks)
<1>1. calls \in Nat /\ Called \subseteq GivenOut
  BY DEF LifeInv
<1>2. <<kind, calls + 1>> \notin GivenOut
  BY <1>1 DEF GivenOut
<1> QED
  BY <1>1, <1>2 DEF LifeInv

\* A pool is sent a command: it owes the call, at most.
LEMMA OwesMore ==
    ASSUME NEW p, Sound(p), NEW q \in PoolRecord, NEW c, c \notin Owed(p),
           q.st = p.st, q.cmd = p.cmd, q.refresh = p.refresh,
           q.handlers = p.handlers, q.timers = p.timers,
           p.st # "Closed" =>
              AskedOnce(q.inbox) /\ Queued(q.inbox) \subseteq Queued(p.inbox) \cup {c}
    PROVE  Sound(q) /\ Owed(q) \subseteq Owed(p) \cup {c}
<1>1. Unanswered(q) = Unanswered(p)
  BY DEF Unanswered
<1>2. Pending(q) = Pending(p) /\ Syncing(q) = Syncing(p)
  BY <1>1 DEF Pending, Syncing, AckOf, Ack, Call
<1>3. Timed(q) /\ Phased(q)
  BY DEF Sound, Timed, Phased
<1>4. CASE p.st = "Closed"
  BY <1>3, <1>4 DEF Sound, Owed
<1>5. CASE p.st # "Closed"
  <2>1. OwedOnce(p) /\ c \notin Syncing(p) \cup Pending(p)
    BY <1>5 DEF Sound, Owed
  <2>2. OwedOnce(q)
    BY <1>1, <1>2, <1>5, <2>1 DEF OwedOnce
  <2> QED
    BY <1>2, <1>3, <1>5, <2>2 DEF Sound, Owed
<1> QED
  BY <1>4, <1>5

\* The executor sends a pool the command of a new call.
LEMMA CallsPool ==
    ASSUME LifeInv, NEW h \in Handles, NEW kind \in {"refresh", "submit", "close"},
           NEW q, Sound(q), Owed(q) \subseteq Owed(pools[h]) \cup {<<kind, calls + 1>>},
           pools' = [pools EXCEPT ![h] = q], acks' = acks, calls' = calls + 1,
           Called' = Called \cup {<<kind, calls + 1>>}, Closing' \cap callbacks' = {}
    PROVE  LifeInv'
<1> DEFINE c == <<kind, calls + 1>>
<1>1. /\ c \notin Called /\ c \notin Answered(acks)
      /\ \A g \in Handles : c \notin Owed(pools[g])
  BY FreshCall
<1>2. /\ pools' \in Seq(PoolRecord) /\ Handles' = Handles /\ Len(pools') = Len(pools)
      /\ pools'[h] = q /\ \A g \in Handles : g # h => pools'[g] = pools[g]
  BY OnePool DEF Sound
<1>3. calls \in Nat /\ calls' \in Nat /\ Called \subseteq GivenOut
  BY DEF LifeInv
<1>4. GivenOut \subseteq GivenOut' /\ c \in GivenOut'
  BY <1>2, <1>3 DEF GivenOut
<1>5. ASSUME NEW g \in Handles
      PROVE  /\ Sound(pools'[g]) /\ Owed(pools'[g]) \subseteq Owed(pools[g]) \cup {c}
             /\ g # h => Owed(pools'[g]) = Owed(pools[g])
  <2>1. Sound(pools[g])
    BY DEF LifeInv
  <2> QED
    BY <2>1, <1>2
<1> HIDE DEF c
<1>6. Called' = Called \cup {c}
  BY DEF c
<1>7. \A g \in Handles :
        Owed(pools'[g]) \subseteq Called' /\ Owed(pools'[g]) \cap Answered(acks) = {}
  BY <1>1, <1>5, <1>6 DEF LifeInv
<1>8. ASSUME NEW f \in Handles, NEW g \in Handles, f # g
      PROVE  Owed(pools'[f]) \cap Owed(pools'[g]) = {}
  <2>1. Owed(pools[f]) \cap Owed(pools[g]) = {}
    BY <1>8 DEF LifeInv
  <2>2. f # h \/ g # h
    BY <1>8
  <2> QED
    BY <2>1, <2>2, <1>1, <1>5
<1>9. Answered(acks) \subseteq Called' /\ AnswersOnce(acks) /\ acks \in Seq(Answer)
  BY <1>6 DEF LifeInv
<1>10. Called' \subseteq GivenOut'
  BY <1>3, <1>4, <1>6
<1> QED
  BY <1>2, <1>3, <1>5, <1>7, <1>8, <1>9, <1>10 DEF LifeInv

\* A refresh or a request is sent to an open pool.
LEMMA SendActionKeeps ==
    ASSUME LifeInv, NEW h \in Handles, NEW kind, NEW op, SendAction(h, kind, op),
           (kind = "refresh" /\ op = "refresh") \/ (kind = "submit" /\ op \in Req)
    PROVE  LifeInv'
<1> DEFINE p == pools[h]
           m == Command(op, calls + 1)
           c == <<kind, calls + 1>>
           q == [p EXCEPT !.inbox = Append(@, m)]
<1>1. Sound(p) /\ p \in PoolRecord /\ p.inbox \in Seq(Commanded) /\ calls \in Nat
  BY PoolOf, PoolFields DEF LifeInv
<1>2. /\ pools' = [pools EXCEPT ![h] = q] /\ acks' = acks /\ calls' = calls + 1
      /\ callbacks' = callbacks \cup {c} /\ joining' = joining /\ joining = <<>>
  BY DEF SendAction, Idle
<1>3. m \in Commanded /\ m.op = op /\ m.id = calls + 1
  BY <1>1 DEF Command, Commanded
<1>4. Asks(m) = c
  BY <1>3, AsksBy
<1>5. kind \in {"refresh", "submit", "close"}
  OBVIOUS
<1>6. c \notin Owed(p)
  BY <1>5, FreshCall
<1>7. Append(p.inbox, m) \in Seq(Commanded)
  BY <1>1, <1>3, AppendProperties
<1>8. /\ q \in PoolRecord /\ q.inbox = Append(p.inbox, m) /\ q.st = p.st /\ q.cmd = p.cmd
      /\ q.refresh = p.refresh /\ q.handlers = p.handlers /\ q.timers = p.timers
  BY <1>1, <1>7 DEF PoolRecord
<1> HIDE DEF p, m, q
<1>9. ASSUME p.st # "Closed"
      PROVE  AskedOnce(q.inbox) /\ Queued(q.inbox) \subseteq Queued(p.inbox) \cup {c}
  <2>1. AskedOnce(p.inbox) /\ c \notin Queued(p.inbox)
    BY <1>1, <1>6, <1>9 DEF Sound, OwedOnce, Owed
  <2> QED
    BY <1>1, <1>3, <1>4, <1>8, <2>1, QueueOne
<1>10. Sound(q) /\ Owed(q) \subseteq Owed(p) \cup {c}
  <2> HIDE DEF c
  <2> QED
    BY <1>1, <1>6, <1>8, <1>9, OwesMore
<1>11. Called' = Called \cup {c} /\ Closing' \cap callbacks' = {}
  BY <1>2 DEF Called, Closing, Idle
<1> QED
  BY <1>2, <1>5, <1>10, <1>11, CallsPool DEF p

\* A close is sent to an open pool: exit, and exit again.
LEMMA CloseKeeps ==
    ASSUME LifeInv, NEW h \in Handles, Close(h)
    PROVE  LifeInv'
<1> DEFINE p == pools[h]
           m == Command("exit", calls + 1)
           n == Command("exit", 0)
           c == <<"close", calls + 1>>
           box == p.inbox \o <<m, n>>
           q == [p EXCEPT !.reg = "gone", !.inbox = box]
<1>1. Sound(p) /\ p \in PoolRecord /\ p.inbox \in Seq(Commanded) /\ calls \in Nat
  BY PoolOf, PoolFields DEF LifeInv
<1>2. /\ pools' = [pools EXCEPT ![h] = q] /\ acks' = acks /\ calls' = calls + 1
      /\ callbacks' = callbacks /\ joining' = <<h, calls + 1>> /\ joining = <<>>
  BY DEF Close, Idle
<1>3. m \in Commanded /\ m.op = "exit" /\ m.id = calls + 1 /\ n \in Commanded
  BY <1>1 DEF Command, Commanded
<1>4. Asks(m) = c
  BY <1>3, AsksBy
<1>5. /\ c \notin Owed(p) /\ c \notin Called
  BY FreshCall
<1> HIDE DEF m, n
<1>6. box \in Seq(Commanded)
  <2>1. <<m, n>> \in Seq(Commanded)
    BY <1>3
  <2> QED
    BY <1>1, <2>1, ConcatProperties
<1> HIDE DEF box
<1>7. /\ q \in PoolRecord /\ q.inbox = box /\ q.st = p.st /\ q.cmd = p.cmd
      /\ q.refresh = p.refresh /\ q.handlers = p.handlers /\ q.timers = p.timers
  BY <1>1, <1>6 DEF PoolRecord
<1> HIDE DEF p, q
<1>8. ASSUME p.st # "Closed"
      PROVE  AskedOnce(q.inbox) /\ Queued(q.inbox) \subseteq Queued(p.inbox) \cup {c}
  <2>1. AskedOnce(p.inbox) /\ c \notin Queued(p.inbox)
    BY <1>1, <1>5, <1>8 DEF Sound, OwedOnce, Owed
  <2>2. /\ AskedOnce(Append(p.inbox, m))
        /\ Queued(Append(p.inbox, m)) \subseteq Queued(p.inbox) \cup {c}
    BY <1>1, <1>3, <1>4, <2>1, QueueOne
  <2>3. AskedOnce(box) /\ Queued(box) \subseteq Queued(Append(p.inbox, m))
    BY <1>1, <1>3, <2>2, QueueBehindExit DEF box
  <2> QED
    BY <1>7, <2>2, <2>3
<1>9. Sound(q) /\ Owed(q) \subseteq Owed(p) \cup {c}
  BY <1>1, <1>5, <1>7, <1>8, OwesMore
<1>10. Closing = {} /\ Closing' = {c}
  <2>1. joining' # <<>> /\ joining'[2] = calls + 1
    BY <1>2
  <2> QED
    BY <1>2, <2>1 DEF Closing, Idle
<1>11. Called' = Called \cup {c} /\ Closing' \cap callbacks' = {}
  BY <1>2, <1>5, <1>10 DEF Called
<1> QED
  BY <1>2, <1>9, <1>11, CallsPool DEF p

\* A new pool owes its opening and nothing else.
LEMMA NewPool ==
    ASSUME NEW n \in Name, NEW k \in Nat
    PROVE  LET q == [PoolNew(n) EXCEPT !.inbox = <<Command("connect", k)>>]
           IN  Sound(q) /\ Owed(q) = {<<"open", k>>}
<1> DEFINE m == Command("connect", k)
           q == [PoolNew(n) EXCEPT !.inbox = <<m>>]
<1>1. m \in Commanded /\ m.op = "connect" /\ m.id = k
  BY DEF Command, Commanded
<1>2. Asks(m) = <<"open", k>>
  BY <1>1, AsksBy
<1> HIDE DEF m
<1>3. <<m>> \in Seq(Commanded) /\ Len(<<m>>) = 1 /\ <<m>>[1] = m
  BY <1>1
<1> DEFINE box == <<m>>
<1>4. /\ q \in PoolRecord /\ q.inbox = box /\ q.st = "Initialization"
      /\ q.refresh = FALSE /\ q.handlers = NoHandlers /\ q.timers = <<>>
  <2> DEFINE c == PoolNew(n)
  <2>1. box \in Seq(Commanded) /\ <<>> \in Seq(TimerOf) /\ <<>> \in Seq(Commanded)
        /\ NoHandlers \in Handlers
    BY <1>3, NoHandlersAre
  <2> HIDE DEF box
  <2>2. /\ c \in PoolRecord /\ c.st = "Initialization" /\ c.refresh = FALSE
        /\ c.handlers = NoHandlers /\ c.timers = <<>>
    BY <2>1 DEF PoolNew, PoolRecord, State
  <2>3. q = [c EXCEPT !.inbox = box]
    BY DEF box
  <2> HIDE DEF q, c
  <2> QED
    BY <2>1, <2>2, <2>3 DEF PoolRecord
<1> HIDE DEF box, q
<1>5. box \in Seq(Commanded) /\ Len(box) = 1 /\ box[1] = m
  BY <1>3 DEF box
<1>6. AskedOnce(box)
  BY <1>5 DEF AskedOnce
<1>7. Queued(box) = {Asks(m)}
  <2>1. Readable(box, 1)
    BY <1>5 DEF Readable
  <2>2. {j \in 1..Len(box) : Readable(box, j)} = {1}
    BY <1>5, <2>1
  <2> QED
    BY <1>5, <2>2 DEF Queued
<1>8. Unanswered(q) = {} /\ Pending(q) = {}
  BY <1>4, NoHandlersAre, NoRequests
<1>9. Syncing(q) = {}
  BY <1>4 DEF Syncing
<1>10. Timed(q) /\ Phased(q)
  BY <1>4, NoHandlersAre DEF Timed, Phased, Distinct
<1>11. Sound(q)
  BY <1>4, <1>6, <1>8, <1>9, <1>10 DEF Sound, OwedOnce
<1>12. Owed(q) = {<<"open", k>>}
  BY <1>2, <1>4, <1>7, <1>8, <1>9 DEF Owed
<1> QED
  BY <1>11, <1>12 DEF q, m

\* A pool is opened under the next handle.
LEMMA OpenKeeps ==
    ASSUME LifeInv, NEW n \in Name, Open(n)
    PROVE  LifeInv'
<1> DEFINE k == Len(pools) + 1
           c == <<"open", k>>
           q == [PoolNew(n) EXCEPT !.inbox = <<Command("connect", k)>>]
<1>1. pools \in Seq(PoolRecord) /\ Len(pools) \in Nat /\ calls \in Nat /\ k \in Nat
  BY LenProperties DEF LifeInv
<1>2. /\ pools' = Append(pools, q) /\ callbacks' = callbacks \cup {c}
      /\ acks' = acks /\ calls' = calls /\ joining' = joining
  BY DEF Open
<1>3. Sound(q) /\ Owed(q) = {c}
  BY <1>1, NewPool
<1> HIDE DEF q
<1>4. /\ pools' \in Seq(PoolRecord) /\ Len(pools') = Len(pools) + 1
      /\ \A g \in Handles : pools'[g] = pools[g]
      /\ pools'[k] = q
  BY <1>1, <1>2, <1>3, AppendProperties DEF Sound, Handles
<1>5. Handles' = Handles \cup {k} /\ k \notin Handles
  BY <1>1, <1>4 DEF Handles
<1>6. c \notin GivenOut /\ c \in GivenOut' /\ GivenOut \subseteq GivenOut'
  BY <1>1, <1>2, <1>4 DEF GivenOut
<1>7. Closing' = Closing /\ Called' = Called \cup {c}
  BY <1>2 DEF Closing, Called, Idle
<1> HIDE DEF c, k
<1>8. c \notin Called /\ Called' \subseteq GivenOut'
  BY <1>6, <1>7 DEF LifeInv
<1>9. Closing' \cap callbacks' = {}
  <2>1. Closing \cap callbacks = {} /\ c \notin Closing
    BY <1>8 DEF LifeInv, Called
  <2> QED
    BY <1>2, <1>7, <2>1
<1>10. ASSUME NEW g \in Handles'
       PROVE  /\ Sound(pools'[g]) /\ Owed(pools'[g]) \subseteq Called'
              /\ Owed(pools'[g]) \cap Answered(acks) = {}
              /\ g \in Handles => Owed(pools'[g]) = Owed(pools[g]) /\ c \notin Owed(pools'[g])
              /\ g = k => Owed(pools'[g]) = {c}
  <2>1. CASE g \in Handles
    <3>1. /\ Sound(pools[g]) /\ Owed(pools[g]) \subseteq Called
          /\ Owed(pools[g]) \cap Answered(acks) = {}
      BY <2>1 DEF LifeInv
    <3> QED
      BY <2>1, <3>1, <1>4, <1>5, <1>7, <1>8
  <2>2. CASE g = k
    <3>1. Answered(acks) \subseteq Called
      BY DEF LifeInv
    <3> QED
      BY <2>2, <3>1, <1>3, <1>4, <1>5, <1>7, <1>8
  <2> QED
    BY <2>1, <2>2, <1>5
<1>11. ASSUME NEW f \in Handles', NEW g \in Handles', f # g
       PROVE  Owed(pools'[f]) \cap Owed(pools'[g]) = {}
  <2>1. CASE f \in Handles /\ g \in Handles
    <3>1. Owed(pools[f]) \cap Owed(pools[g]) = {}
      BY <1>11, <2>1 DEF LifeInv
    <3> QED
      BY <2>1, <3>1, <1>10
  <2>2. CASE f = k \/ g = k
    BY <2>2, <1>5, <1>10, <1>11
  <2> QED
    BY <2>1, <2>2, <1>5
<1>12. Answered(acks) \subseteq Called' /\ AnswersOnce(acks) /\ acks \in Seq(Answer)
  BY <1>7 DEF LifeInv
<1> QED
  BY <1>1, <1>2, <1>4, <1>8, <1>9, <1>10, <1>11, <1>12 DEF LifeInv

\* The join is over and the callback of the close registered.
LEMMA JoinedKeeps ==
    ASSUME LifeInv, Joined
    PROVE  LifeInv'
<1>1. /\ callbacks' = callbacks \cup {<<"close", joining[2]>>} /\ joining' = <<>>
      /\ joining # <<>> /\ UNCHANGED <<pools, calls, acks>>
  BY DEF Joined, Idle
<1>2. Closing' = {} /\ Called' = Called /\ GivenOut' = GivenOut /\ Handles' = Handles
  BY <1>1 DEF Closing, Called, Idle, GivenOut, Handles
<1> QED
  BY <1>1, <1>2 DEF LifeInv

\* The executor takes an answer off its queue: the call is over.
LEMMA ProcessAckKeeps ==
    ASSUME LifeInv, ProcessAck
    PROVE  LifeInv'
<1> DEFINE a == Head(acks)
           c == Call(a)
<1>1. /\ acks \in Seq(Answer) /\ acks # <<>> /\ joining = <<>> /\ joining' = <<>>
      /\ acks' = Tail(acks) /\ callbacks' = callbacks \ {c} /\ calls' = calls
      /\ \/ pools' = pools
         \/ /\ a.kind = "open" /\ c \in callbacks
            /\ pools' = [pools EXCEPT ![a.id] = [pools[a.id] EXCEPT !.reg = "open"]]
  BY DEF ProcessAck, Idle, LifeInv, Call
<1>2. /\ Closing = {} /\ Closing' = {} /\ Called = callbacks /\ Called' = Called \ {c}
  BY <1>1 DEF Closing, Called, Idle
<1>3. /\ Tail(acks) \in Seq(Answer) /\ Len(acks) \in Nat \ {0}
      /\ Len(Tail(acks)) = Len(acks) - 1 /\ a = acks[1]
      /\ \A i \in 1..Len(Tail(acks)) : Tail(acks)[i] = acks[i + 1]
  BY <1>1, HeadTailProperties, LenProperties, EmptySeq
<1>4. c \in Answered(acks)
  BY <1>3 DEF Answered
<1> DEFINE t == Tail(acks)
<1> HIDE DEF a, t
<1>5. \A i \in 1..Len(t) : i + 1 \in 1..Len(acks) /\ t[i] = acks[i + 1] /\ i + 1 # 1
  BY <1>3 DEF t
<1>6. AnswersOnce(acks) /\ 1 \in 1..Len(acks)
  BY <1>3 DEF LifeInv
<1>7. AnswersOnce(t)
  <2> SUFFICES ASSUME NEW i \in 1..Len(t), NEW j \in 1..Len(t), Call(t[i]) = Call(t[j])
               PROVE  i = j
    BY DEF AnswersOnce
  <2>1. i + 1 = j + 1
    BY <1>5, <1>6 DEF AnswersOnce
  <2> QED
    BY <2>1
<1>8. Answered(t) \subseteq Answered(acks) \ {c}
  <2> SUFFICES ASSUME NEW i \in 1..Len(t)
               PROVE  Call(t[i]) \in Answered(acks) /\ Call(t[i]) # Call(acks[1])
    BY <1>3 DEF Answered
  <2> QED
    BY <1>5, <1>6 DEF Answered, AnswersOnce
<1>9. /\ pools' \in Seq(PoolRecord) /\ Handles' = Handles /\ Len(pools') = Len(pools)
      /\ \A g \in Handles : Sound(pools'[g]) /\ Owed(pools'[g]) = Owed(pools[g])
  <2>1. pools \in Seq(PoolRecord) /\ \A g \in Handles : Sound(pools[g])
    BY DEF LifeInv
  <2>2. CASE pools' = pools
    BY <2>1, <2>2 DEF Handles
  <2>3. CASE /\ a.kind = "open" /\ c \in callbacks
             /\ pools' = [pools EXCEPT ![a.id] = [pools[a.id] EXCEPT !.reg = "open"]]
    <3>1. a.id \in Handles
      <4>1. c \in GivenOut
        BY <1>2, <2>3 DEF LifeInv
      <4> QED
        BY <2>3, <4>1 DEF GivenOut, Handles, Call
    <3> DEFINE p == pools[a.id]
               q == [p EXCEPT !.reg = "open"]
    <3>2. Sound(p) /\ p \in PoolRecord
      BY <3>1, PoolOf
    <3>3. /\ q \in PoolRecord /\ q.st = p.st /\ q.cmd = p.cmd /\ q.refresh = p.refresh
          /\ q.inbox = p.inbox /\ q.handlers = p.handlers /\ q.timers = p.timers
      BY <3>2 DEF PoolRecord
    <3> HIDE DEF p, q
    <3>4. Unanswered(q) = Unanswered(p)
      BY <3>3 DEF Unanswered
    <3>5. Pending(q) = Pending(p) /\ Syncing(q) = Syncing(p)
      BY <3>3, <3>4 DEF Pending, Syncing, AckOf, Ack, Call
    <3>6. Owed(q) = Owed(p)
      BY <3>3, <3>5 DEF Owed
    <3>7. Sound(q)
      BY <3>2, <3>3, <3>4, <3>5 DEF Sound, Timed, Phased, OwedOnce
    <3>8. /\ pools' \in Seq(PoolRecord) /\ Handles' = Handles /\ Len(pools') = Len(pools)
          /\ pools'[a.id] = q /\ \A g \in Handles : g # a.id => pools'[g] = pools[g]
      BY <2>3, <3>1, <3>3, OnePool DEF q, p
    <3> QED
      BY <2>1, <3>6, <3>7, <3>8 DEF p
  <2> QED
    BY <1>1, <2>2, <2>3
<1>10. GivenOut' = GivenOut
  BY <1>1, <1>9 DEF GivenOut
<1> HIDE DEF c
<1>11. \A g \in Handles :
        Owed(pools'[g]) \subseteq Called' /\ Owed(pools'[g]) \cap Answered(t) = {}
  BY <1>2, <1>4, <1>8, <1>9 DEF LifeInv
<1>12. \A f, g \in Handles : f # g => Owed(pools'[f]) \cap Owed(pools'[g]) = {}
  BY <1>9 DEF LifeInv
<1>13. Answered(t) \subseteq Called' /\ Called' \subseteq GivenOut'
  BY <1>2, <1>8, <1>10 DEF LifeInv
<1>14. acks' = t /\ t \in Seq(Answer) /\ calls' \in Nat
  BY <1>1, <1>3 DEF t, LifeInv
<1> QED
  BY <1>2, <1>7, <1>9, <1>11, <1>12, <1>13, <1>14 DEF LifeInv

\* A step that leaves the pools and the calls alone preserves the invariant.
LEMMA LifeUntouched ==
    ASSUME LifeInv, UNCHANGED <<pools, calls, callbacks, acks, joining>>
    PROVE  LifeInv'
<1>1. Closing' = Closing /\ Called' = Called /\ GivenOut' = GivenOut /\ Handles' = Handles
  BY DEF Closing, Called, Idle, GivenOut, Handles
<1> QED
  BY <1>1 DEF LifeInv

\* No pool, no call.
LEMMA InitLife == Init => LifeInv
<1> SUFFICES ASSUME Init
             PROVE  LifeInv
  OBVIOUS
<1>1. pools = <<>> /\ calls = 0 /\ callbacks = {} /\ acks = <<>> /\ joining = <<>>
  BY DEF Init
<1>2. Len(<<>>) = 0 /\ <<>> \in Seq(PoolRecord) /\ <<>> \in Seq(Answer)
  BY EmptySeq
<1>3. Handles = {} /\ Closing = {} /\ Called = {}
  BY <1>1, <1>2 DEF Handles, Closing, Called, Idle
<1>4. Answered(acks) = {} /\ AnswersOnce(acks)
  BY <1>1, <1>2 DEF Answered, AnswersOnce
<1> QED
  BY <1>1, <1>2, <1>3, <1>4 DEF LifeInv

\* Every step preserves the invariant: one case per action.
LEMMA NextLife == LifeInv /\ [Next]_vars => LifeInv'
<1> SUFFICES ASSUME LifeInv, [Next]_vars
             PROVE  LifeInv'
  OBVIOUS
<1>1. CASE Executor
  <2>1. CASE \E n \in Name : Create(n) \/ Delete(n)
    BY <2>1, LifeUntouched DEF Create, Delete
  <2>2. CASE \E n \in Name : Open(n)
    BY <2>2, OpenKeeps
  <2>3. CASE \E h \in Handles : Close(h)
    BY <2>3, CloseKeeps
  <2>4. CASE \E h \in Handles : Refresh(h)
    <3>1. PICK h \in Handles : SendAction(h, "refresh", "refresh")
      BY <2>4 DEF Refresh
    <3> QED
      BY <3>1, SendActionKeeps
  <2>5. CASE \E h \in Handles, r \in Req : Submit(h, r)
    <3>1. PICK h \in Handles, r \in Req : SendAction(h, "submit", r)
      BY <2>5 DEF Submit
    <3> QED
      BY <3>1, SendActionKeeps
  <2>6. CASE \E v \in {1, 2} : SetProtocolVersion(v)
    BY <2>6, LifeUntouched DEF SetProtocolVersion
  <2>7. CASE ProcessAck
    BY <2>7, ProcessAckKeeps
  <2>8. CASE Joined
    BY <2>8, JoinedKeeps
  <2> QED
    BY <1>1, <2>1, <2>2, <2>3, <2>4, <2>5, <2>6, <2>7, <2>8 DEF Executor
<1>2. ASSUME NEW h \in Handles, PoolThread(h)
      PROVE  LifeInv'
  <2>1. CASE Commands(h)
    BY <2>1, CheckCacheKeeps, ExitKeeps, RefreshKeeps, SubmitKeeps, DroppedKeeps DEF Commands
  <2>2. CASE CatchupEnds(h)
    BY <2>2, CatchupKeeps DEF CatchupEnds
  <2>3. CASE TimeoutStep(h)
    BY <2>3, TimeoutKeeps
  <2>4. CASE \E r \in Req : NodeReply(h, r)
    BY <2>4, NodeReplyKeeps
  <2> QED
    BY <1>2, <2>1, <2>2, <2>3, <2>4 DEF PoolThread
<1>3. CASE UNCHANGED vars
  BY <1>3, LifeUntouched DEF vars
<1> QED
  BY <1>1, <1>2, <1>3 DEF Next

\* The invariant holds of every state of a process.
LEMMA LifeInductive == Spec => []LifeInv
BY InitLife, NextLife, PTL DEF Spec

\* No answer of a pool goes astray: for every client, every number of pools,
\* names and requests and every order of commands, replies, timeouts and
\* joins, each answer in the executor's queue has its callback, or belongs to
\* the close that is being joined, and no call has two.
THEOREM NoAnswerAstray == Spec => []NoStrayAck
<1>1. LifeInv => NoStrayAck
  <2> SUFFICES ASSUME LifeInv
               PROVE  NoStrayAck
    OBVIOUS
  <2>1. \A i \in 1..Len(acks) : Call(acks[i]) \in Called
    BY DEF LifeInv, Answered
  <2>2. \A i \in 1..Len(acks) :
          \/ Call(acks[i]) \in callbacks
          \/ ~Idle /\ Call(acks[i]) = <<"close", joining[2]>>
    BY <2>1 DEF Called, Closing
  <2>3. IsInjective([i \in 1..Len(acks) |-> Call(acks[i])])
    BY DEF IsInjective, LifeInv, AnswersOnce
  <2> QED
    BY <2>2, <2>3 DEF NoStrayAck
<1> QED
  BY <1>1, LifeInductive, PTL
============================================================================
