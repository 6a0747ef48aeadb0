-------------------------- MODULE PoolCatchupProofs --------------------------
(***************************************************************************)
(* Proofs about PoolCatchup: for every pool, every set of less than a      *)
(* third faulty nodes, whatever each node has of the ledger and whatever   *)
(* the cache holds, a pool synchronises with a prefix of the ledger, the   *)
(* counting of the votes never underflows, and the request for             *)
(* transactions leaves no timer behind; nor do the status requests, from   *)
(* the genesis file and with honest nodes.                                 *)
(***************************************************************************)
EXTENDS PoolCatchup, FiniteSetTheorems, TLAPS

----------------------------------------------------------------------------
(* The inductive invariant *)

Tree == (1..(2 * Wrong)) \ {Wrong}

\* A prefix of the ledger, no longer than what some honest node has.
Known(root) == root \in 1..(Wrong - 1) /\ \E n \in Node \ faulty : root <= length[n]

World ==
    /\ length \in [Node -> 1..(Wrong - 1)]
    /\ faulty \in SUBSET Node /\ 3 * Cardinality(faulty) < N

Stored == tree \in Tree /\ cache \in {NoCache, Torn} \cup Tree

\* A catch-up aims at, and ends with, what an honest node has.
Aimed ==
    /\ result = "synced" => phase = "done" /\ Known(tree)
    /\ phase = "single" => Known(target)

\* The votes of honest nodes are for what they have.
Honestly(R) == \A v : \A n \in Node \ faulty : <<v, n>> \in R => v.root = length[n]

\* No vote has more than k nodes.
AtMost(R, k) == \A v : Cardinality(Voters(R, v)) <= k

\* More votes may come: with f votes for each at most, and N - f still possible,
\* no more than 2 f nodes are counted.
Room(R, T) ==
    IF R # {} THEN Cardinality(R) + Cardinality(T) <= 2 * F ELSE Cardinality(T) < N - F

Counted ==
    /\ IsFiniteSet(replies) /\ IsFiniteSet(timeouts)
    /\ Honestly(replies) /\ AtMost(replies, F)
    /\ phase = "consensus" => Room(replies, timeouts)

\* A timer of request q for node n is armed on connection c of networker w.
Armed(w, c, q, n) == c \in DOMAIN w.conns /\ <<q, n>> \in w.conns[c].timeouts

\* The fields that the events of a catch-up write are there.
Shaped(w) ==
    /\ "conns" \in DOMAIN w /\ "mappings" \in DOMAIN w
    /\ \A c \in DOMAIN w.conns : "timeouts" \in DOMAIN w.conns[c]

\* The timers armed are of request r, on the connection that carries it.
OnlyFor(w, r) ==
    \A c, q : \A n \in Node : Armed(w, c, q, n) =>
        q = r /\ r \in DOMAIN w.mappings /\ w.mappings[r] = c

Quiet(w) == \A c, q : \A n \in Node : ~Armed(w, c, q, n)

\* The timers of request r are on the connection that carries it; there are none.
Owned(w, r) ==
    \A c : \A n \in Node : Armed(w, c, r, n) => r \in DOMAIN w.mappings /\ w.mappings[r] = c
Unasked(w, r) == \A c : \A n \in Node : ~Armed(w, c, r, n)

\* The timers of the request for transactions.
Asked ==
    /\ Shaped(net)
    /\ phase = "single" => Owned(net, CatchupId)
    /\ phase # "single" => Unasked(net, CatchupId)

\* The timers of a catch-up from the genesis file, with honest nodes and
\* without an idle connection.
Timed ==
    idle = "none" /\ faulty = {} /\ statuses \subseteq {Genesis} =>
        /\ phase = "consensus" => OnlyFor(net, Genesis)
        /\ phase = "single" => OnlyFor(net, CatchupId)
        /\ phase \in {"closed", "done"} => Quiet(net)

Phased == phase \in {"closed", "consensus", "single", "done"}

IInv == Phased /\ World /\ Stored /\ Aimed /\ Counted /\ Asked /\ Timed

----------------------------------------------------------------------------
(* Counting *)

\* A pool has more than three times the faulty nodes it tolerates, and no set
\* of less than a third of it has more.
LEMMA PoolSize ==
    /\ N \in Nat /\ F \in Nat /\ 3 * F < N
    /\ \A S \in SUBSET Node :
          /\ IsFiniteSet(S) /\ Cardinality(S) \in Nat
          /\ 3 * Cardinality(S) < N => Cardinality(S) <= F
<1>1. IsFiniteSet(Node) /\ Node # {}
  BY NetworkerAssumption
<1>2. N \in Nat /\ N >= 1
  BY <1>1, FS_CardinalityType, FS_EmptySet DEF N
<1>3. F \in Nat /\ 3 * F < N /\ \A k \in Nat : 3 * k < N => k <= F
  BY <1>2 DEF F
<1>4. ASSUME NEW S \in SUBSET Node
      PROVE  IsFiniteSet(S) /\ Cardinality(S) \in Nat
  BY <1>1, FS_Subset, FS_CardinalityType
<1> QED
  BY <1>2, <1>3, <1>4

\* A set of natural numbers that is bounded and not empty has its maximum.
LEMMA MaxIs ==
    ASSUME NEW S \in SUBSET Nat, S # {}, NEW b \in Nat, \A x \in S : x <= b
    PROVE  Max(S) \in S /\ \A x \in S : x <= Max(S)
<1> DEFINE Above == {k \in Nat : \A x \in S : x <= k}
<1>1. Above \subseteq Nat /\ Above # {}
  OBVIOUS
<1>2. PICK m \in Above : \A k \in Above : ~(<<k, m>> \in OpToRel(<, Nat))
  BY <1>1, WFMin, NatLessThanWellFounded
<1>3. \A k \in Above : ~(k < m)
  BY <1>2 DEF OpToRel
<1>4. m \in S
  <2> SUFFICES ASSUME m \notin S PROVE FALSE
    OBVIOUS
  <2>1. PICK x \in S : TRUE
    OBVIOUS
  <2>2. x <= m /\ x # m /\ x \in Nat
    OBVIOUS
  <2>3. m - 1 \in Nat /\ \A y \in S : y <= m - 1
    BY <2>2
  <2> QED
    BY <1>3, <2>3
<1>5. \E x \in S : \A y \in S : x >= y
  BY <1>4
<1> QED
  BY <1>5 DEF Max

\* The nodes with one vote, whatever it is, are some of the pool.
LEMMA VotersAre ==
    ASSUME NEW R, NEW v
    PROVE  /\ Voters(R, v) \in SUBSET Node
           /\ IsFiniteSet(Voters(R, v)) /\ Cardinality(Voters(R, v)) \in Nat
BY PoolSize DEF Voters

\* A vote of node n is one more for one vote.
LEMMA OneMoreVoter ==
    ASSUME NEW R, NEW k \in Nat, AtMost(R, k), NEW u, NEW n \in Node
    PROVE  AtMost(R \cup {<<u, n>>}, k + 1)
<1> SUFFICES ASSUME NEW v PROVE Cardinality(Voters(R \cup {<<u, n>>}, v)) <= k + 1
  BY DEF AtMost
<1>1. Voters(R \cup {<<u, n>>}, v) \in SUBSET (Voters(R, v) \cup {n})
  BY DEF Voters
<1>2. IsFiniteSet(Voters(R, v) \cup {n})
      /\ Cardinality(Voters(R, v) \cup {n}) <= Cardinality(Voters(R, v)) + 1
  BY VotersAre, FS_AddElement
<1>3. Cardinality(Voters(R, v)) <= k
  BY DEF AtMost
<1>4. Cardinality(Voters(R \cup {<<u, n>>}, v)) <= Cardinality(Voters(R, v) \cup {n})
  BY <1>1, <1>2, FS_Subset
<1>5. Cardinality(Voters(R, v)) \in Nat /\ Cardinality(Voters(R \cup {<<u, n>>}, v)) \in Nat
      /\ Cardinality(Voters(R, v) \cup {n}) \in Nat
  BY <1>2, VotersAre, FS_CardinalityType
<1> QED
  BY <1>2, <1>3, <1>4, <1>5

\* If no vote has reached f + 1 nodes, none has more than f, and the largest
\* count is one of them.
LEMMA NotEnough ==
    ASSUME NEW R, AtMost(R, F + 1), Enough(R) = {}
    PROVE  AtMost(R, F) /\ MaxCount(R) \in 0..F
<1>1. ASSUME NEW v PROVE Cardinality(Voters(R, v)) \in 0..F
  <2>1. Cardinality(Voters(R, v)) \in Nat /\ Cardinality(Voters(R, v)) <= F + 1 /\ F \in Nat
    BY VotersAre, PoolSize DEF AtMost
  <2>2. CASE v \in Votes(R)
    <3>1. Cardinality(Voters(R, v)) # F + 1
      BY <2>2 DEF Enough
    <3> QED
      BY <2>1, <3>1
  <2>3. CASE v \notin Votes(R)
    <3>1. \A n \in Node : <<v, n>> \notin R
      BY <2>3 DEF Votes
    <3>2. Voters(R, v) = {}
      BY <3>1 DEF Voters
    <3> QED
      BY <2>1, <3>2, FS_EmptySet
  <2> QED
    BY <2>2, <2>3
<1>2. AtMost(R, F)
  BY <1>1, PoolSize DEF AtMost
<1> DEFINE S == {Cardinality(Voters(R, v)) : v \in Votes(R)} \cup {0}
<1>3. S \in SUBSET (0..F) /\ S # {}
  BY <1>1, PoolSize
<1>4. S \in SUBSET Nat /\ \A x \in S : x <= F
  BY <1>3, PoolSize
<1>5. MaxCount(R) = Max(S)
  BY DEF MaxCount
<1> HIDE DEF S
<1>6. Max(S) \in S
  BY <1>3, <1>4, PoolSize, MaxIs
<1> QED
  BY <1>2, <1>3, <1>5, <1>6

\* Then, unless it is given up, there is room.
LEMMA RoomLeft ==
    ASSUME NEW R, IsFiniteSet(R), NEW T, IsFiniteSet(T), AtMost(R, F + 1), Enough(R) = {},
           ~Unreachable(R, T), R = {} => Cardinality(T) <= N - F
    PROVE  Room(R, T)
<1>1. MaxCount(R) \in 0..F /\ F \in Nat /\ N \in Nat
      /\ Cardinality(R) \in Nat /\ Cardinality(T) \in Nat
  BY NotEnough, PoolSize, FS_CardinalityType
<1>2. CASE R # {}
  <2>1. ~(MaxCount(R) + (N - (Cardinality(R) + Cardinality(T))) < N - F)
    BY <1>2 DEF Unreachable
  <2>2. Cardinality(R) + Cardinality(T) <= 2 * F
    BY <1>1, <2>1
  <2> QED
    BY <1>2, <2>2 DEF Room
<1>3. CASE R = {}
  <2>1. Cardinality(T) # N - F
    BY <1>3 DEF Unreachable
  <2>2. Cardinality(T) < N - F
    BY <1>1, <1>3, <2>1
  <2> QED
    BY <1>3, <2>2 DEF Room
<1> QED
  BY <1>2, <1>3

\* A vote of f + 1 nodes is for what an honest node has.
LEMMA EnoughKnown ==
    ASSUME World, NEW R, Honestly(R), NEW v \in Enough(R)
    PROVE  Known(v.root)
<1>1. Cardinality(Voters(R, v)) = F + 1 /\ Voters(R, v) \in SUBSET Node /\ F \in Nat
  BY VotersAre, PoolSize DEF Enough
<1>2. PICK n \in Voters(R, v) : n \notin faulty
  <2> SUFFICES ASSUME Voters(R, v) \in SUBSET faulty PROVE FALSE
    OBVIOUS
  <2>1. IsFiniteSet(faulty) /\ Cardinality(faulty) \in Nat /\ Cardinality(faulty) <= F
    BY PoolSize DEF World
  <2>2. Cardinality(Voters(R, v)) <= Cardinality(faulty)
    BY <2>1, FS_Subset
  <2> QED
    BY <1>1, <2>1, <2>2
<1>3. n \in Node \ faulty /\ v.root = length[n]
  BY <1>1, <1>2 DEF Voters, Honestly
<1>4. length[n] \in 1..(Wrong - 1) /\ length[n] <= length[n]
  BY <1>3 DEF World, Wrong
<1> QED
  BY <1>3, <1>4 DEF Known

----------------------------------------------------------------------------
(* The networker *)

\* Without timers, those that are armed are of any request.
LEMMA QuietOnly ==
    ASSUME NEW w, NEW r, Quiet(w) PROVE OnlyFor(w, r)
BY DEF Quiet, OnlyFor

\* A new networker has no connection.
LEMMA NewQuiet == Shaped(NetworkerNew(Node)) /\ Quiet(NetworkerNew(Node))
<1>1. PICK w : w = NetworkerNew(Node)
  OBVIOUS
<1>2. w.conns = Empty /\ "conns" \in DOMAIN w /\ "mappings" \in DOMAIN w
  BY <1>1 DEF NetworkerNew
<1>3. DOMAIN w.conns = {}
  BY <1>2 DEF Empty
<1> QED
  BY <1>1, <1>2, <1>3 DEF Shaped, Quiet, Armed

\* What an event of request r does to a connection: it arms timers of r.
Sends(pc, r, pd) ==
    /\ "timeouts" \in DOMAIN pd
    /\ \A p \in pd.timeouts : p \in pc.timeouts \/ p[1] = r

\* The events of a catch-up.
Event(r) ==
    {[op |-> "SendOne", req |-> r], [op |-> "Resend", req |-> r],
     [op |-> "SendAll", req |-> r, nodes |-> Node]}

\* SendMsg arms timers of its own request.
LEMMA SendMsgSends ==
    ASSUME NEW pc, "timeouts" \in DOMAIN pc, NEW r, NEW S
    PROVE  Sends(pc, r, SendMsg(pc, r, S))
<1>1. PICK pd : pd = SendMsg(pc, r, S)
  OBVIOUS
<1>2. "timeouts" \in DOMAIN pd /\ pd.timeouts = pc.timeouts \cup ({r} \X S)
  BY <1>1 DEF SendMsg
<1>3. Sends(pc, r, pd)
  BY <1>2 DEF Sends
<1> QED
  BY <1>1, <1>3

\* SendRequest, whatever the event, arms timers of its own request.
LEMMA SendRequestSends ==
    ASSUME NEW pc, "timeouts" \in DOMAIN pc, NEW r, NEW ev \in Event(r)
    PROVE  Sends(pc, r, SendRequest(pc, ev))
<1>1. ev.req = r /\ ev.op \in {"SendOne", "SendAll", "Resend"}
  BY DEF Event
<1>2. CASE ev.op = "SendOne"
  <2>1. PICK pd : pd = SendMsg(pc, r, {pc.order[1]})
    OBVIOUS
  <2>2. Sends(pc, r, pd)
    BY <2>1, SendMsgSends
  <2>3. PICK pe : pe = [pd EXCEPT !.req_cnt = @ + 1, !.resend = Put(@, {r}, 0)]
    OBVIOUS
  <2>4. SendRequest(pc, ev) = pe
    BY <1>1, <1>2, <2>1, <2>3 DEF SendRequest
  <2>5. "timeouts" \in DOMAIN pe /\ pe.timeouts = pd.timeouts
    BY <2>2, <2>3 DEF Sends
  <2>6. Sends(pc, r, pe)
    BY <2>2, <2>5 DEF Sends
  <2> QED
    BY <2>4, <2>6
<1>3. CASE ev.op = "SendAll"
  <2>1. PICK pd : pd = SendMsg(pc, r, ToSet(pc.order) \cap ev.nodes)
    OBVIOUS
  <2>2. Sends(pc, r, pd)
    BY <2>1, SendMsgSends
  <2>3. PICK pe : pe = [pd EXCEPT !.req_cnt = @ + 1]
    OBVIOUS
  <2>4. SendRequest(pc, ev) = pe
    BY <1>1, <1>3, <2>1, <2>3 DEF SendRequest
  <2>5. "timeouts" \in DOMAIN pe /\ pe.timeouts = pd.timeouts
    BY <2>2, <2>3 DEF Sends
  <2>6. Sends(pc, r, pe)
    BY <2>2, <2>5 DEF Sends
  <2> QED
    BY <2>4, <2>6
<1>4. CASE ev.op = "Resend" /\ r \in DOMAIN pc.resend
  <2>1. PICK cnt : cnt = (pc.resend[r] + 1) % Len(pc.order)
    OBVIOUS
  <2>2. PICK pd : pd = SendMsg(pc, r, {pc.order[cnt + 1]})
    OBVIOUS
  <2>3. Sends(pc, r, pd)
    BY <2>2, SendMsgSends
  <2>4. PICK pe : pe = [pd EXCEPT !.resend = Put(@, {r}, cnt)]
    OBVIOUS
  <2>5. SendRequest(pc, ev) = pe
    BY <1>1, <1>4, <2>1, <2>2, <2>4 DEF SendRequest
  <2>6. "timeouts" \in DOMAIN pe /\ pe.timeouts = pd.timeouts
    BY <2>3, <2>4 DEF Sends
  <2>7. Sends(pc, r, pe)
    BY <2>3, <2>6 DEF Sends
  <2> QED
    BY <2>5, <2>7
<1>5. CASE ev.op = "Resend" /\ r \notin DOMAIN pc.resend
  <2>1. SendRequest(pc, ev) = pc
    BY <1>1, <1>5 DEF SendRequest
  <2> QED
    BY <2>1 DEF Sends
<1> QED
  BY <1>1, <1>2, <1>3, <1>4, <1>5

\* Connection c of v is one that request r was sent on, the others are w's.
Carries(w, v, r, c) ==
    /\ "conns" \in DOMAIN v /\ "mappings" \in DOMAIN v
    /\ r \in DOMAIN v.mappings /\ v.mappings[r] = c
    /\ \A d \in DOMAIN v.conns : d # c => d \in DOMAIN w.conns /\ v.conns[d] = w.conns[d]
    /\ c \in DOMAIN v.conns =>
          \E pc : /\ \/ c \in DOMAIN w.conns /\ pc = w.conns[c]
                     \/ pc.timeouts = {}
                  /\ Sends(pc, r, v.conns[c])

\* A send leaves the timers those of one request, on one connection.
LEMMA CarryStep ==
    ASSUME NEW w, NEW v, NEW r, NEW c, Shaped(w), OnlyFor(w, r), Carries(w, v, r, c),
           r \in DOMAIN w.mappings => w.mappings[r] = c
    PROVE  Shaped(v) /\ OnlyFor(v, r)
<1>1. Shaped(v)
  BY DEF Shaped, Carries, Sends
<1>2. ASSUME NEW d, NEW q, NEW n \in Node, Armed(v, d, q, n)
      PROVE  q = r /\ r \in DOMAIN v.mappings /\ v.mappings[r] = d
  <2>1. CASE d # c
    <3>1. Armed(w, d, q, n)
      BY <1>2, <2>1 DEF Armed, Carries
    <3> QED
      BY <2>1, <3>1 DEF OnlyFor
  <2>2. CASE d = c
    <3>1. PICK pc : /\ \/ c \in DOMAIN w.conns /\ pc = w.conns[c]
                       \/ pc.timeouts = {}
                    /\ Sends(pc, r, v.conns[c])
      BY <1>2, <2>2 DEF Armed, Carries
    <3>2. <<q, n>> \in v.conns[c].timeouts
      BY <1>2, <2>2 DEF Armed
    <3>3. CASE <<q, n>> \in pc.timeouts
      <4>1. Armed(w, c, q, n)
        BY <3>1, <3>3 DEF Armed
      <4> QED
        BY <2>2, <4>1 DEF OnlyFor, Carries
    <3>4. CASE q = r
      BY <2>2, <3>4 DEF Carries
    <3> QED
      BY <3>1, <3>2, <3>3, <3>4 DEF Sends
  <2> QED
    BY <2>1, <2>2
<1>3. OnlyFor(v, r)
  BY <1>2 DEF OnlyFor
<1> QED
  BY <1>1, <1>3

\* SendOneRequest, SendAllRequest and Resend of request r go to one connection,
\* the one that carries r already if there is one.
LEMMA SendCarries ==
    ASSUME NEW w, Shaped(w), NEW r, NEW ev \in Event(r), NEW o
    PROVE  \E c : /\ Carries(w, Send(w, ev, o), r, c)
                  /\ r \in DOMAIN w.mappings => w.mappings[r] = c
<1>1. PICK v : v = Send(w, ev, o)
  OBVIOUS
<1>2. ev.req = r
  BY DEF Event
<1>3. CASE ConnectionFor(w, r) # {}
  <2>1. PICK c : c = CHOOSE d \in ConnectionFor(w, r) : TRUE
    OBVIOUS
  <2>2. c \in ConnectionFor(w, r)
    BY <1>3, <2>1
  <2>3. r \in DOMAIN w.mappings => w.mappings[r] = c
    BY <2>2 DEF ConnectionFor
  <2>4. PICK pd : pd = SendRequest(w.conns[c], ev)
    OBVIOUS
  <2>5. PICK cs : cs = IF c \in DOMAIN w.conns THEN [w.conns EXCEPT ![c] = pd] ELSE w.conns
    OBVIOUS
  <2>6. PICK ms : ms = Put(w.mappings, {r}, c)
    OBVIOUS
  <2>7. v = [w EXCEPT !.conns = cs, !.mappings = ms]
    BY <1>1, <1>2, <1>3, <2>1, <2>4, <2>5, <2>6 DEF Send
  <2>8. v.conns = cs /\ v.mappings = ms /\ DOMAIN v = DOMAIN w
    BY <2>7 DEF Shaped
  <2>9. r \in DOMAIN ms /\ ms[r] = c
    BY <2>6 DEF Put
  <2>10. DOMAIN cs = DOMAIN w.conns /\ (\A d \in DOMAIN cs : d # c => cs[d] = w.conns[d])
         /\ (c \in DOMAIN cs => cs[c] = pd)
    BY <2>5
  <2>11. c \in DOMAIN w.conns => Sends(w.conns[c], r, pd)
    BY <2>4, SendRequestSends DEF Shaped
  <2>12. Carries(w, v, r, c)
    BY <2>8, <2>9, <2>10, <2>11 DEF Carries, Shaped
  <2> QED
    BY <1>1, <2>3, <2>12
<1>4. CASE ConnectionFor(w, r) = {}
  <2>1. PICK c : c = w.made + 1
    OBVIOUS
  <2>2. PICK pc : pc = ConnectionNew(o)
    OBVIOUS
  <2>3. PICK pd : pd = SendRequest(pc, ev)
    OBVIOUS
  <2>4. PICK cs : cs = Put(w.conns, {c}, pd)
    OBVIOUS
  <2>5. PICK ms : ms = Put(w.mappings, {r}, c)
    OBVIOUS
  <2>6. v = [w EXCEPT !.conns = cs, !.mappings = ms, !.made = c]
    BY <1>1, <1>2, <1>4, <2>1, <2>2, <2>3, <2>4, <2>5 DEF Send
  <2>7. v.conns = cs /\ v.mappings = ms /\ DOMAIN v = DOMAIN w
    BY <2>6 DEF Shaped
  <2>8. r \in DOMAIN ms /\ ms[r] = c
    BY <2>5 DEF Put
  <2>9. DOMAIN cs = DOMAIN w.conns \cup {c} /\ cs[c] = pd
        /\ \A d \in DOMAIN cs : d # c => cs[d] = w.conns[d]
    BY <2>4 DEF Put
  <2>10. pc.timeouts = {} /\ "timeouts" \in DOMAIN pc
    BY <2>2 DEF ConnectionNew
  <2>11. Sends(pc, r, pd)
    BY <2>3, <2>10, SendRequestSends
  <2>12. Carries(w, v, r, c)
    BY <2>7, <2>8, <2>9, <2>10, <2>11 DEF Carries, Shaped
  <2>13. r \notin DOMAIN w.mappings
    BY <1>4 DEF ConnectionFor
  <2> QED
    BY <1>1, <2>12, <2>13
<1> QED
  BY <1>3, <1>4

\* They leave the timers those of request r, if they were.
LEMMA SendStep ==
    ASSUME NEW w, Shaped(w), NEW r, OnlyFor(w, r), NEW ev \in Event(r), NEW o
    PROVE  Shaped(Send(w, ev, o)) /\ OnlyFor(Send(w, ev, o), r)
<1>1. PICK v : v = Send(w, ev, o)
  OBVIOUS
<1>2. PICK c : Carries(w, v, r, c) /\ (r \in DOMAIN w.mappings => w.mappings[r] = c)
  BY <1>1, SendCarries
<1> QED
  BY <1>1, <1>2, CarryStep

\* They leave the timers of request r on its connection, and arm none of another
\* request.
LEMMA SendOwned ==
    ASSUME NEW w, Shaped(w), NEW r, NEW ev \in Event(r), NEW o
    PROVE  /\ Shaped(Send(w, ev, o))
           /\ Owned(w, r) => Owned(Send(w, ev, o), r)
           /\ \A x : x # r /\ Unasked(w, x) => Unasked(Send(w, ev, o), x)
<1>1. PICK v : v = Send(w, ev, o)
  OBVIOUS
<1>2. PICK c : Carries(w, v, r, c) /\ (r \in DOMAIN w.mappings => w.mappings[r] = c)
  BY <1>1, SendCarries
<1>3. Shaped(v)
  BY <1>2 DEF Shaped, Carries, Sends
<1>4. ASSUME NEW d, NEW x, NEW n \in Node, Armed(v, d, x, n)
      PROVE  (x = r /\ d = c) \/ Armed(w, d, x, n)
  <2>1. CASE d # c
    BY <1>2, <1>4, <2>1 DEF Armed, Carries
  <2>2. CASE d = c
    <3>1. PICK pc : /\ \/ c \in DOMAIN w.conns /\ pc = w.conns[c]
                       \/ pc.timeouts = {}
                    /\ Sends(pc, r, v.conns[c])
      BY <1>2, <1>4, <2>2 DEF Armed, Carries
    <3>2. <<x, n>> \in v.conns[c].timeouts
      BY <1>4, <2>2 DEF Armed
    <3>3. x = r \/ <<x, n>> \in pc.timeouts
      BY <3>1, <3>2 DEF Sends
    <3> QED
      BY <2>2, <3>1, <3>3 DEF Armed
  <2> QED
    BY <2>1, <2>2
<1>5. Owned(w, r) => Owned(v, r)
  <2> SUFFICES ASSUME Owned(w, r), NEW d, NEW n \in Node, Armed(v, d, r, n)
               PROVE  r \in DOMAIN v.mappings /\ v.mappings[r] = d
    BY DEF Owned
  <2>1. r \in DOMAIN v.mappings /\ v.mappings[r] = c
    BY <1>2 DEF Carries
  <2>2. d = c \/ Armed(w, d, r, n)
    BY <1>4
  <2>3. Armed(w, d, r, n) => d = c
    BY <1>2 DEF Owned
  <2> QED
    BY <2>1, <2>2, <2>3
<1>6. ASSUME NEW x, x # r, Unasked(w, x) PROVE Unasked(v, x)
  BY <1>4, <1>6 DEF Unasked
<1> QED
  BY <1>1, <1>3, <1>5, <1>6

\* What CleanTimeout of request r for the nodes S does to the connections.
Cleaned(w, r, S) ==
    IF r \in DOMAIN w.mappings /\ w.mappings[r] \in DOMAIN w.conns
    THEN RemoveOrphans([w EXCEPT !.conns[w.mappings[r]] = ConnCleanTimeout(@, r, S)],
                       {w.mappings[r]})
    ELSE w

\* It takes timers away, those of request r for the nodes S among them.
LEMMA CleanedTakes ==
    ASSUME NEW w, Shaped(w), NEW r, NEW S
    PROVE  /\ Shaped(Cleaned(w, r, S)) /\ Cleaned(w, r, S).mappings = w.mappings
           /\ \A c, q, n : Armed(Cleaned(w, r, S), c, q, n) =>
                 /\ Armed(w, c, q, n)
                 /\ r \in DOMAIN w.mappings /\ w.mappings[r] = c /\ q = r => n \notin S
<1>1. CASE ~(r \in DOMAIN w.mappings /\ w.mappings[r] \in DOMAIN w.conns)
  <2>1. Cleaned(w, r, S) = w
    BY <1>1 DEF Cleaned
  <2> QED
    BY <1>1, <2>1 DEF Armed
<1>2. CASE r \in DOMAIN w.mappings /\ w.mappings[r] \in DOMAIN w.conns
  <2>1. PICK m : m = w.mappings[r]
    OBVIOUS
  <2>2. PICK pd : pd = [w.conns[m] EXCEPT !.timeouts = w.conns[m].timeouts \ ({r} \X S)]
    OBVIOUS
  <2>3. "timeouts" \in DOMAIN pd /\ pd.timeouts = w.conns[m].timeouts \ ({r} \X S)
    BY <1>2, <2>1, <2>2 DEF Shaped
  <2>4. PICK cs : cs = [w.conns EXCEPT ![m] = pd]
    OBVIOUS
  <2>5. DOMAIN cs = DOMAIN w.conns /\ cs[m] = pd
        /\ \A d \in DOMAIN cs : d # m => cs[d] = w.conns[d]
    BY <1>2, <2>1, <2>4
  <2>6. PICK u : u = [w EXCEPT !.conns = cs]
    OBVIOUS
  <2>7. u.conns = cs /\ DOMAIN u = DOMAIN w /\ u.mappings = w.mappings
    BY <2>6 DEF Shaped
  <2>8. PICK O : O = {c \in {m} \cap DOMAIN u.conns : IsOrphaned(u.conns[c])}
    OBVIOUS
  <2>9. PICK ds : ds = Drop(u.conns, O)
    OBVIOUS
  <2>10. DOMAIN ds \subseteq DOMAIN cs /\ \A d \in DOMAIN ds : ds[d] = cs[d]
    BY <2>7, <2>9 DEF Drop, Restrict
  <2>11. PICK v : v = [u EXCEPT !.conns = ds]
    OBVIOUS
  <2>12. v.conns = ds /\ DOMAIN v = DOMAIN w /\ v.mappings = w.mappings
    BY <2>7, <2>11 DEF Shaped
  <2>13. Cleaned(w, r, S) = v
    <3>1. [w EXCEPT !.conns[w.mappings[r]] = ConnCleanTimeout(@, r, S)] = u
      BY <1>2, <2>1, <2>2, <2>4, <2>6 DEF ConnCleanTimeout, Shaped
    <3>2. RemoveOrphans(u, {m}) = v
      BY <2>7, <2>8, <2>9, <2>11 DEF RemoveOrphans, Shaped
    <3> QED
      BY <1>2, <2>1, <3>1, <3>2 DEF Cleaned
  <2>14. Shaped(v)
    BY <2>3, <2>5, <2>10, <2>12 DEF Shaped
  <2>15. ASSUME NEW c, NEW q, NEW n, Armed(v, c, q, n)
         PROVE  Armed(w, c, q, n) /\ (m = c /\ q = r => n \notin S)
    <3>1. c \in DOMAIN w.conns /\ <<q, n>> \in cs[c].timeouts
      BY <2>5, <2>10, <2>12, <2>15 DEF Armed
    <3>2. CASE c # m
      BY <2>5, <3>1, <3>2 DEF Armed
    <3>3. CASE c = m
      BY <2>3, <2>5, <3>1, <3>3 DEF Armed
    <3> QED
      BY <3>2, <3>3
  <2> QED
    BY <2>1, <2>12, <2>13, <2>14, <2>15
<1> QED
  BY <1>1, <1>2

\* The handler is done with one node of request r.
LEMMA CleanOne ==
    ASSUME NEW w, Shaped(w), NEW r, OnlyFor(w, r), NEW n \in Node
    PROVE  Shaped(CleanTimeout(w, r, n)) /\ OnlyFor(CleanTimeout(w, r, n), r)
<1>1. CleanTimeout(w, r, n) = Cleaned(w, r, {n})
  BY DEF CleanTimeout, Cleaned
<1>2. PICK v : v = Cleaned(w, r, {n})
  OBVIOUS
<1>3. Shaped(v) /\ v.mappings = w.mappings
      /\ \A c, q, k : Armed(v, c, q, k) => Armed(w, c, q, k)
  BY <1>2, CleanedTakes
<1>4. OnlyFor(v, r)
  BY <1>3 DEF OnlyFor
<1> QED
  BY <1>1, <1>2, <1>3, <1>4

\* The handler is done with request r.
LEMMA CleanAll ==
    ASSUME NEW w, Shaped(w), NEW r, OnlyFor(w, r)
    PROVE  Shaped(CleanTimeout(w, r, None)) /\ Quiet(CleanTimeout(w, r, None))
<1>1. PICK u : u = Cleaned(w, r, Node)
  OBVIOUS
<1>2. PICK v : v = [u EXCEPT !.mappings = Drop(@, {r})]
  OBVIOUS
<1>3. CleanTimeout(w, r, None) = v
  BY <1>1, <1>2, NetworkerAssumption DEF CleanTimeout, Cleaned
<1>4. Shaped(u)
      /\ \A c, q, n : Armed(u, c, q, n) =>
            /\ Armed(w, c, q, n)
            /\ r \in DOMAIN w.mappings /\ w.mappings[r] = c /\ q = r => n \notin Node
  BY <1>1, CleanedTakes
<1>5. v.conns = u.conns /\ DOMAIN v = DOMAIN u
  BY <1>2, <1>4 DEF Shaped
<1>6. Shaped(v)
  BY <1>4, <1>5 DEF Shaped
<1>7. ASSUME NEW c, NEW q, NEW n \in Node, Armed(v, c, q, n) PROVE FALSE
  <2>1. Armed(u, c, q, n)
    BY <1>5, <1>7 DEF Armed
  <2>2. Armed(w, c, q, n)
    BY <1>4, <2>1
  <2> QED
    BY <1>4, <2>1, <2>2 DEF OnlyFor
<1>8. Quiet(v)
  BY <1>7 DEF Quiet
<1> QED
  BY <1>3, <1>6, <1>8

\* CleanTimeout of request r, for a node or for all, arms nothing; a connection
\* that carries request x still does, unless all of x was cleaned.
LEMMA CleanKeeps ==
    ASSUME NEW w, Shaped(w), NEW r, NEW n
    PROVE  /\ Shaped(CleanTimeout(w, r, n))
           /\ \A x : Unasked(w, x) => Unasked(CleanTimeout(w, r, n), x)
           /\ \A x : n \in Node /\ Owned(w, x) => Owned(CleanTimeout(w, r, n), x)
           /\ n \notin Node /\ Owned(w, r) => Unasked(CleanTimeout(w, r, n), r)
<1>1. PICK S : S = IF n \in Node THEN {n} ELSE Node
  OBVIOUS
<1>2. PICK u : u = Cleaned(w, r, S)
  OBVIOUS
<1>3. PICK v : v = IF n \in Node THEN u ELSE [u EXCEPT !.mappings = Drop(@, {r})]
  OBVIOUS
<1>4. CleanTimeout(w, r, n) = v
  BY <1>1, <1>2, <1>3 DEF CleanTimeout, Cleaned
<1>5. Shaped(u) /\ u.mappings = w.mappings
      /\ \A c, q, k : Armed(u, c, q, k) =>
            /\ Armed(w, c, q, k)
            /\ r \in DOMAIN w.mappings /\ w.mappings[r] = c /\ q = r => k \notin S
  BY <1>2, CleanedTakes
<1>6. v.conns = u.conns /\ DOMAIN v = DOMAIN u /\ (n \in Node => v.mappings = w.mappings)
  BY <1>3, <1>5 DEF Shaped
<1>7. Shaped(v)
  BY <1>5, <1>6 DEF Shaped
<1>8. \A c, q, k : Armed(v, c, q, k) => Armed(u, c, q, k) /\ Armed(w, c, q, k)
  BY <1>5, <1>6 DEF Armed
<1>9. \A x : Unasked(w, x) => Unasked(v, x)
  BY <1>8 DEF Unasked
<1>10. \A x : n \in Node /\ Owned(w, x) => Owned(v, x)
  BY <1>6, <1>8 DEF Owned
<1>11. ASSUME n \notin Node, Owned(w, r) PROVE Unasked(v, r)
  <2> SUFFICES ASSUME NEW c, NEW k \in Node, Armed(v, c, r, k) PROVE FALSE
    BY DEF Unasked
  <2>1. r \in DOMAIN w.mappings /\ w.mappings[r] = c
    BY <1>8, <1>11 DEF Owned
  <2> QED
    BY <1>1, <1>5, <1>8, <1>11, <2>1
<1> QED
  BY <1>4, <1>7, <1>9, <1>10, <1>11

----------------------------------------------------------------------------
(* Counting a vote or a timeout *)

\* The nodes keep what they have and what they are.
LEMMA WorldStays ==
    ASSUME World, length' = length, faulty' = faulty
    PROVE  World' /\ \A x : Known(x) => Known(x)'
BY DEF World, Known

\* The votes go with the handler.
LEMMA Emptied ==
    ASSUME replies' = {}, timeouts' = {} PROVE Counted'
<1>1. IsFiniteSet({}) /\ Cardinality({}) = 0 /\ F \in Nat /\ N \in Nat /\ 3 * F < N
  BY FS_EmptySet, PoolSize
<1>2. \A v : Voters({}, v) = {}
  BY DEF Voters
<1>3. AtMost({}, F)
  BY <1>1, <1>2 DEF AtMost
<1>4. Room({}, {})
  BY <1>1 DEF Room
<1>5. IsFiniteSet(replies') /\ IsFiniteSet(timeouts') /\ AtMost(replies', F) /\ Room(replies', timeouts')
  BY <1>1, <1>3, <1>4
<1>6. Honestly(replies)'
  BY DEF Honestly
<1>7. (AtMost(replies, F))' /\ (Room(replies, timeouts))'
  BY <1>5 DEF AtMost, Room, Voters, F, N
<1> QED
  BY <1>5, <1>6, <1>7 DEF Counted

\* The catch-up is from the genesis file, the nodes are honest and there is no
\* idle connection.
Plain == idle = "none" /\ faulty = {} /\ statuses \subseteq {Genesis}

\* What is the same for every event that is counted.
Counting(n, q) ==
    /\ IInv /\ phase = "consensus"
    /\ length' = length /\ faulty' = faulty /\ idle' = idle
    /\ Plain => q = Genesis /\ n \in Node

\* PoolSM ends the catch-up.
LEMMA EndsStep ==
    ASSUME NEW n, NEW q, Counting(n, q), NEW res, NEW root \in Tree, EndsAs(res, root, q),
           res = "synced" => Known(root), cache' \in {NoCache, Torn} \cup Tree
    PROVE  IInv'
<1>1. IInv /\ phase = "consensus" /\ World /\ Asked /\ Timed
  BY DEF Counting, IInv
<1>2. /\ phase' = "done" /\ result' = res /\ tree' = root /\ replies' = {} /\ timeouts' = {}
      /\ statuses' = statuses /\ net' = CleanTimeout(net, q, None) /\ idle' = idle
  BY DEF EndsAs, Counting
<1>3. World' /\ \A x : Known(x) => Known(x)'
  BY <1>1, WorldStays DEF Counting
<1>4. Counted'
  BY <1>2, Emptied
<1>5. Aimed'
  <2>1. res = "synced" => Known(root)'
    BY <1>3
  <2> QED
    BY <1>2, <2>1 DEF Aimed, Known
<1>6. Timed'
  <2> SUFFICES ASSUME Plain PROVE Quiet(net')
    BY <1>2 DEF Timed, Plain, Quiet, Armed, Counting
  <2>1. Shaped(net) /\ OnlyFor(net, Genesis) /\ q = Genesis
    BY <1>1 DEF Asked, Timed, Plain, Counting
  <2> QED
    BY <1>2, <2>1, CleanAll
<1>7. Phased' /\ Stored'
  BY <1>2 DEF Phased, Stored
<1>8. Shaped(net') /\ Unasked(net', CatchupId)
  BY <1>1, <1>2, CleanKeeps DEF Asked
<1>9. Asked'
  BY <1>2, <1>8 DEF Asked, Shaped, Unasked, Armed
<1> QED
  BY <1>3, <1>4, <1>5, <1>6, <1>7, <1>9 DEF IInv

\* PoolSM asks for the transactions.
LEMMA StartsStep ==
    ASSUME NEW n, NEW q, Counting(n, q), NEW v, NEW root \in Tree, StartsSingle(v, root, q),
           Known(v.root), cache' \in {NoCache, Torn} \cup Tree
    PROVE  IInv'
<1>1. IInv /\ phase = "consensus" /\ World /\ Asked /\ Timed /\ Aimed
  BY DEF Counting, IInv
<1>2. /\ phase' = "single" /\ result' = result /\ tree' = root /\ target' = v.root
      /\ replies' = {} /\ timeouts' = {} /\ statuses' = statuses /\ idle' = idle
  BY DEF StartsSingle, Counting
<1>3. PICK w : /\ w = CleanTimeout(net, q, None)
               /\ net' = Send(w, [op |-> "SendOne", req |-> CatchupId], Order)
  BY DEF StartsSingle
<1>4. World' /\ \A x : Known(x) => Known(x)'
  BY <1>1, WorldStays DEF Counting
<1>5. Counted'
  BY <1>2, Emptied
<1>6. Aimed'
  <2>1. Known(v.root)'
    BY <1>4
  <2>2. result' # "synced"
    BY <1>1, <1>2 DEF Aimed
  <2> QED
    BY <1>2, <2>1, <2>2 DEF Aimed, Known
<1>7. Timed'
  <2> SUFFICES ASSUME Plain PROVE OnlyFor(net', CatchupId)
    BY <1>2 DEF Timed, Plain, OnlyFor, Armed, Counting
  <2>1. Shaped(net) /\ OnlyFor(net, Genesis) /\ q = Genesis
    BY <1>1 DEF Asked, Timed, Plain, Counting
  <2>2. Shaped(w) /\ OnlyFor(w, CatchupId)
    BY <1>3, <2>1, CleanAll, QuietOnly
  <2>3. [op |-> "SendOne", req |-> CatchupId] \in Event(CatchupId)
    BY DEF Event
  <2> QED
    BY <1>3, <2>2, <2>3, SendStep
<1>8. Phased' /\ Stored'
  BY <1>2 DEF Phased, Stored
<1>9. Shaped(net') /\ Owned(net', CatchupId)
  <2>1. Shaped(w) /\ Unasked(w, CatchupId)
    BY <1>1, <1>3, CleanKeeps DEF Asked
  <2>2. Owned(w, CatchupId) /\ [op |-> "SendOne", req |-> CatchupId] \in Event(CatchupId)
    BY <2>1 DEF Owned, Unasked, Event
  <2> QED
    BY <1>3, <2>1, <2>2, SendOwned
<1>10. Asked'
  BY <1>2, <1>9 DEF Asked, Shaped, Owned, Armed
<1> QED
  BY <1>4, <1>5, <1>6, <1>7, <1>8, <1>10 DEF IInv

\* The status of a tree is sent.
LEMMA StatusSends ==
    ASSUME NEW w, Shaped(w), NEW root
    PROVE  /\ Shaped(SendStatus(w, root))
           /\ Quiet(w) => OnlyFor(SendStatus(w, root), root)
           /\ root # CatchupId /\ Unasked(w, CatchupId) => Unasked(SendStatus(w, root), CatchupId)
<1>1. [op |-> "SendAll", req |-> root, nodes |-> Node] \in Event(root)
  BY DEF Event
<1> QED
  BY <1>1, QuietOnly, SendStep, SendOwned DEF SendStatus

\* PoolSM starts again from the genesis file.
LEMMA RestartsStep ==
    ASSUME NEW n, NEW q, Counting(n, q), Restarts(q)
    PROVE  IInv'
<1>1. IInv /\ phase = "consensus" /\ World /\ Asked /\ Timed /\ Aimed
  BY DEF Counting, IInv
<1>2. /\ phase' = phase /\ result' = result /\ tree' = Genesis /\ cache' = NoCache
      /\ replies' = {} /\ timeouts' = {} /\ statuses' = statuses \cup {Genesis} /\ idle' = idle
  BY DEF Restarts, Counting
<1>3. PICK w : w = CleanTimeout(net, q, None) /\ net' = SendStatus(w, Genesis)
  BY DEF Restarts
<1>4. World'
  BY <1>1, WorldStays DEF Counting
<1>5. Counted'
  BY <1>2, Emptied
<1>6. Aimed'
  BY <1>1, <1>2 DEF Aimed
<1>7. Timed'
  <2> SUFFICES ASSUME Plain PROVE OnlyFor(net', Genesis)
    BY <1>1, <1>2 DEF Timed, Plain, OnlyFor, Armed, Counting
  <2>1. Shaped(net) /\ OnlyFor(net, Genesis) /\ q = Genesis
    BY <1>1 DEF Asked, Timed, Plain, Counting
  <2>2. Shaped(w) /\ Quiet(w)
    BY <1>3, <2>1, CleanAll
  <2> QED
    BY <1>3, <2>2, StatusSends
<1>8. Phased' /\ Stored'
  BY <1>1, <1>2 DEF IInv, Phased, Stored, Genesis, Tree, Wrong
<1>9. Shaped(net') /\ Unasked(net', CatchupId)
  <2>1. Shaped(w) /\ Unasked(w, CatchupId)
    BY <1>1, <1>3, CleanKeeps DEF Asked
  <2> QED
    BY <1>3, <2>1, StatusSends DEF Genesis, CatchupId
<1>10. Asked'
  BY <1>1, <1>2, <1>9 DEF Asked, Shaped, Unasked, Armed
<1> QED
  BY <1>4, <1>5, <1>6, <1>7, <1>8, <1>10 DEF IInv

\* The votes and timeouts that an event makes.
Candidates(R, T) ==
    /\ IsFiniteSet(R) /\ IsFiniteSet(T)
    /\ Honestly(R) /\ AtMost(R, F + 1)
    /\ R = {} => Cardinality(T) <= N - F

\* The handler waits for more.
LEMMA WaitsStep ==
    ASSUME NEW n, NEW q, Counting(n, q), NEW R, NEW T, Candidates(R, T),
           Enough(R) = {}, ~Unreachable(R, T), net' = CleanTimeout(net, q, n),
           replies' = R, timeouts' = T,
           UNCHANGED <<phase, result, tree, cache, statuses, target>>
    PROVE  IInv'
<1>1. IInv /\ phase = "consensus" /\ World /\ Asked /\ Timed /\ Aimed /\ idle' = idle
  BY DEF Counting, IInv
<1>2. World' /\ \A x : Known(x) => Known(x)'
  BY <1>1, WorldStays DEF Counting
<1>3. Counted'
  <2>1. AtMost(R, F) /\ Room(R, T) /\ IsFiniteSet(R) /\ IsFiniteSet(T) /\ Honestly(R)
    BY NotEnough, RoomLeft DEF Candidates
  <2>2. Honestly(replies)'
    BY <2>1 DEF Honestly, Counting
  <2>3. (AtMost(replies, F))' /\ (Room(replies, timeouts))'
    BY <2>1 DEF AtMost, Room, Voters, F, N
  <2> QED
    BY <2>1, <2>2, <2>3 DEF Counted
<1>4. Aimed'
  BY <1>1 DEF Aimed
<1>5. Timed'
  <2> SUFFICES ASSUME Plain PROVE OnlyFor(net', Genesis)
    BY <1>1 DEF Timed, Plain, OnlyFor, Armed, Counting
  <2>1. Shaped(net) /\ OnlyFor(net, Genesis) /\ q = Genesis /\ n \in Node
    BY <1>1 DEF Asked, Timed, Plain, Counting
  <2> QED
    BY <2>1, CleanOne
<1>6. Phased' /\ Stored'
  BY <1>1 DEF IInv, Phased, Stored
<1>7. Shaped(net') /\ Unasked(net', CatchupId)
  BY <1>1, CleanKeeps DEF Asked
<1>8. Asked'
  BY <1>1, <1>7 DEF Asked, Shaped, Unasked, Armed
<1> QED
  BY <1>2, <1>3, <1>4, <1>5, <1>6, <1>8 DEF IInv

\* The vote of f + 1 nodes ends the catch-up or gives it its target.
LEMMA ProgressStep ==
    ASSUME NEW n, NEW q, Counting(n, q), NEW R, Honestly(R), NEW v \in Enough(R),
           NEW root \in Tree, Progress(v, root, q), cache' \in {NoCache, Torn} \cup Tree
    PROVE  IInv'
<1>1. Known(v.root)
  BY EnoughKnown DEF Counting, IInv
<1>2. CASE TryToCatchUp(v, root) = "NotNeeded" /\ EndsAs("synced", root, q)
  <2>1. v.root = root
    BY <1>2 DEF TryToCatchUp
  <2> QED
    BY <1>1, <1>2, <2>1, EndsStep
<1>3. CASE StartsSingle(v, root, q)
  BY <1>1, <1>3, StartsStep
<1> QED
  BY <1>2, <1>3 DEF Progress

\* check_nodes_responses_on_status, however it goes on.
LEMMA CountStep ==
    ASSUME NEW n, NEW q, Counting(n, q), NEW R, NEW T, Candidates(R, T), Count(R, T, n, q)
    PROVE  IInv'
<1>1. /\ tree \in Tree /\ cache \in {NoCache, Torn} \cup Tree /\ Genesis \in Tree
      /\ Honestly(R) /\ NoCache \in {NoCache, Torn} \cup Tree
  BY DEF Counting, IInv, Stored, Candidates, Genesis, Tree, Wrong
<1>2. CASE Enough(R) # {}
  <2>1. PICK v : v = CHOOSE u \in Enough(R) : TRUE
    OBVIOUS
  <2>2. v \in Enough(R)
    BY <1>2, <2>1
  <2>3. \/ Progress(v, tree, q) /\ cache' = cache
        \/ Progress(v, Genesis, q) /\ cache' = NoCache
        \/ EndsAs("notfound", tree, q) /\ cache' \in {NoCache, cache}
    BY <1>2, <2>1 DEF Count
  <2>4. CASE Progress(v, tree, q) /\ cache' = cache
    <3>1. PICK t : t = tree
      OBVIOUS
    <3>2. t \in Tree /\ Progress(v, t, q) /\ cache' \in {NoCache, Torn} \cup Tree
      BY <1>1, <2>4, <3>1
    <3> QED
      BY <1>1, <2>2, <3>2, ProgressStep
  <2>5. CASE Progress(v, Genesis, q) /\ cache' = NoCache
    BY <1>1, <2>2, <2>5, ProgressStep
  <2>6. CASE EndsAs("notfound", tree, q) /\ cache' \in {NoCache, cache}
    <3>1. PICK t : t = tree
      OBVIOUS
    <3>2. t \in Tree /\ EndsAs("notfound", t, q) /\ cache' \in {NoCache, Torn} \cup Tree
      BY <1>1, <2>6, <3>1
    <3> QED
      BY <3>2, EndsStep
  <2> QED
    BY <2>3, <2>4, <2>5, <2>6
<1>3. CASE Enough(R) = {} /\ Unreachable(R, T)
  <2>1. CASE Restarts(q)
    BY <2>1, RestartsStep
  <2>2. CASE EndsAs("notfound", tree, q) /\ cache' = cache
    <3>1. PICK t : t = tree
      OBVIOUS
    <3>2. t \in Tree /\ EndsAs("notfound", t, q) /\ cache' \in {NoCache, Torn} \cup Tree
      BY <1>1, <2>2, <3>1
    <3> QED
      BY <3>2, EndsStep
  <2> QED
    BY <1>3, <2>1, <2>2 DEF Count
<1>4. CASE Enough(R) = {} /\ ~Unreachable(R, T)
  <2>1. /\ net' = CleanTimeout(net, q, n) /\ replies' = R /\ timeouts' = T
        /\ UNCHANGED <<phase, result, tree, cache, statuses, target>>
    BY <1>4 DEF Count
  <2> QED
    BY <1>4, <2>1, WaitsStep
<1> QED
  BY <1>2, <1>3, <1>4

----------------------------------------------------------------------------
(* The steps of the status phase *)

\* A status, or a consistency proof, comes.
LEMMA StatusReplyStep ==
    ASSUME IInv, NEW n \in Node, StatusReply(n)
    PROVE  IInv'
<1>1. phase = "consensus" /\ length' = length /\ faulty' = faulty /\ idle' = idle
  BY DEF StatusReply, world
<1>2. PICK m \in Says(n) :
        Count(replies \cup {<<[root |-> m.root, from |-> m.from], n>>}, timeouts, n, m.req)
  BY DEF StatusReply
<1>3. PICK u : u = [root |-> m.root, from |-> m.from]
  OBVIOUS
<1>4. PICK R : R = replies \cup {<<u, n>>}
  OBVIOUS
<1>5. PICK T : T = timeouts
  OBVIOUS
<1>6. PICK q : q = m.req
  OBVIOUS
<1>7. Count(R, T, n, q)
  BY <1>2, <1>3, <1>4, <1>5, <1>6
<1>8. n \notin faulty => u.root = length[n]
  <2> SUFFICES ASSUME n \notin faulty PROVE m.root = length[n]
    BY <1>3
  <2>1. m \in {HonestSays(length[n], t) : t \in statuses}
    BY <1>2 DEF Says
  <2>2. PICK t \in statuses : m = HonestSays(length[n], t)
    BY <2>1
  <2> QED
    BY <2>2 DEF HonestSays
<1>9. Plain => q = Genesis
  <2> SUFFICES ASSUME Plain PROVE m.req = 1
    BY <1>6 DEF Genesis
  <2>1. length[n] \in 1..9
    BY DEF IInv, World, Wrong
  <2>2. m = HonestSays(length[n], 1)
    BY <1>2 DEF Says, Plain, Genesis
  <2> QED
    BY <2>1, <2>2 DEF HonestSays, Size, Wrong
<1>10. Candidates(R, T)
  <2>1. IsFiniteSet(replies) /\ IsFiniteSet(timeouts) /\ Honestly(replies) /\ AtMost(replies, F)
    BY DEF IInv, Counted
  <2>2. IsFiniteSet(R) /\ R # {}
    BY <1>4, <2>1, FS_AddElement
  <2>3. AtMost(R, F + 1)
    <3>1. PICK S : S = replies
      OBVIOUS
    <3>2. AtMost(S \cup {<<u, n>>}, F + 1)
      BY <2>1, <3>1, OneMoreVoter, PoolSize
    <3> QED
      BY <1>4, <3>1, <3>2
  <2>4. Honestly(R)
    BY <1>4, <1>8, <2>1 DEF Honestly
  <2> QED
    BY <1>5, <2>1, <2>2, <2>3, <2>4 DEF Candidates
<1>11. Counting(n, q)
  BY <1>1, <1>9 DEF Counting
<1> QED
  BY <1>7, <1>10, <1>11, CountStep

\* A node more that timed out, and no vote more.
LEMMA OneMoreTimeout ==
    ASSUME IInv, phase = "consensus", NEW R, R = replies, NEW T, NEW x, T = timeouts \cup {x}
    PROVE  Candidates(R, T)
<1>1. /\ IsFiniteSet(replies) /\ IsFiniteSet(timeouts) /\ Honestly(replies) /\ AtMost(replies, F)
      /\ Room(replies, timeouts)
  BY DEF IInv, Counted
<1>2. IsFiniteSet(T) /\ Cardinality(T) <= Cardinality(timeouts) + 1
      /\ Cardinality(T) \in Nat /\ Cardinality(timeouts) \in Nat
  <2>1. /\ IsFiniteSet(timeouts \cup {x})
        /\ Cardinality(timeouts \cup {x}) =
              IF x \in timeouts THEN Cardinality(timeouts) ELSE Cardinality(timeouts) + 1
    BY <1>1, FS_AddElement
  <2>2. Cardinality(timeouts) \in Nat
    BY <1>1, FS_CardinalityType
  <2> QED
    BY <2>1, <2>2
<1>3. R = {} => Cardinality(T) <= N - F
  BY <1>1, <1>2, PoolSize DEF Room
<1>4. AtMost(R, F + 1)
  <2> SUFFICES ASSUME NEW v PROVE Cardinality(Voters(R, v)) <= F + 1
    BY DEF AtMost
  <2>1. Cardinality(Voters(R, v)) <= F /\ Cardinality(Voters(R, v)) \in Nat /\ F \in Nat
    BY <1>1, VotersAre, PoolSize DEF AtMost
  <2> QED
    BY <2>1
<1> QED
  BY <1>1, <1>2, <1>3, <1>4 DEF Candidates

\* The timer of a node fires.
LEMMA StatusTimeoutStep ==
    ASSUME IInv, NEW n \in Node, StatusTimeout(n)
    PROVE  IInv'
<1>1. phase = "consensus" /\ length' = length /\ faulty' = faulty /\ idle' = idle
  BY DEF StatusTimeout, world
<1>2. PICK q \in ReqId : n \in Timers(net, q) /\ Count(replies, timeouts \cup {n}, n, q)
  BY DEF StatusTimeout
<1>3. PICK R : R = replies
  OBVIOUS
<1>4. PICK T : T = timeouts \cup {n}
  OBVIOUS
<1>5. Count(R, T, n, q) /\ Candidates(R, T)
  BY <1>1, <1>2, <1>3, <1>4, OneMoreTimeout
<1>6. Plain => q = Genesis
  <2> SUFFICES ASSUME Plain PROVE q = Genesis
    OBVIOUS
  <2>1. OnlyFor(net, Genesis)
    BY <1>1 DEF IInv, Timed, Plain
  <2>2. \E c : Armed(net, c, q, n)
    BY <1>2 DEF Timers, Armed
  <2> QED
    BY <2>1, <2>2 DEF OnlyFor
<1>7. Counting(n, q)
  BY <1>1, <1>6 DEF Counting
<1> QED
  BY <1>5, <1>7, CountStep

\* A pool is opened, or opened again.
LEMMA OpenStep == IInv /\ Open => IInv'
<1> SUFFICES ASSUME IInv, Open PROVE IInv'
  OBVIOUS
<1>1. /\ phase \in {"closed", "done"} /\ replies' = {} /\ timeouts' = {}
      /\ length' = length /\ faulty' = faulty /\ cache' = cache /\ idle' = idle
  BY DEF Open
<1>2. World' /\ Counted'
  BY <1>1, WorldStays, Emptied DEF IInv
<1>3. CASE cache = Torn
  <2>1. phase' = "done" /\ result' = "error" /\ net' = net /\ tree' = tree /\ statuses' = statuses
    BY <1>3 DEF Open
  <2>2. Phased' /\ Stored' /\ Aimed'
    BY <1>1, <2>1 DEF IInv, Phased, Stored, Aimed
  <2>3. Timed'
    BY <1>1, <2>1 DEF IInv, Timed, Quiet, Armed
  <2>4. Asked'
    BY <1>1, <2>1 DEF IInv, Asked, Shaped, Unasked, Armed
  <2> QED
    BY <1>2, <2>2, <2>3, <2>4 DEF IInv
<1>4. CASE cache # Torn
  <2>1. PICK root : root = TreeFrom(cache)
    OBVIOUS
  <2>2. /\ phase' = "consensus" /\ result' = "none" /\ tree' = root /\ statuses' = {root}
        /\ net' = SendStatus(NetworkerNew(Node), root)
    BY <1>4, <2>1 DEF Open
  <2>3. root \in Tree
    BY <1>4, <2>1 DEF IInv, Stored, TreeFrom, Genesis, Tree, Wrong
  <2>4. Phased' /\ Stored' /\ Aimed'
    BY <1>1, <2>2, <2>3 DEF IInv, Phased, Stored, Aimed
  <2>5. Shaped(net') /\ OnlyFor(net', root) /\ Unasked(net', CatchupId)
    <3>1. Unasked(NetworkerNew(Node), CatchupId) /\ root # CatchupId
      BY <2>3, NewQuiet DEF Quiet, Unasked, Tree, CatchupId
    <3> QED
      BY <2>2, <3>1, NewQuiet, StatusSends
  <2>6. Timed'
    <3> SUFFICES ASSUME root = Genesis PROVE OnlyFor(net', Genesis)
      BY <2>2 DEF Timed, OnlyFor, Armed
    <3> QED
      BY <2>5
  <2>7. Asked'
    BY <2>2, <2>5 DEF Asked, Shaped, Unasked, Armed
  <2> QED
    BY <1>2, <2>4, <2>6, <2>7 DEF IInv
<1> QED
  BY <1>3, <1>4

----------------------------------------------------------------------------
(* The steps of the transactions phase *)

\* A reply that is accepted makes a tree that an honest node has.
LEMMA AcceptedKnown ==
    ASSUME IInv, phase = "single", NEW n \in Node, NEW k \in Accepted(n)
    PROVE  Known(k) /\ k \in Tree
<1>1. Known(target) /\ tree \in Tree /\ length \in [Node -> 1..9]
  BY DEF IInv, Aimed, Stored, World, Wrong
<1>2. PICK h \in Node \ faulty : target <= length[h] /\ target \in 1..9 /\ length[h] \in 1..9
  BY <1>1 DEF Known, Wrong
<1>3. k \in 1..9 /\ k <= target
  <2>1. CASE n \in faulty
    <3>1. k \in Size(tree)..Size(target)
      BY <2>1 DEF Accepted
    <3>2. Size(target) = target
      BY <1>2 DEF Size, Wrong
    <3>3. Size(tree) \in 1..10
      BY <1>1 DEF Size, Tree, Wrong
    <3> QED
      BY <1>2, <3>1, <3>2, <3>3
  <2>2. CASE n \notin faulty
    <3>1. k = target
      BY <2>2 DEF Accepted
    <3> QED
      BY <1>2, <3>1
  <2> QED
    BY <2>1, <2>2
<1>4. k <= length[h]
  BY <1>2, <1>3
<1> QED
  BY <1>3, <1>4 DEF Known, Tree, Wrong

\* The transactions come.
LEMMA CatchupRepStep ==
    ASSUME IInv, NEW n \in Node, CatchupRep(n)
    PROVE  IInv'
<1>1. /\ phase = "single" /\ length' = length /\ faulty' = faulty
      /\ statuses' = statuses /\ replies' = replies /\ timeouts' = timeouts /\ idle' = idle
      /\ phase' = "done" /\ net' = CleanTimeout(net, CatchupId, None)
  BY DEF CatchupRep, world
<1>2. PICK k \in Accepted(n) : tree' = k /\ cache' = k
  BY DEF CatchupRep
<1>3. Known(k) /\ k \in Tree
  BY <1>1, AcceptedKnown
<1>4. World' /\ \A x : Known(x) => Known(x)'
  BY <1>1, WorldStays DEF IInv
<1>5. Phased' /\ Stored'
  BY <1>1, <1>2, <1>3 DEF Phased, Stored
<1>6. Aimed'
  <2>1. Known(k)'
    BY <1>3, <1>4
  <2> QED
    BY <1>1, <1>2, <2>1 DEF Aimed, Known
<1>7. Counted'
  BY <1>1 DEF IInv, Counted, Honestly, AtMost, Voters, F, N
<1>8. Timed'
  <2> SUFFICES ASSUME Plain PROVE Quiet(net')
    BY <1>1 DEF Timed, Plain, Quiet, Armed
  <2>1. Shaped(net) /\ OnlyFor(net, CatchupId)
    BY <1>1 DEF IInv, Asked, Timed, Plain
  <2> QED
    BY <1>1, <2>1, CleanAll
<1>9. Shaped(net') /\ Unasked(net', CatchupId)
  BY <1>1, CleanKeeps, NetworkerAssumption DEF IInv, Asked
<1>10. Asked'
  BY <1>1, <1>9 DEF Asked, Shaped, Unasked, Armed
<1> QED
  BY <1>4, <1>5, <1>6, <1>7, <1>8, <1>10 DEF IInv

\* The process is killed while it writes the cache.
LEMMA CrashInDumpStep ==
    ASSUME IInv, NEW n \in Node, CrashInDump(n)
    PROVE  IInv'
<1>1. /\ phase = "single" /\ length' = length /\ faulty' = faulty /\ result' = result
      /\ tree' = Genesis /\ statuses' = {} /\ replies' = replies /\ timeouts' = timeouts
      /\ idle' = idle /\ phase' = "closed" /\ net' = NetworkerNew(Node)
  BY DEF CrashInDump, world
<1>2. World'
  BY <1>1, WorldStays DEF IInv
<1>3. cache' \in {NoCache, Torn} \cup Tree
  <2>1. PICK k \in Accepted(n) : cache' \in {Torn} \cup Size(tree)..k
    BY DEF CrashInDump
  <2>2. k \in 1..9
    BY <1>1, AcceptedKnown DEF Known, Wrong
  <2>3. Size(tree) \in 1..10
    BY DEF IInv, Stored, Tree, Size, Wrong
  <2> QED
    BY <2>1, <2>2, <2>3 DEF Tree, Wrong
<1>4. Phased' /\ Stored' /\ Aimed'
  BY <1>1, <1>3 DEF IInv, Phased, Stored, Aimed, Tree, Genesis, Wrong
<1>5. Counted'
  BY <1>1 DEF IInv, Counted, Honestly, AtMost, Voters, F, N
<1>6. Shaped(net') /\ Quiet(net')
  BY <1>1, NewQuiet
<1>7. Timed' /\ Asked'
  BY <1>1, <1>6 DEF Timed, Asked, Shaped, Quiet, Unasked, Armed
<1> QED
  BY <1>2, <1>4, <1>5, <1>7 DEF IInv

\* Nothing changes but timers: the next node is asked.
LEMMA AskedAgain ==
    ASSUME IInv, phase = "single",
           UNCHANGED <<length, faulty, phase, result, tree, cache, statuses, replies, timeouts,
                       target, idle>>,
           Shaped(net'), Owned(net', CatchupId), Plain => OnlyFor(net', CatchupId)
    PROVE  IInv'
<1>1. World' /\ \A x : Known(x) => Known(x)'
  BY WorldStays DEF IInv
<1>2. Phased' /\ Stored'
  BY DEF IInv, Phased, Stored
<1>3. Aimed'
  <2>1. Known(target)'
    BY DEF IInv, Aimed, Known
  <2> QED
    BY <2>1 DEF IInv, Aimed
<1>4. Counted'
  BY DEF IInv, Counted, Honestly, AtMost, Voters, F, N
<1>5. Timed'
  BY DEF Timed, Plain, OnlyFor, Armed
<1>6. Asked'
  BY DEF Asked, Shaped, Owned, Armed
<1> QED
  BY <1>1, <1>2, <1>3, <1>4, <1>5, <1>6 DEF IInv

\* Resend keeps the timers of the request for transactions where they belong.
LEMMA ResendStep ==
    ASSUME NEW w, Shaped(w), Owned(w, CatchupId)
    PROVE  /\ Shaped(Resend(w)) /\ Owned(Resend(w), CatchupId)
           /\ OnlyFor(w, CatchupId) => OnlyFor(Resend(w), CatchupId)
<1>1. [op |-> "Resend", req |-> CatchupId] \in Event(CatchupId)
  BY DEF Event
<1> QED
  BY <1>1, SendStep, SendOwned DEF Resend

\* The next node is asked and a timer of the last one disarmed.
LEMMA AgainStep ==
    ASSUME NEW q, NEW n \in Node, Again(q, n), Shaped(net), Owned(net, CatchupId)
    PROVE  /\ Shaped(net') /\ Owned(net', CatchupId)
           /\ q = CatchupId /\ OnlyFor(net, CatchupId) => OnlyFor(net', CatchupId)
<1>1. PICK w : w = Resend(net) /\ net' = CleanTimeout(w, q, n)
  BY DEF Again
<1>2. /\ Shaped(w) /\ Owned(w, CatchupId)
      /\ OnlyFor(net, CatchupId) => OnlyFor(w, CatchupId)
  BY <1>1, ResendStep
<1> QED
  BY <1>1, <1>2, CleanOne, CleanKeeps

\* A reply is refused.
LEMMA RefusedRepStep ==
    ASSUME IInv, NEW n \in Node, RefusedRep(n)
    PROVE  IInv'
<1>1. /\ phase = "single" /\ Again(CatchupId, n)
      /\ UNCHANGED <<length, faulty, phase, result, tree, cache, statuses, replies, timeouts,
                     target, idle>>
  BY DEF RefusedRep, world
<1>2. Shaped(net') /\ Owned(net', CatchupId) /\ (Plain => OnlyFor(net', CatchupId))
  BY <1>1, AgainStep DEF IInv, Asked, Timed, Plain
<1> QED
  BY <1>1, <1>2, AskedAgain

\* The timer of the node that was asked fires.
LEMMA SingleTimeoutStep ==
    ASSUME IInv, NEW n \in Node, SingleTimeout(n)
    PROVE  IInv'
<1>1. /\ phase = "single"
      /\ UNCHANGED <<length, faulty, phase, result, tree, cache, statuses, replies, timeouts,
                     target, idle>>
  BY DEF SingleTimeout, world
<1>2. PICK q \in ReqId : n \in Timers(net, q) /\ Again(q, n)
  BY DEF SingleTimeout
<1>3. Shaped(net) /\ Owned(net, CatchupId)
  BY <1>1 DEF IInv, Asked
<1>4. Plain => OnlyFor(net', CatchupId)
  <2> SUFFICES ASSUME Plain PROVE OnlyFor(net', CatchupId)
    OBVIOUS
  <2>1. OnlyFor(net, CatchupId)
    BY <1>1 DEF IInv, Timed, Plain
  <2>2. \E c : Armed(net, c, q, n)
    BY <1>2 DEF Timers, Armed
  <2>3. q = CatchupId
    BY <2>1, <2>2 DEF OnlyFor
  <2> QED
    BY <1>2, <1>3, <2>1, <2>3, AgainStep
<1>5. Shaped(net') /\ Owned(net', CatchupId)
  BY <1>2, <1>3, AgainStep
<1> QED
  BY <1>1, <1>4, <1>5, AskedAgain

----------------------------------------------------------------------------
(* The idle connection *)

\* Its active time ends.
LEMMA IdleExpiresStep == IInv /\ IdleExpires => IInv'
<1> SUFFICES ASSUME IInv, IdleExpires PROVE IInv'
  OBVIOUS
<1>1. /\ idle' = "expired"
      /\ UNCHANGED <<net, length, faulty, phase, result, tree, cache, statuses, replies, timeouts, target>>
  BY DEF IdleExpires, world
<1>2. World' /\ Phased' /\ Stored'
  BY <1>1, WorldStays DEF IInv, Phased, Stored
<1>3. Aimed'
  BY <1>1 DEF IInv, Aimed, Known
<1>4. Counted'
  BY <1>1 DEF IInv, Counted, Honestly, AtMost, Room, Voters, F, N
<1>5. Timed' /\ Asked'
  BY <1>1 DEF IInv, Timed, Asked, Shaped, Owned, Unasked, Armed
<1> QED
  BY <1>2, <1>3, <1>4, <1>5 DEF IInv

\* Its event reaches the catch-up.
LEMMA IdleTimeoutEventStep == IInv /\ IdleTimeoutEvent => IInv'
<1> SUFFICES ASSUME IInv, IdleTimeoutEvent PROVE IInv'
  OBVIOUS
<1>1. idle = "expired" /\ idle' = idle /\ length' = length /\ faulty' = faulty /\ ~Plain
  BY DEF IdleTimeoutEvent, world, Plain
<1>2. CASE phase = "consensus" /\ Count(replies, timeouts \cup {None}, None, None)
  <2>1. PICK R : R = replies
    OBVIOUS
  <2>2. PICK T : T = timeouts \cup {None}
    OBVIOUS
  <2>3. Count(R, T, None, None) /\ Candidates(R, T)
    BY <1>2, <2>1, <2>2, OneMoreTimeout
  <2>4. Counting(None, None)
    BY <1>1, <1>2 DEF Counting
  <2> QED
    BY <2>3, <2>4, CountStep
<1>3. CASE /\ phase = "single" /\ net' = Resend(net)
           /\ UNCHANGED <<phase, result, tree, cache, statuses, replies, timeouts, target>>
  <2>1. Shaped(net') /\ Owned(net', CatchupId)
    BY <1>3, ResendStep DEF IInv, Asked
  <2> QED
    BY <1>1, <1>3, <2>1, AskedAgain
<1> QED
  BY <1>2, <1>3 DEF IdleTimeoutEvent

----------------------------------------------------------------------------
(* Theorems *)

\* Before the first catch-up.
LEMMA InitIInv == Init => IInv
<1> SUFFICES ASSUME Init PROVE IInv
  OBVIOUS
<1>1. World
  BY CatchupAssumption DEF Init, World, N
<1>2. Phased /\ Stored /\ Aimed
  BY CatchupAssumption DEF Init, Phased, Stored, Aimed, Tree, Genesis, Wrong, NoCache, Torn
<1>3. Counted
  <2>1. replies = {} /\ timeouts = {} /\ phase = "closed"
    BY DEF Init
  <2>2. \A v : Voters({}, v) = {}
    BY DEF Voters
  <2>3. AtMost({}, F)
    BY <2>2, FS_EmptySet, PoolSize DEF AtMost
  <2> QED
    BY <2>1, <2>3, FS_EmptySet DEF Counted, Honestly
<1>4. Timed /\ Asked
  BY NewQuiet DEF Init, Timed, Asked, Quiet, Unasked
<1> QED
  BY <1>1, <1>2, <1>3, <1>4 DEF IInv

\* Every step keeps the invariant.
LEMMA NextIInv == IInv /\ [Next]_vars => IInv'
<1> SUFFICES ASSUME IInv, [Next]_vars PROVE IInv'
  OBVIOUS
<1>1. CASE Open
  BY <1>1, OpenStep
<1>2. ASSUME NEW n \in Node,
             \/ StatusReply(n) \/ StatusTimeout(n)
             \/ CatchupRep(n) \/ RefusedRep(n) \/ SingleTimeout(n) \/ CrashInDump(n)
      PROVE  IInv'
  BY <1>2, StatusReplyStep, StatusTimeoutStep, CatchupRepStep, RefusedRepStep,
     SingleTimeoutStep, CrashInDumpStep
<1>3. CASE IdleExpires
  BY <1>3, IdleExpiresStep
<1>4. CASE IdleTimeoutEvent
  BY <1>4, IdleTimeoutEventStep
<1>5. CASE UNCHANGED vars
  <2>1. /\ UNCHANGED <<length, faulty, phase, result, tree, cache, statuses, replies, timeouts>>
        /\ net' = net /\ target' = target /\ idle' = idle
    BY <1>5 DEF vars
  <2>2. World' /\ Phased' /\ Stored' /\ Aimed'
    BY <2>1, WorldStays DEF IInv, Phased, Stored, Aimed, Known
  <2>3. Counted'
    BY <2>1 DEF IInv, Counted, Honestly, AtMost, Room, Voters, F, N
  <2>4. Timed' /\ Asked'
    BY <2>1 DEF IInv, Timed, Asked, Shaped, Owned, Unasked, OnlyFor, Quiet, Armed
  <2> QED
    BY <2>2, <2>3, <2>4 DEF IInv
<1> QED
  BY <1>1, <1>2, <1>3, <1>4, <1>5 DEF Next

\* IInv is an invariant of the catch-up.
LEMMA Inductive == Spec => []IInv
BY InitIInv, NextIInv, PTL DEF Spec

\* Whatever less than a third of the nodes say and whatever the cache held, the
\* tree that _try_to_catch_up or _process_catchup_reply ends with is a prefix of
\* the ledger that some honest node has.
THEOREM SynchronisesWithTheLedger == Spec => []SyncedWithLedger
<1>1. IInv => SyncedWithLedger
  <2> SUFFICES ASSUME IInv, result = "synced" PROVE SyncedWithLedger
    BY DEF SyncedWithLedger
  <2>1. tree \in 1..9 /\ length \in [Node -> 1..9]
    BY DEF IInv, Aimed, Known, World, Wrong
  <2>2. PICK h \in Node \ faulty : tree <= length[h]
    BY DEF IInv, Aimed, Known
  <2> DEFINE S == {length[n] : n \in Node \ faulty}
  <2>3. S \in SUBSET Nat /\ S # {} /\ length[h] \in S /\ \A x \in S : x <= 9
    BY <2>1, <2>2
  <2> HIDE DEF S
  <2>4. Max(S) \in Nat /\ length[h] <= Max(S) /\ length[h] \in Nat
    BY <2>3, MaxIs
  <2>5. tree \in 1..Max(S)
    BY <2>1, <2>2, <2>4
  <2> QED
    BY <2>1, <2>5 DEF SyncedWithLedger, Good, Wrong, S
<1> QED
  BY <1>1, Inductive, PTL

\* However votes, timeouts and events of an idle connection are counted, for
\* the same node too, the unsigned subtraction of check_nodes_responses_on_status
\* has room for one more.
THEOREM RoomForEveryVote == Spec => []CatchupNoUnderflow
<1>1. IInv => CatchupNoUnderflow
  <2> SUFFICES ASSUME IInv, phase = "consensus"
               PROVE  Cardinality(replies) + Cardinality(timeouts) < N
    BY DEF CatchupNoUnderflow
  <2>1. /\ Room(replies, timeouts) /\ Cardinality(replies) \in Nat /\ Cardinality(timeouts) \in Nat
        /\ N \in Nat /\ F \in Nat /\ 3 * F < N
    BY PoolSize, FS_CardinalityType DEF IInv, Counted
  <2>2. CASE replies # {}
    BY <2>1, <2>2 DEF Room
  <2>3. CASE replies = {}
    BY <2>1, <2>3, FS_EmptySet DEF Room
  <2> QED
    BY <2>2, <2>3
<1> QED
  BY <1>1, Inductive, PTL

\* Whoever lies, whatever the cache held and whichever nodes were asked, a
\* catch-up ends with every timer of its request for transactions disarmed; from
\* the genesis file, with honest nodes and without an idle connection, it ends
\* with every timer of the networker disarmed, whichever handler armed it.
THEOREM EveryTimerDisarmed == Spec => []NoTimerLeft
<1>1. IInv => NoTimerLeft
  <2> SUFFICES ASSUME IInv, phase = "done" PROVE NoTimerLeft
    BY DEF NoTimerLeft
  <2>1. Unasked(net, CatchupId)
    BY DEF IInv, Asked
  <2>2. Timers(net, CatchupId) = {}
    BY <2>1 DEF Unasked, Armed, Timers
  <2>3. ASSUME faulty = {}, statuses = {Genesis}, idle = "none", NEW q \in ReqId
        PROVE  Timers(net, q) = {}
    <3>1. Quiet(net)
      BY <2>3 DEF IInv, Timed
    <3> QED
      BY <3>1 DEF Quiet, Armed, Timers
  <2> QED
    BY <2>2, <2>3 DEF NoTimerLeft
<1> QED
  BY <1>1, Inductive, PTL

=============================================================================
