-------------------------- MODULE PoolRequestProofs --------------------------
(***************************************************************************)
(* Proofs about PoolRequest: for every pool, every set of less than a      *)
(* third faulty nodes and every request, the caller is answered once, with *)
(* what the ledger holds, and the counting of the replies is sound.        *)
(*                                                                         *)
(* A quorum of f + 1 equal results has an honest node in it because a node *)
(* is counted once for each result (OneEach).  The counting never runs out *)
(* because each event takes at most one from what is Left, and the handler *)
(* goes on only while more than f is left.                                 *)
(***************************************************************************)
EXTENDS PoolRequest, FiniteSetTheorems, TLAPS

----------------------------------------------------------------------------
(* The inductive invariant *)

\* What is left of the pool for a consensus: is_consensus_reachable's number.
Left == MaxCount(replies) + N - Cardinality(replies) - Cardinality(timeout_nodes)

\* The proof of a result that is reported satisfies the times asked for.
Fresh(what) ==
    LET from == req.timestamps[1]  to == req.timestamps[2]
    IN  /\ from # None => what.left + Threshold >= from
        /\ to # None => what.time + Threshold >= to
        /\ to = None => what.time + Threshold >= Now

\* Why a request is given up.
Hopeless ==
    \/ req.kind = "Consensus" /\ Left <= F
    \/ /\ req.kind = "Single"
       /\ Cardinality(timeout_nodes) + Cardinality(replies) >= N
       /\ \A v \in Result : Count(replies, v) <= F

Typed ==
    /\ req \in Req
    /\ faulty \in SUBSET Node /\ 3 * Cardinality(faulty) < N
    /\ state \in {"Start", "Consensus", "Single", "Full", "Finish"}
    /\ state \in {"Consensus", "Single", "Full"} => state = req.kind
    /\ IsFiniteSet(replies) /\ timeout_nodes \in SUBSET Node
    /\ \A p \in replies : p.result \in Result /\ p.node \in Node
    /\ req.kind = "Consensus" => replies \subseteq [result : Result, node : Node]
    /\ state = "Start" => replies = {} /\ timeout_nodes = {}

\* One answer, when the handler is finished.
Answers == answer = IF state = "Finish" THEN <<answer[1]>> ELSE <<>>

\* A node is counted once for each result, an honest one with the ledger's.
OneEach == \A p, q \in replies : p.result = q.result /\ p.node = q.node => p = q
Honestly == \A p \in replies : p.node \notin faulty => p.result \in DOMAIN Ledger

\* The handler waits only while there is something to wait for ...
Room ==
    req.kind = "Consensus" =>
        Left \in Nat /\ (state \in {"Start", "Consensus"} => Left > F)

\* ... and nothing decides the request.
Undecided == state = "Single" => \A v \in Result : Count(replies, v) <= F

Justified ==
    state = "Finish" =>
        /\ answer[1].ok /\ req.kind # "Full" => answer[1].what.result \in DOMAIN Ledger
        /\ /\ answer[1].ok /\ req.kind = "Single"
           /\ Count(replies, answer[1].what.result) <= F
           => Fresh(answer[1].what)
        /\ ~answer[1].ok /\ answer[1].what = "PoolTimeout" => Hopeless

\* The networker while a write is under way: one connection at most, which
\* carries the request, with no timer of a node that has replied.
Connection ==
    [order : {Order}, sockets : SUBSET Node, resend : {Empty},
     timeouts : SUBSET ({r} \X Node), req_cnt : Nat, active : BOOLEAN]
Carries == [q \in {r} |-> 1]
OnlyWrite ==
    [nodes : {Node}, conns : [{} -> Connection] \cup [{1} -> Connection],
     mappings : {Carries}, made : {1}]

Disarmed ==
    /\ state = "Start" => net = NetworkerNew(Node)
    /\ state = "Consensus" =>
          /\ net \in OnlyWrite
          /\ \A p \in replies : \A c \in DOMAIN net.conns :
                <<r, p.node>> \notin net.conns[c].timeouts

IInv ==
    /\ Typed /\ Answers /\ OneEach /\ Honestly
    /\ Room /\ Undecided /\ Justified /\ Disarmed

----------------------------------------------------------------------------
(* Counting *)

\* A pool has more than three times the faulty nodes it tolerates (_get_f),
\* and no set of less than a third of it has more.
LEMMA PoolSize ==
    /\ N \in Nat /\ N >= 1 /\ F \in Nat /\ 3 * F < N
    /\ \A S \in SUBSET Node :
          /\ IsFiniteSet(S) /\ Cardinality(S) \in Nat
          /\ 3 * Cardinality(S) < N => Cardinality(S) <= F
<1>1. IsFiniteSet(Node) /\ Node # {}
  BY NetworkerAssumption
<1>2. N \in Nat /\ N >= 1
  BY <1>1, FS_CardinalityType, FS_EmptySet DEF N
<1>3. F \in Nat /\ 3 * F < N /\ \A k \in Nat : 3 * k < N => k <= F
  BY <1>2 DEF F, GetF
<1>4. ASSUME NEW S \in SUBSET Node
      PROVE  IsFiniteSet(S) /\ Cardinality(S) \in Nat
  BY <1>1, FS_Subset, FS_CardinalityType
<1> QED
  BY <1>2, <1>3, <1>4

\* A bounded set of natural numbers that is not empty has its maximum.
LEMMA MaxOfBounded ==
    ASSUME NEW S \in SUBSET Nat, S # {}, NEW b \in Nat, \A x \in S : x <= b
    PROVE  Max(S) \in S /\ \A x \in S : x <= Max(S)
<1> DEFINE U == {k \in Nat : \A x \in S : x <= k}
<1>1. \E m \in U : \A k \in U : ~(<<k, m>> \in OpToRel(<, Nat))
  <2>1. U \subseteq Nat /\ U # {}
    OBVIOUS
  <2> QED
    BY <2>1, WFMin, NatLessThanWellFounded
<1>2. PICK m \in U : \A k \in U : ~(<<k, m>> \in OpToRel(<, Nat))
  BY <1>1
<1>3. \A k \in U : ~(k < m)
  BY <1>2 DEF OpToRel
<1>4. m \in S
  <2>1. SUFFICES ASSUME m \notin S PROVE FALSE
    OBVIOUS
  <2>2. PICK x \in S : TRUE
    OBVIOUS
  <2>3. x <= m /\ x # m /\ x \in Nat
    BY <2>1
  <2>4. m - 1 \in Nat /\ \A y \in S : y <= m - 1
    BY <2>1, <2>3
  <2> QED
    BY <1>3, <2>4
<1>5. \E x \in S : \A y \in S : x >= y
  BY <1>4
<1>6. Max(S) \in S /\ \A y \in S : Max(S) >= y
  BY <1>5 DEF Max
<1> QED
  BY <1>6

\* max_repeated_replies is a count, and no other is larger.
LEMMA MaxCountIs ==
    ASSUME NEW R, IsFiniteSet(R)
    PROVE  /\ MaxCount(R) \in Nat
           /\ \E v \in Result : MaxCount(R) = Count(R, v)
           /\ \A v \in Result : Count(R, v) \in Nat /\ Count(R, v) <= MaxCount(R)
<1> DEFINE S == {Count(R, v) : v \in Result}
<1>1. \A v : Count(R, v) \in Nat /\ Count(R, v) <= Cardinality(R)
  BY FS_Subset, FS_CardinalityType DEF Count
<1>2. Cardinality(R) \in Nat
  BY FS_CardinalityType
<1>3. S \in SUBSET Nat /\ S # {} /\ \A x \in S : x <= Cardinality(R)
  BY <1>1, ReqAssumption DEF Result
<1>4. Max(S) \in S /\ \A x \in S : x <= Max(S)
  BY <1>2, <1>3, MaxOfBounded
<1>5. MaxCount(R) = Max(S)
  BY DEF MaxCount
<1> HIDE DEF S
<1>6. MaxCount(R) \in Nat
  BY <1>3, <1>4, <1>5
<1> QED
  BY <1>1, <1>4, <1>5, <1>6 DEF S

\* A reply that comes is one more at most, and lowers no count.
LEMMA OneMore ==
    ASSUME NEW R, IsFiniteSet(R), NEW p
    PROVE  /\ IsFiniteSet(R \cup {p})
           /\ Cardinality(R) \in Nat /\ Cardinality(R \cup {p}) \in Nat
           /\ Cardinality(R \cup {p}) <= Cardinality(R) + 1
           /\ MaxCount(R) <= MaxCount(R \cup {p})
<1>1. IsFiniteSet(R \cup {p}) /\ Cardinality(R) \in Nat /\ Cardinality(R \cup {p}) \in Nat
  BY FS_AddElement, FS_CardinalityType
<1>2. Cardinality(R \cup {p}) <= Cardinality(R) + 1
  BY <1>1, FS_AddElement
<1>3. PICK v \in Result : MaxCount(R) = Count(R, v)
  BY MaxCountIs
<1>4. Count(R, v) <= Count(R \cup {p}, v)
  <2>1. {q \in R : q.result = v} \in SUBSET {q \in R \cup {p} : q.result = v}
    OBVIOUS
  <2>2. IsFiniteSet({q \in R \cup {p} : q.result = v})
    BY <1>1, FS_Subset
  <2> QED
    BY <2>1, <2>2, FS_Subset DEF Count
<1>5. Count(R \cup {p}, v) <= MaxCount(R \cup {p}) /\ MaxCount(R \cup {p}) \in Nat
      /\ Count(R, v) \in Nat /\ Count(R \cup {p}, v) \in Nat
  BY <1>1, MaxCountIs
<1> QED
  BY <1>1, <1>2, <1>3, <1>4, <1>5

\* More than f equal results come from an honest node too.
LEMMA QuorumHasHonest ==
    ASSUME NEW R, IsFiniteSet(R), NEW v, Count(R, v) > F,
           NEW B \in SUBSET Node, 3 * Cardinality(B) < N,
           \A p, q \in R : p.result = q.result /\ p.node = q.node => p = q
    PROVE  \E p \in R : p.result = v /\ p.node \notin B
<1> DEFINE S == {p \in R : p.result = v}
           f == [p \in S |-> p.node]
<1>1. IsFiniteSet(S) /\ Cardinality(S) \in Nat
  BY FS_Subset, FS_CardinalityType
<1>2. SUFFICES ASSUME \A p \in S : p.node \in B PROVE FALSE
  OBVIOUS
<1>3. f \in Injection(S, B)
  BY <1>2 DEF Injection, IsInjective
<1>4. IsFiniteSet(B) /\ Cardinality(B) \in Nat /\ Cardinality(B) <= F /\ F \in Nat
  BY PoolSize
<1>5. Cardinality(S) <= Cardinality(B)
  BY <1>3, <1>4, FS_Injection
<1>6. Cardinality(S) > F
  BY DEF Count
<1> QED
  BY <1>1, <1>4, <1>5, <1>6

----------------------------------------------------------------------------
(* Each action preserves the invariant *)

\* A new handler has no replies and all of the pool left.
LEMMA InitIInv == Init => IInv
<1> SUFFICES ASSUME Init PROVE IInv
  OBVIOUS
<1>1. IsFiniteSet({}) /\ Cardinality({}) = 0
  BY FS_EmptySet
<1>2. Typed
  BY <1>1 DEF Init, Typed
<1>3. Answers /\ OneEach /\ Honestly /\ Undecided /\ Justified /\ Disarmed
  BY DEF Init, Answers, OneEach, Honestly, Undecided, Justified, Disarmed
<1>4. Room
  <2>1. MaxCount({}) \in Nat
    BY <1>1, MaxCountIs
  <2>2. Left = MaxCount({}) + N
    BY <1>1, <2>1, PoolSize DEF Init, Left
  <2> QED
    BY <2>1, <2>2, PoolSize DEF Room
<1> QED
  BY <1>2, <1>3, <1>4 DEF IInv

\* A write is sent to all nodes over the first connection.
LEMMA FirstSend ==
    ASSUME NEW w, w = NetworkerNew(Node)
    PROVE  NetSendAll(w, Node) \in OnlyWrite
<1> DEFINE ev == [op |-> "SendAll", req |-> r, nodes |-> Node]
           new == ConnectionNew(Order)
           S == ToSet(Order) \cap Node
           pc == SendRequest(new, ev)
<1>1. w = [nodes |-> Node, conns |-> Empty, mappings |-> Empty, made |-> 0]
  BY DEF NetworkerNew
<1>2. ConnectionFor(w, r) = {}
  BY <1>1 DEF ConnectionFor, Reusable, Empty
<1>3. new \in Connection /\ new.order = Order
  BY DEF ConnectionNew, Connection
<1>4. pc = [SendMsg(new, r, S) EXCEPT !.req_cnt = @ + 1]
  <2>1. ToSet(new.order) \cap ev.nodes = S /\ ev.op = "SendAll" /\ ev.req = r
    BY <1>3
  <2> HIDE DEF new, ev
  <2> QED
    BY <2>1 DEF SendRequest
<1>5. pc \in Connection
  <2> HIDE DEF new, S
  <2>1. S \in SUBSET Node /\ {r} \X S \in SUBSET ({r} \X Node)
    BY DEF S
  <2>2. SendMsg(new, r, S) \in Connection
    BY <1>3, <2>1 DEF SendMsg, Connection
  <2> QED
    BY <1>4, <2>2 DEF Connection
<1>6. Put(Empty, {1}, pc) \in [{1} -> Connection] /\ Put(Empty, {r}, 1) = Carries
  BY <1>5 DEF Put, Empty, Carries
<1>7. NetSendAll(w, Node) =
          [w EXCEPT !.conns = Put(@, {1}, pc), !.mappings = Put(@, {r}, 1), !.made = 1]
  <2>1. ev.req = r /\ w.made + 1 = 1
    BY <1>1
  <2>2. NetSendAll(w, Node) = Send(w, ev, Order)
    BY DEF NetSendAll
  <2> HIDE DEF ev
  <2> QED
    BY <1>2, <2>1, <2>2 DEF Send
<1> QED
  <2> HIDE DEF pc
  <2>1. w \in [nodes : {Node}, conns : {Empty}, mappings : {Empty}, made : {0}]
    BY <1>1
  <2>2. w.conns = Empty /\ w.mappings = Empty
    BY <2>1
  <2>3. NetSendAll(w, Node) =
            [w EXCEPT !.conns = Put(Empty, {1}, pc), !.mappings = Carries, !.made = 1]
    BY <1>6, <1>7, <2>2
  <2> QED
    BY <1>6, <2>1, <2>3 DEF OnlyWrite

\* The timer of a node that is done with is disarmed, and no other is armed.
LEMMA CleanDisarms ==
    ASSUME NEW w \in OnlyWrite, NEW n \in Node
    PROVE  /\ CleanTimeout(w, r, n) \in OnlyWrite
           /\ \A c \in DOMAIN CleanTimeout(w, r, n).conns :
                 /\ c \in DOMAIN w.conns
                 /\ CleanTimeout(w, r, n).conns[c].timeouts
                       = w.conns[c].timeouts \ ({r} \X {n})
<1>1. w = [nodes |-> Node, conns |-> w.conns, mappings |-> Carries, made |-> 1]
  BY DEF OnlyWrite
<1>2. r \in DOMAIN w.mappings /\ w.mappings[r] = 1
  BY <1>1 DEF Carries
<1>3. CASE w.conns \in [{} -> Connection]
  <2>1. CleanTimeout(w, r, n) = w
    BY <1>2, <1>3 DEF CleanTimeout
  <2> QED
    BY <1>3, <2>1
<1>4. CASE w.conns \in [{1} -> Connection]
  <2> DEFINE pc == [w.conns[1] EXCEPT !.timeouts = @ \ ({r} \X {n})]
             cs == [w.conns EXCEPT ![1] = pc]
             x == [w EXCEPT !.conns = cs]
             gone == {c \in {1} \cap DOMAIN cs : IsOrphaned(cs[c])}
             y == [x EXCEPT !.conns = Drop(cs, gone)]
  <2>1. w.conns[1] \in Connection /\ pc \in Connection
    BY <1>4 DEF Connection
  <2>2. cs = [c \in {1} |-> pc] /\ cs \in [{1} -> Connection]
    BY <1>4, <2>1
  <2>3. CleanTimeout(w, r, n) = y
    <3>1. x.conns = cs
      BY <1>1
    <3>2. RemoveOrphans(x, {1}) = y
      BY <3>1 DEF RemoveOrphans
    <3>3. [w EXCEPT !.conns[w.mappings[r]] = ConnCleanTimeout(@, r, {n})] = x
      BY <1>2 DEF ConnCleanTimeout
    <3>4. 1 \in DOMAIN w.conns
      BY <1>4
    <3> QED
      BY <1>2, <3>2, <3>3, <3>4 DEF CleanTimeout
  <2>4. Drop(cs, gone) \in [{} -> Connection] \/ Drop(cs, gone) = cs
    <3>1. gone = {1} \/ gone = {}
      BY <2>2
    <3>2. Drop(cs, {1}) \in [{} -> Connection] /\ Drop(cs, {}) = cs
      BY <2>2 DEF Drop, Restrict
    <3> QED
      BY <3>1, <3>2
  <2> HIDE DEF gone, cs
  <2>5. y \in OnlyWrite /\ y.conns = Drop(cs, gone)
    BY <2>2, <2>4 DEF OnlyWrite
  <2>6. \A c \in DOMAIN y.conns : c = 1 /\ y.conns[c] = pc
    BY <2>2, <2>4, <2>5
  <2>7. pc.timeouts = w.conns[1].timeouts \ ({r} \X {n})
    BY <2>1 DEF Connection
  <2> QED
    BY <1>4, <2>3, <2>5, <2>6, <2>7
<1> QED
  BY <1>3, <1>4 DEF OnlyWrite

\* What a node can send: its result is known, an honest node's and one with a
\* proof that verifies are the ledger's.
LEMMA Sendable ==
    ASSUME NEW n \in Node, NEW rep \in CanSend(n)
    PROVE  /\ rep.result \in Result /\ rep.time \in Nat /\ rep.left \in Nat
           /\ n \notin faulty \/ rep.proof => rep.result \in DOMAIN Ledger
<1>1. CASE rep \in Honest
  <2>1. PICK v \in DOMAIN Ledger, b \in BOOLEAN :
            rep = [result |-> v, time |-> Ledger[v], left |-> Ledger[v], proof |-> b]
    BY <1>1 DEF Honest
  <2>2. Ledger[v] \in Nat
    BY ReqAssumption
  <2> QED
    BY <2>1, <2>2 DEF Result
<1>2. CASE rep \in Forged /\ n \in faulty
  <2>1. PICK v \in Lies : rep = [result |-> v, time |-> Now, left |-> Now, proof |-> FALSE]
    BY <1>2 DEF Forged
  <2> QED
    BY <1>2, <2>1, ReqAssumption DEF Result
<1> QED
  BY <1>1, <1>2 DEF CanSend

\* The first answer ends the handler.
LEMMA AckOnce ==
    ASSUME Answers, state # "Finish", NEW ok, NEW what, Ack(ok, what), state' = "Finish"
    PROVE  Answers' /\ answer'[1] = [ok |-> ok, what |-> what]
BY DEF Answers, Ack

\* The first send keeps the invariant: for each kind of request it arms the
\* timers of the nodes that were asked and counts nobody yet.
LEMMA StartStep == IInv /\ Start => IInv'
<1> SUFFICES ASSUME IInv, Start PROVE IInv'
  OBVIOUS
<1> USE DEF IInv
<1>1. /\ state = "Start" /\ answer = <<>>
      /\ req' = req /\ faulty' = faulty /\ replies' = replies /\ timeout_nodes' = timeout_nodes
      /\ replies = {} /\ timeout_nodes = {} /\ net = NetworkerNew(Node)
  BY DEF Start, Answers, Typed, Disarmed
<1>2. \/ /\ req.kind = "Consensus" /\ state' = "Consensus" /\ answer' = answer
         /\ net' = NetSendAll(net, Node)
      \/ req.kind = "Single" /\ state' = "Single" /\ answer' = answer
      \/ req.kind = "Full" /\ state' = "Full" /\ answer' = answer
      \/ req.kind = "Full" /\ state' = "Finish" /\ Ack(FALSE, "InvalidStructure")
  BY DEF Start, StartConsensus, StartSingle, StartFull
<1>3. Typed' /\ OneEach' /\ Honestly'
  BY <1>1, <1>2 DEF Typed, OneEach, Honestly
<1>4. Answers' /\ Justified'
  <2>1. CASE state' # "Finish"
    BY <1>1, <1>2, <2>1 DEF Answers, Justified
  <2>2. CASE state' = "Finish"
    <3>1. Answers' /\ answer'[1] = [ok |-> FALSE, what |-> "InvalidStructure"]
      BY <1>1, <1>2, <2>2, AckOnce
    <3> QED
      BY <3>1 DEF Justified
  <2> QED
    BY <2>1, <2>2
<1>5. Room'
  BY <1>1, <1>2 DEF Room, Left
<1>6. Undecided'
  BY <1>1, FS_EmptySet, PoolSize DEF Undecided, Count
<1>7. Disarmed'
  BY <1>1, <1>2, FirstSend DEF Disarmed
<1> QED
  BY <1>3, <1>4, <1>5, <1>6, <1>7

\* A reply in the Consensus state.
LEMMA ConsensusReplyStep ==
    ASSUME IInv, NEW n \in Node, NEW rep \in CanSend(n), ConsensusReply(n, rep),
           UNCHANGED <<req, faulty>>
    PROVE  IInv'
<1> USE DEF IInv
<1> DEFINE p == [result |-> rep.result, node |-> n]
<1>1. /\ state = "Consensus" /\ req.kind = "Consensus" /\ req' = req /\ faulty' = faulty
      /\ replies' = replies \cup {p} /\ timeout_nodes' = timeout_nodes
      /\ IsFiniteSet(replies)
  BY DEF ConsensusReply, Typed
<1>2. rep.result \in Result /\ (n \notin faulty => rep.result \in DOMAIN Ledger)
  BY Sendable
<1>3. state' \in {"Consensus", "Finish"}
  BY <1>1 DEF ConsensusReply, Impossible
<1>4. Typed' /\ Honestly'
  <2>1. IsFiniteSet(replies')
    BY <1>1, OneMore
  <2> QED
    BY <1>1, <1>2, <1>3, <2>1 DEF Typed, Honestly
<1>5. OneEach'
  BY <1>1, <1>4 DEF OneEach, Typed
<1>6. /\ Left' \in Int /\ Left' >= Left - 1
      /\ Left \in Nat /\ Left > F /\ F \in Nat
  <2>1. /\ Cardinality(replies) \in Nat /\ Cardinality(replies') \in Nat
        /\ Cardinality(replies') <= Cardinality(replies) + 1
        /\ MaxCount(replies) <= MaxCount(replies') /\ IsFiniteSet(replies')
    BY <1>1, OneMore
  <2>2. MaxCount(replies) \in Nat /\ MaxCount(replies') \in Nat
    BY <1>1, <2>1, MaxCountIs
  <2>3. Cardinality(timeout_nodes) \in Nat
    BY PoolSize DEF Typed
  <2>4. Left' = MaxCount(replies') + N - Cardinality(replies') - Cardinality(timeout_nodes)
    BY <1>1 DEF Left
  <2>5. Left = MaxCount(replies) + N - Cardinality(replies) - Cardinality(timeout_nodes)
    BY DEF Left
  <2>6. Left \in Nat /\ Left > F
    BY <1>1 DEF Room
  <2> QED
    BY <2>1, <2>2, <2>3, <2>4, <2>5, <2>6, PoolSize
<1>7. ConsensusReachable(replies', timeout_nodes) <=> Left' > F
  BY <1>1 DEF ConsensusReachable, Left
<1>8. CASE ReplyEnough(replies', rep.result)
  <2>1. state' = "Finish"
        /\ Ack(TRUE, [result |-> rep.result, time |-> rep.time, left |-> rep.left])
    BY <1>8 DEF ConsensusReply
  <2>2. PICK h \in replies' : h.result = rep.result /\ h.node \notin faulty'
    BY <1>4, <1>5, <1>8, QuorumHasHonest DEF ReplyEnough, Typed, OneEach
  <2>3. rep.result \in DOMAIN Ledger
    BY <1>4, <2>2 DEF Honestly
  <2>4. Answers' /\ answer'[1] = [ok |-> TRUE, what |-> [result |-> rep.result,
                                                         time |-> rep.time, left |-> rep.left]]
    BY <1>1, <2>1, AckOnce
  <2>5. Justified' /\ Undecided' /\ Disarmed'
    BY <1>1, <2>1, <2>3, <2>4 DEF Justified, Undecided, Disarmed
  <2>6. Room'
    BY <1>6, <2>1 DEF Room
  <2> QED
    BY <1>4, <1>5, <2>4, <2>5, <2>6
<1>9. CASE ~ReplyEnough(replies', rep.result) /\ Left' > F
  <2>1. state' = state /\ answer' = answer /\ net' = CleanTimeout(net, r, n)
    BY <1>7, <1>9 DEF ConsensusReply, NetClean
  <2>2. Answers' /\ Justified' /\ Undecided' /\ Room'
    BY <1>1, <1>6, <1>9, <2>1 DEF Answers, Justified, Undecided, Room
  <2>3. Disarmed'
    <3>1. net \in OnlyWrite
      BY <1>1 DEF Disarmed
    <3>2. /\ net' \in OnlyWrite
          /\ \A c \in DOMAIN net'.conns :
                c \in DOMAIN net.conns /\ net'.conns[c].timeouts = net.conns[c].timeouts \ ({r} \X {n})
      BY <2>1, <3>1, CleanDisarms
    <3>3. ASSUME NEW q \in replies', NEW c \in DOMAIN net'.conns
          PROVE  <<r, q.node>> \notin net'.conns[c].timeouts
      BY <1>1, <3>2 DEF Disarmed
    <3> QED
      BY <1>1, <2>1, <3>2, <3>3 DEF Disarmed
  <2> QED
    BY <1>4, <1>5, <2>2, <2>3
<1>10. CASE ~ReplyEnough(replies', rep.result) /\ ~(Left' > F)
  <2>1. state' = "Finish" /\ Ack(FALSE, "PoolTimeout")
    BY <1>7, <1>10 DEF ConsensusReply, Impossible
  <2>2. Answers' /\ answer'[1] = [ok |-> FALSE, what |-> "PoolTimeout"]
    BY <1>1, <2>1, AckOnce
  <2>3. Hopeless'
    BY <1>1, <1>6, <1>10 DEF Hopeless
  <2>4. Justified' /\ Undecided' /\ Disarmed' /\ Room'
    BY <1>6, <2>1, <2>2, <2>3 DEF Justified, Undecided, Disarmed, Room
  <2> QED
    BY <1>4, <1>5, <2>2, <2>4
<1> QED
  BY <1>8, <1>9, <1>10

\* A timer fires in the Consensus state.
LEMMA ConsensusTimeoutStep ==
    ASSUME IInv, NEW n \in Node, ConsensusTimeout(n), UNCHANGED <<req, faulty>>
    PROVE  IInv'
<1> USE DEF IInv
<1>1. /\ state = "Consensus" /\ req.kind = "Consensus" /\ req' = req /\ faulty' = faulty
      /\ replies' = replies /\ timeout_nodes' = timeout_nodes \cup {n}
      /\ IsFiniteSet(replies)
  BY DEF ConsensusTimeout, Typed
<1>2. state' \in {"Consensus", "Finish"}
  BY <1>1 DEF ConsensusTimeout, Impossible
<1>3. Typed' /\ Honestly' /\ OneEach'
  BY <1>1, <1>2 DEF Typed, Honestly, OneEach
<1>4. Left' \in Int /\ Left' >= Left - 1 /\ Left \in Nat /\ Left > F /\ F \in Nat
  <2>1. MaxCount(replies) \in Nat /\ Cardinality(replies) \in Nat
    BY <1>1, MaxCountIs, FS_CardinalityType
  <2>2. timeout_nodes \in SUBSET Node /\ timeout_nodes' \in SUBSET Node
    BY <1>1 DEF Typed
  <2>3. /\ Cardinality(timeout_nodes) \in Nat /\ Cardinality(timeout_nodes') \in Nat
        /\ IsFiniteSet(timeout_nodes)
    BY <2>2, PoolSize
  <2>4. Cardinality(timeout_nodes') <= Cardinality(timeout_nodes) + 1
    <3>1. Cardinality(timeout_nodes \cup {n})
              = IF n \in timeout_nodes THEN Cardinality(timeout_nodes)
                                       ELSE Cardinality(timeout_nodes) + 1
      BY <2>3, FS_AddElement
    <3> QED
      BY <1>1, <2>3, <3>1
  <2>5. Left' = MaxCount(replies) + N - Cardinality(replies) - Cardinality(timeout_nodes')
    BY <1>1 DEF Left
  <2>6. Left = MaxCount(replies) + N - Cardinality(replies) - Cardinality(timeout_nodes)
    BY DEF Left
  <2>7. Left \in Nat /\ Left > F
    BY <1>1 DEF Room
  <2> QED
    BY <2>1, <2>3, <2>4, <2>5, <2>6, <2>7, PoolSize
<1>5. ConsensusReachable(replies, timeout_nodes') <=> Left' > F
  BY <1>1 DEF ConsensusReachable, Left
<1>6. CASE Left' > F
  <2>1. state' = state /\ answer' = answer /\ net' = CleanTimeout(net, r, n)
    BY <1>5, <1>6 DEF ConsensusTimeout, NetClean
  <2>2. Answers' /\ Justified' /\ Undecided' /\ Room'
    BY <1>1, <1>4, <1>6, <2>1 DEF Answers, Justified, Undecided, Room
  <2>3. Disarmed'
    <3>1. net \in OnlyWrite
      BY <1>1 DEF Disarmed
    <3>2. /\ net' \in OnlyWrite
          /\ \A c \in DOMAIN net'.conns :
                c \in DOMAIN net.conns /\ net'.conns[c].timeouts = net.conns[c].timeouts \ ({r} \X {n})
      BY <2>1, <3>1, CleanDisarms
    <3> QED
      BY <1>1, <2>1, <3>2 DEF Disarmed
  <2> QED
    BY <1>3, <2>2, <2>3
<1>7. CASE ~(Left' > F)
  <2>1. state' = "Finish" /\ Ack(FALSE, "PoolTimeout")
    BY <1>5, <1>7 DEF ConsensusTimeout, Impossible
  <2>2. Answers' /\ answer'[1] = [ok |-> FALSE, what |-> "PoolTimeout"]
    BY <1>1, <2>1, AckOnce
  <2>3. Hopeless'
    BY <1>1, <1>4, <1>7 DEF Hopeless
  <2>4. Justified' /\ Undecided' /\ Disarmed' /\ Room'
    BY <1>4, <2>1, <2>2, <2>3 DEF Justified, Undecided, Disarmed, Room
  <2> QED
    BY <1>3, <2>2, <2>4
<1> QED
  BY <1>6, <1>7

\* The Single state goes on with more nodes, or gives up because all nodes
\* are counted.
LEMMA TryToContinueStep ==
    ASSUME IInv, state = "Single", NEW n \in Node, TryToContinue(n),
           UNCHANGED <<req, faulty>>, IsFiniteSet(replies'), timeout_nodes' \in SUBSET Node,
           \A v \in Result : Count(replies', v) <= F,
           \A p \in replies' : p.result \in Result /\ p.node \in Node,
           OneEach', Honestly'
    PROVE  IInv'
<1> USE DEF IInv
<1>1. req.kind = "Single" /\ req' = req /\ faulty' = faulty
  BY DEF Typed
<1>2. \/ state' = state /\ answer' = answer
      \/ ~SingleReachable(replies', timeout_nodes') /\ state' = "Finish" /\ Ack(FALSE, "PoolTimeout")
  BY DEF TryToContinue, Impossible
<1>3. Typed'
  BY <1>1, <1>2 DEF Typed
<1>4. Room' /\ Disarmed' /\ Undecided'
  BY <1>1, <1>2 DEF Room, Disarmed, Undecided
<1>5. CASE state' = state /\ answer' = answer
  BY <1>3, <1>4, <1>5 DEF Answers, Justified
<1>6. CASE ~SingleReachable(replies', timeout_nodes') /\ state' = "Finish"
           /\ Ack(FALSE, "PoolTimeout")
  <2>1. Answers' /\ answer'[1] = [ok |-> FALSE, what |-> "PoolTimeout"]
    BY <1>6, AckOnce
  <2>2. Cardinality(replies') \in Nat /\ Cardinality(timeout_nodes') \in Nat
    BY PoolSize, FS_CardinalityType
  <2>3. Hopeless'
    BY <1>1, <1>6, <2>2, PoolSize DEF Hopeless, SingleReachable
  <2> QED
    BY <1>3, <1>4, <2>1, <2>3 DEF Justified
<1> QED
  BY <1>2, <1>5, <1>6

\* A timer fires in the Single state.
LEMMA SingleTimeoutStep ==
    ASSUME IInv, NEW n \in Node, SingleTimeout(n), UNCHANGED <<req, faulty>>
    PROVE  IInv'
<1>1. /\ state = "Single" /\ TryToContinue(n)
      /\ replies' = replies /\ timeout_nodes' = timeout_nodes \cup {n}
  BY DEF SingleTimeout
<1>2. Typed /\ OneEach /\ Honestly /\ Undecided
  BY DEF IInv
<1>3. IsFiniteSet(replies') /\ timeout_nodes' \in SUBSET Node
      /\ \A p \in replies' : p.result \in Result /\ p.node \in Node
  BY <1>1, <1>2 DEF Typed
<1>4. OneEach' /\ Honestly' /\ \A v \in Result : Count(replies', v) <= F
  BY <1>1, <1>2 DEF OneEach, Honestly, Undecided
<1> QED
  BY <1>1, <1>3, <1>4, TryToContinueStep

\* A reply in the Single state.
LEMMA SingleReplyStep ==
    ASSUME IInv, NEW n \in Node, NEW rep \in CanSend(n), SingleReply(n, rep),
           UNCHANGED <<req, faulty>>
    PROVE  IInv'
<1> DEFINE p == [result |-> rep.result, node |-> n, time |-> rep.time, left |-> rep.left]
<1>1. Typed /\ Answers /\ OneEach /\ Honestly /\ Undecided
  BY DEF IInv
<1>2. /\ state = "Single" /\ req.kind = "Single" /\ req' = req /\ faulty' = faulty
      /\ timeout_nodes' = timeout_nodes \ {n} /\ replies' = InsertResponse(replies, n, rep)
      /\ IsFiniteSet(replies)
  BY <1>1 DEF SingleReply, Typed
<1>3. /\ rep.result \in Result /\ rep.time \in Nat /\ rep.left \in Nat
      /\ n \notin faulty \/ rep.proof => rep.result \in DOMAIN Ledger
  BY Sendable
<1>4. \/ replies' = replies
      \/ /\ replies' = replies \cup {p}
         /\ \A q \in replies : ~(q.result = rep.result /\ q.node = n)
  BY <1>2 DEF InsertResponse
<1>5. IsFiniteSet(replies') /\ timeout_nodes' \in SUBSET Node
  <2>1. IsFiniteSet(replies \cup {p})
    BY <1>2, OneMore
  <2> QED
    BY <1>1, <1>2, <1>4, <2>1 DEF Typed
<1>6. /\ \A q \in replies' : q.result \in Result /\ q.node \in Node
      /\ OneEach' /\ Honestly'
  BY <1>1, <1>2, <1>3, <1>4 DEF Typed, OneEach, Honestly
<1>7. Count(replies', rep.result) \in Nat /\ F \in Nat
  BY <1>3, <1>5, MaxCountIs, PoolSize
<1>8. CASE ReplyEnough(replies', rep.result) \/ CheckStateProof(rep)
  <2>1. \/ ReplyEnough(replies', rep.result) \/ CheckStateProof(rep)
        \/ ~ReplyEnough(replies', rep.result) /\ ~CheckStateProof(rep)
    OBVIOUS
  <2>2. PICK given \in IF ReplyEnough(replies', rep.result)
                       THEN Soonest(replies', rep.result) ELSE {rep} :
            Ack(TRUE, [result |-> given.result, time |-> given.time, left |-> given.left])
    BY <1>8 DEF SingleReply
  <2>3. state' = "Finish"
    BY <1>8 DEF SingleReply
  <2>4. given.result = rep.result
    BY <2>2 DEF Soonest
  <2> DEFINE told == [result |-> given.result, time |-> given.time, left |-> given.left]
  <2>5. Answers' /\ answer'[1] = [ok |-> TRUE, what |-> told]
    BY <1>1, <1>2, <2>2, <2>3, AckOnce
  <2>6. rep.result \in DOMAIN Ledger
    <3>1. CASE ReplyEnough(replies', rep.result)
      <4>1. Count(replies', rep.result) > F
        BY <3>1 DEF ReplyEnough
      <4>2. faulty \in SUBSET Node /\ 3 * Cardinality(faulty) < N
        BY <1>1 DEF Typed
      <4>3. \A q, o \in replies' : q.result = o.result /\ q.node = o.node => q = o
        BY <1>6 DEF OneEach
      <4>4. \E h \in replies' : h.result = rep.result /\ h.node \notin faulty
        BY <1>5, <4>1, <4>2, <4>3, QuorumHasHonest
      <4> QED
        BY <1>2, <1>6, <4>4 DEF Honestly
    <3>2. CASE CheckStateProof(rep)
      BY <1>3, <3>2 DEF CheckStateProof
    <3> QED
      BY <1>8, <3>1, <3>2
  <2>7. ASSUME Count(replies', rep.result) <= F
        PROVE  Fresh(told)'
    <3>1. given = rep /\ CheckFreshness(req.timestamps, rep.left, rep.time)
      BY <1>7, <1>8, <2>2, <2>7 DEF ReplyEnough, CheckStateProof
    <3>2. req.timestamps[1] \in Nat \cup {None} /\ req.timestamps[2] \in Nat \cup {None}
      BY <1>1, ReqAssumption DEF Typed
    <3>3. Now \in Nat /\ Threshold \in Nat
      BY ReqAssumption
    <3>4. told.time = rep.time /\ told.left = rep.left
      BY <3>1
    <3> HIDE DEF told
    <3> QED
      BY <1>2, <1>3, <3>1, <3>2, <3>3, <3>4 DEF CheckFreshness, Fresh
  <2>8. Justified'
    BY <1>2, <2>4, <2>5, <2>6, <2>7 DEF Justified
  <2>9. Typed' /\ Room' /\ Undecided' /\ Disarmed'
    BY <1>1, <1>2, <1>5, <1>6, <2>3 DEF Typed, Room, Undecided, Disarmed
  <2> QED
    BY <1>6, <2>5, <2>8, <2>9 DEF IInv
<1>9. CASE ~ReplyEnough(replies', rep.result) /\ ~CheckStateProof(rep)
  <2>1. TryToContinue(n)
    BY <1>9 DEF SingleReply
  <2>2. ASSUME NEW v \in Result PROVE Count(replies', v) <= F
    <3>1. CASE v = rep.result
      BY <1>7, <1>9, <3>1 DEF ReplyEnough
    <3>2. CASE v # rep.result
      <4>1. {q \in replies' : q.result = v} = {q \in replies : q.result = v}
        BY <1>4, <3>2
      <4> QED
        BY <1>1, <1>2, <4>1 DEF Undecided, Count
    <3> QED
      BY <3>1, <3>2
  <2> QED
    BY <1>2, <1>5, <1>6, <2>1, <2>2, TryToContinueStep
<1> QED
  BY <1>8, <1>9

\* The Full state collects what the nodes say, and reports all of it.
LEMMA FullResultStep ==
    ASSUME IInv, NEW n, NEW what, FullResult(n, what), UNCHANGED <<req, faulty>>
    PROVE  IInv'
<1> USE DEF IInv
<1>1. /\ state = "Full" /\ req.kind = "Full" /\ req' = req /\ faulty' = faulty
      /\ replies' = replies /\ timeout_nodes' = timeout_nodes
  BY DEF FullResult, Typed
<1>2. \/ state' = state /\ answer' = answer
      \/ state' = "Finish" /\ Ack(TRUE, accum_reply')
  BY DEF FullResult
<1>3. Typed' /\ OneEach' /\ Honestly' /\ Undecided' /\ Room' /\ Disarmed'
  BY <1>1, <1>2 DEF Typed, OneEach, Honestly, Undecided, Room, Disarmed
<1>4. CASE state' = state /\ answer' = answer
  BY <1>1, <1>3, <1>4 DEF Answers, Justified
<1>5. CASE state' = "Finish" /\ Ack(TRUE, accum_reply')
  <2>1. Answers' /\ answer'[1] = [ok |-> TRUE, what |-> accum_reply']
    BY <1>1, <1>5, AckOnce
  <2> QED
    BY <1>1, <1>3, <2>1 DEF Justified
<1> QED
  BY <1>2, <1>4, <1>5

\* Closing the pool answers the caller.
LEMMA TerminateStep == IInv /\ Terminate => IInv'
<1> SUFFICES ASSUME IInv, Terminate PROVE IInv'
  OBVIOUS
<1> USE DEF IInv
<1>1. /\ state \in {"Consensus", "Single", "Full"} /\ state' = "Finish"
      /\ Ack(FALSE, "PoolTerminated")
      /\ req' = req /\ faulty' = faulty /\ replies' = replies /\ timeout_nodes' = timeout_nodes
  BY DEF Terminate
<1>2. Typed' /\ OneEach' /\ Honestly' /\ Undecided' /\ Disarmed'
  BY <1>1 DEF Typed, OneEach, Honestly, Undecided, Disarmed
<1>3. Room'
  BY <1>1 DEF Room, Left
<1>4. Answers' /\ answer'[1] = [ok |-> FALSE, what |-> "PoolTerminated"]
  BY <1>1, AckOnce
<1> QED
  BY <1>1, <1>2, <1>3, <1>4 DEF Justified

\* A step of the networker alone that arms no timer.
LEMMA QuietStep ==
    ASSUME IInv, UNCHANGED <<req, faulty, state, replies, timeout_nodes, answer>>,
           state # "Start",
           state = "Consensus" =>
               /\ net' \in OnlyWrite
               /\ \A c \in DOMAIN net'.conns :
                     c \in DOMAIN net.conns /\ net'.conns[c].timeouts = net.conns[c].timeouts
    PROVE  IInv'
<1> USE DEF IInv
<1>1. Typed' /\ Answers' /\ OneEach' /\ Honestly' /\ Undecided'
  BY DEF Typed, Answers, OneEach, Honestly, Undecided
<1>2. Left' = Left
  BY DEF Left
<1>3. Room' /\ Justified'
  BY <1>2 DEF Room, Justified, Hopeless, Fresh
<1>4. Disarmed'
  BY DEF Disarmed
<1> QED
  BY <1>1, <1>3, <1>4

\* REQACK only moves a deadline.
LEMMA ReqACKStep == ASSUME IInv, NEW n \in Node, ReqACK(n) PROVE IInv'
<1>1. /\ state \in {"Consensus", "Single"} /\ net' = ExtendTimeout(net, r, n)
      /\ UNCHANGED <<req, faulty, state, replies, timeout_nodes, answer>>
  BY DEF ReqACK
<1>2. ASSUME state = "Consensus"
      PROVE  /\ net' \in OnlyWrite
             /\ \A c \in DOMAIN net'.conns :
                   c \in DOMAIN net.conns /\ net'.conns[c].timeouts = net.conns[c].timeouts
  <2>1. net \in OnlyWrite
    BY <1>2 DEF IInv, Disarmed
  <2>2. net.mappings = Carries /\ r \in DOMAIN net.mappings /\ net.mappings[r] = 1
    BY <2>1 DEF OnlyWrite, Carries
  <2>3. CASE 1 \notin DOMAIN net.conns
    <3>1. net' = net
      BY <1>1, <2>2, <2>3 DEF ExtendTimeout
    <3> QED
      BY <2>1, <3>1
  <2>4. CASE 1 \in DOMAIN net.conns
    <3> DEFINE cs == [net.conns EXCEPT ![1] = @]
    <3>1. net' = [net EXCEPT !.conns = cs]
      BY <1>1, <2>2, <2>4 DEF ExtendTimeout, ConnExtendTimeout
    <3>2. net.conns \in [{1} -> Connection]
      BY <2>1, <2>4 DEF OnlyWrite
    <3>3. cs \in [{1} -> Connection] /\ \A c \in {1} : cs[c] = net.conns[c]
      BY <3>2
    <3> HIDE DEF cs
    <3>4. net' \in OnlyWrite /\ net'.conns = cs
      BY <2>1, <3>1, <3>3 DEF OnlyWrite
    <3> QED
      BY <3>2, <3>3, <3>4
  <2> QED
    BY <2>3, <2>4
<1> QED
  BY <1>1, <1>2, QuietStep

\* A connection's active time ends; its timers stay.
LEMMA ExpireStep == IInv /\ Expire => IInv'
<1> SUFFICES ASSUME IInv, Expire PROVE IInv'
  OBVIOUS
<1>1. PICK c \in DOMAIN net.conns : net' = [net EXCEPT !.conns[c].active = FALSE]
  BY DEF Expire
<1>2. UNCHANGED <<req, faulty, state, replies, timeout_nodes, answer>>
  BY DEF Expire
<1>3. state # "Start"
  BY <1>1 DEF IInv, Disarmed, NetworkerNew, Empty
<1>4. ASSUME state = "Consensus"
      PROVE  /\ net' \in OnlyWrite
             /\ \A d \in DOMAIN net'.conns :
                   d \in DOMAIN net.conns /\ net'.conns[d].timeouts = net.conns[d].timeouts
  <2>1. net \in OnlyWrite
    BY <1>4 DEF IInv, Disarmed
  <2> DEFINE pc == [net.conns[1] EXCEPT !.active = FALSE]
             cs == [net.conns EXCEPT ![1] = pc]
  <2>2. c = 1 /\ net.conns \in [{1} -> Connection]
    BY <1>1, <2>1 DEF OnlyWrite
  <2>3. net.conns[1] \in Connection
    BY <2>2
  <2>4. pc \in Connection /\ pc.timeouts = net.conns[1].timeouts
    BY <2>3 DEF Connection
  <2>5. net' = [net EXCEPT !.conns = cs]
    BY <1>1, <2>2
  <2> HIDE DEF pc
  <2>6. cs \in [{1} -> Connection] /\ cs[1] = pc
    BY <2>2, <2>4
  <2> HIDE DEF cs
  <2>7. net' \in OnlyWrite /\ net'.conns = cs
    BY <2>1, <2>5, <2>6 DEF OnlyWrite
  <2> QED
    BY <2>2, <2>4, <2>6, <2>7
<1> QED
  BY <1>2, <1>3, <1>4, QuietStep

\* Every step preserves the invariant.
LEMMA NextIInv == IInv /\ [Next]_vars => IInv'
<1> SUFFICES ASSUME IInv, [Next]_vars PROVE IInv'
  OBVIOUS
<1>1. CASE Start
  BY <1>1, StartStep
<1>2. ASSUME NEW n \in Node, NEW rep \in Honest \cup Forged, NodeReply(n, rep) PROVE IInv'
  <2>1. /\ rep \in CanSend(n) /\ UNCHANGED <<req, faulty>>
        /\ ConsensusReply(n, rep) \/ SingleReply(n, rep) \/ FullResult(n, rep.result)
    BY <1>2 DEF NodeReply
  <2> QED
    BY <2>1, ConsensusReplyStep, SingleReplyStep, FullResultStep
<1>3. ASSUME NEW n \in Node, ReqACK(n) PROVE IInv'
  BY <1>3, ReqACKStep
<1>4. ASSUME NEW n \in Node, Timeout(n) PROVE IInv'
  <2>1. /\ UNCHANGED <<req, faulty>>
        /\ ConsensusTimeout(n) \/ SingleTimeout(n) \/ FullResult(n, "timeout")
    BY <1>4 DEF Timeout
  <2> QED
    BY <2>1, ConsensusTimeoutStep, SingleTimeoutStep, FullResultStep
<1>5. CASE Terminate
  BY <1>5, TerminateStep
<1>6. CASE Expire
  BY <1>6, ExpireStep
<1>7. CASE UNCHANGED vars
  <2>1. UNCHANGED <<req, faulty, state, replies, timeout_nodes, answer, net>>
    BY <1>7 DEF vars
  <2>2. Left' = Left
    BY <2>1 DEF Left
  <2> QED
    BY <2>1, <2>2 DEF IInv, Typed, Answers, OneEach, Honestly, Room, Undecided, Justified,
                      Disarmed, Hopeless, Fresh
<1> QED
  BY <1>1, <1>2, <1>3, <1>4, <1>5, <1>6, <1>7 DEF Next

\* IInv is an invariant of the request handler.
LEMMA Inductive == Spec => []IInv
<1>1. Init => IInv
  BY InitIInv
<1>2. IInv /\ [Next]_vars => IInv'
  BY NextIInv
<1> QED
  BY <1>1, <1>2, PTL DEF Spec

----------------------------------------------------------------------------
(* Theorems *)

\* Whatever the nodes do and however the events interleave, the caller's
\* command handle is answered once, when RequestSM reaches Finish.
THEOREM AnsweredExactlyOnce == Spec => []AnsweredOnce
<1>1. IInv => AnsweredOnce
  BY DEF IInv, Answers, AnsweredOnce
<1> QED
  BY <1>1, Inductive, PTL

\* The result that a write or a read is answered with is one of the ledger:
\* more than f equal results have an honest node among their senders, and a
\* proof that verifies is of the ledger.
THEOREM OnlyCommittedAnswers == Spec => []AnswerCommitted
<1>1. IInv => AnswerCommitted
  <2> SUFFICES ASSUME IInv, NEW i \in 1..Len(answer), answer[i].ok, req.kind # "Full"
               PROVE  answer[i].what.result \in DOMAIN Ledger
    BY DEF AnswerCommitted
  <2>1. state = "Finish" /\ i = 1
    BY DEF IInv, Answers
  <2> QED
    BY <2>1 DEF IInv, Justified
<1> QED
  BY <1>1, Inductive, PTL

\* A read answered by fewer than f + 1 nodes is as recent as the caller asked
\* (_check_freshness).
THEOREM AloneMeansFresh == Spec => []AloneOnlyIfFresh
<1>1. IInv => AloneOnlyIfFresh
  <2> SUFFICES ASSUME IInv, NEW i \in 1..Len(answer), answer[i].ok, req.kind = "Single",
                      Count(replies, answer[i].what.result) <= F
               PROVE  Fresh(answer[i].what)
    BY DEF AloneOnlyIfFresh, Fresh
  <2>1. state = "Finish" /\ i = 1
    BY DEF IInv, Answers
  <2> QED
    BY <2>1 DEF IInv, Justified
<1> QED
  BY <1>1, Inductive, PTL

\* The usize arithmetic of is_consensus_reachable never wraps, for any size of
\* the pool and any number of replies a node sends.
THEOREM CountingNeverUnderflows == Spec => []NoUnderflow
<1>1. IInv => NoUnderflow
  BY DEF IInv, Room, Left, NoUnderflow
<1> QED
  BY <1>1, Inductive, PTL

\* If each node answers once and the honest ones agree, no count is below
\* that of the honest replies.
LEMMA HonestAgree ==
    ASSUME NEW R, IsFiniteSet(R), NEW B \in SUBSET Node,
           \A p \in R : p.result \in Result,
           \A p, q \in R : /\ p.node = q.node => p = q
                           /\ {p.node, q.node} \cap B = {} => p.result = q.result
    PROVE  \E v \in Result : Cardinality(R) <= Count(R, v) + Cardinality(B)
<1> DEFINE H == {p \in R : p.node \notin B}
           D == {p \in R : p.node \in B}
           f == [p \in D |-> p.node]
<1>1. /\ IsFiniteSet(H) /\ IsFiniteSet(D) /\ IsFiniteSet(B)
      /\ Cardinality(H) \in Nat /\ Cardinality(D) \in Nat /\ Cardinality(B) \in Nat
  BY FS_Subset, FS_CardinalityType, PoolSize
<1>2. Cardinality(R) <= Cardinality(H) + Cardinality(D)
  <2>1. R = H \cup D
    OBVIOUS
  <2>2. Cardinality(H \cap D) \in Nat
    BY <1>1, FS_Intersection, FS_CardinalityType
  <2>3. Cardinality(H \cup D) = Cardinality(H) + Cardinality(D) - Cardinality(H \cap D)
    BY <1>1, FS_Union
  <2> HIDE DEF H, D
  <2> QED
    BY <1>1, <2>1, <2>2, <2>3
<1>3. Cardinality(D) <= Cardinality(B)
  <2>1. f \in Injection(D, B)
    BY DEF Injection, IsInjective
  <2> HIDE DEF D, f
  <2> QED
    BY <1>1, <2>1, FS_Injection
<1>4. \E v \in Result : Cardinality(H) <= Count(R, v)
  <2>1. CASE H = {}
    <3>1. PICK v \in Result : TRUE
      BY ReqAssumption DEF Result
    <3>2. Count(R, v) \in Nat /\ Cardinality(H) = 0
      BY <2>1, MaxCountIs, FS_EmptySet
    <3> HIDE DEF H
    <3> QED
      BY <3>2
  <2>2. CASE H # {}
    <3>1. PICK h \in H : TRUE
      BY <2>2
    <3> DEFINE S == {p \in R : p.result = h.result}
    <3>2. H \in SUBSET S /\ h.result \in Result
      BY <3>1
    <3>3. IsFiniteSet(S)
      BY FS_Subset
    <3> HIDE DEF H, S
    <3>4. Cardinality(H) <= Cardinality(S)
      BY <3>2, <3>3, FS_Subset
    <3> QED
      BY <3>2, <3>4 DEF Count, S
  <2> QED
    BY <2>1, <2>2
<1>5. PICK v \in Result : Cardinality(H) <= Count(R, v)
  BY <1>4
<1>6. Count(R, v) \in Nat /\ Cardinality(R) \in Nat
  BY MaxCountIs, FS_CardinalityType
<1> QED
  BY <1>1, <1>2, <1>3, <1>5, <1>6

\* A pool of N > 3f nodes answers in spite of f nodes that are silent or lie:
\* where each node replies once and the honest ones agree, a request is given
\* up only if more than f nodes are faulty or late.
THEOREM FaultsTolerated == Spec => []ToleratesF
<1>1. IInv => ToleratesF
  <2> SUFFICES ASSUME IInv,
                      \A p, q \in replies :
                          /\ p.node = q.node => p = q
                          /\ {p.node, q.node} \cap faulty = {} => p.result = q.result,
                      NEW i \in 1..Len(answer), ~answer[i].ok, answer[i].what = "PoolTimeout",
                      ~(Cardinality(faulty \cup timeout_nodes) > F)
               PROVE  FALSE
    BY DEF ToleratesF
  <2>1. state = "Finish" /\ i = 1
    BY DEF IInv, Answers
  <2>2. Hopeless
    BY <2>1 DEF IInv, Justified
  <2>3. /\ IsFiniteSet(replies) /\ faulty \in SUBSET Node /\ timeout_nodes \in SUBSET Node
        /\ \A p \in replies : p.result \in Result
    BY DEF IInv, Typed
  <2>4. PICK v \in Result : Cardinality(replies) <= Count(replies, v) + Cardinality(faulty)
    BY <2>3, HonestAgree
  <2> DEFINE B == faulty \cup timeout_nodes
  <2>5. IsFiniteSet(B) /\ Cardinality(B) \in Nat /\ Cardinality(faulty) \in Nat
        /\ Cardinality(timeout_nodes) \in Nat
    BY <2>3, PoolSize
  <2>6. Cardinality(faulty) <= Cardinality(B) /\ Cardinality(timeout_nodes) <= Cardinality(B)
    BY <2>5, FS_Subset
  <2>7. /\ Cardinality(replies) \in Nat /\ MaxCount(replies) \in Nat
        /\ Count(replies, v) \in Nat /\ Count(replies, v) <= MaxCount(replies)
    BY <2>3, MaxCountIs, FS_CardinalityType
  <2>8. Cardinality(B) <= F /\ F \in Nat /\ N \in Nat /\ 3 * F < N
    BY <2>5, PoolSize
  <2>9. CASE Left <= F
    BY <2>4, <2>5, <2>6, <2>7, <2>8, <2>9 DEF Left
  <2>10. CASE /\ Cardinality(timeout_nodes) + Cardinality(replies) >= N
              /\ Count(replies, v) <= F
    BY <2>4, <2>5, <2>6, <2>7, <2>8, <2>10
  <2> QED
    BY <2>2, <2>9, <2>10 DEF Hopeless
<1> QED
  BY <1>1, Inductive, PTL

\* A node whose reply to a write is counted has no timer left, so it is not
\* counted as timed out as well.
THEOREM RepliesDisarm == Spec => RepliedInTime
<1>1. ASSUME IInv, [Next]_vars, NEW p \in replies, req.kind = "Consensus",
             p.node \notin timeout_nodes, p.node \in timeout_nodes'
      PROVE  FALSE
  <2>1. PICK n \in Node : Timeout(n) /\ ConsensusTimeout(n)
    BY <1>1 DEF Next, vars, Start, NodeReply, ConsensusReply, SingleReply, FullResult, ReqACK,
                Timeout, SingleTimeout, Terminate, Expire, IInv, Typed
  <2>2. n = p.node /\ state = "Consensus" /\ <<r, n>> \in GetTimeout(net)
    BY <1>1, <2>1 DEF Timeout, ConsensusTimeout
  <2>3. r # ""
    BY NetworkerAssumption, ReqAssumption DEF r
  <2>4. PICK c \in DOMAIN net.conns : <<r, n>> \in net.conns[c].timeouts
    <3>1. <<r, n>> # <<"", "">>
      BY <2>3
    <3>2. PICK t : t = <<r, n>>
      OBVIOUS
    <3>3. t # <<"", "">> /\ t \in GetTimeout(net)
      BY <2>2, <3>1, <3>2, Zenon
    <3>4. PICK none : none = <<"", "">>
      OBVIOUS
    <3>5. \E c \in DOMAIN net.conns : t \in net.conns[c].timeouts
      <4>1. GetTimeout(net) =
               (UNION {net.conns[c].timeouts : c \in DOMAIN net.conns})
                 \cup {none : c \in {d \in DOMAIN net.conns : ~HasActiveRequests(net.conns[d])}}
        BY <3>4, Zenon DEF GetTimeout
      <4>2. t # none /\ t \in GetTimeout(net)
        BY <3>3, <3>4
      <4> QED
        BY <4>1, <4>2, Zenon
    <3> QED
      BY <3>2, <3>5
  <2> QED
    BY <1>1, <2>2, <2>4 DEF IInv, Disarmed
<1>2. IInv /\ [Next]_vars =>
        [\A p \in replies :
            req.kind = "Consensus" /\ p.node \notin timeout_nodes
              => p.node \notin timeout_nodes']_vars
  BY <1>1
<1> QED
  BY <1>2, Inductive, PTL DEF Spec, RepliedInTime

=============================================================================
