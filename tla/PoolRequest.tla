----------------------------- MODULE PoolRequest -----------------------------
(***************************************************************************)
(* One request to the validator pool: libindy's RequestSM                  *)
(* (services/pool/request_handler.rs) for the three kinds of requests a    *)
(* caller submits, on top of the networker.                                *)
(*                                                                         *)
(*   Consensus  a write: all nodes are asked, f + 1 equal results answer it*)
(*   Single     a read: nodes are asked a few at a time, f + 1 equal       *)
(*              results or one result with a valid, fresh state proof      *)
(*   Full       an action: each node's own reply is collected              *)
(*                                                                         *)
(* Less than a third of the nodes are faulty and reply with what they      *)
(* like; the others reply with what the ledger holds, old or new.  Any     *)
(* node may stay silent and any reply may come late.  A reply is its       *)
(* result without the proof, the time its proof was signed and whether the *)
(* proof verifies.  Replies that are no JSON never reach the handler       *)
(* (_parse_msg drops them), so its denied_nodes stay empty and are left    *)
(* out.                                                                    *)
(***************************************************************************)
EXTENDS PoolNetworker, FiniteSets

CONSTANTS
    Req,          \* the requests that may be submitted, see ReqAssumption
    Ledger,       \* the results honest nodes may give: result :> signing time
    Lies,         \* the results only faulty nodes give
    ReadNodes,    \* the number_read_nodes option
    Now,          \* the wall clock while the request runs
    Threshold,    \* the freshness threshold
    MaxReplies(_) \* bound: replies one node sends to a request of a kind

r == CHOOSE q \in ReqId : TRUE
Result == DOMAIN Ledger \cup Lies

ASSUME ReqAssumption ==
    /\ "" \notin ReqId
    /\ DOMAIN Ledger # {} /\ Ledger \in [DOMAIN Ledger -> Nat]
    /\ ReadNodes \in 1..255
    /\ Now \in Nat /\ Threshold \in Nat
    /\ \A q \in Req : /\ q.kind \in {"Consensus", "Single", "Full"}
                      /\ q.timestamps \in (Nat \cup {None}) \X (Nat \cup {None})
                      /\ MaxReplies(q.kind) \in Nat

VARIABLES
    net,            \* the networker
    req,            \* the request: its kind, the times it asks for, its node list
    faulty,         \* the faulty nodes
    state,          \* the state of the RequestSM
    replies,        \* the replies counted, of Consensus and Single
    timeout_nodes,  \* the nodes counted as timed out
    accum_reply,    \* the replies collected, of Full
    sent,           \* how many replies each node has sent
    answer          \* the SubmitAcks sent to the caller

vars == <<net, req, faulty, state, replies, timeout_nodes, accum_reply, sent, answer>>

N == Cardinality(Node)

\* _get_f: how many faulty nodes a pool of cnt nodes tolerates.
GetF(cnt) == IF cnt < 4 THEN 0 ELSE (cnt - 1) \div 3
F == GetF(N)

----------------------------------------------------------------------------
(* State proofs *)

\* Mutant of CheckFreshness: the time the caller asked for is ignored when
\* only the right end of the interval is given.
CheckFreshnessAny(ts, left, right) ==
    LET from == ts[1]  to == ts[2]
    IN  /\ from # None => from <= Threshold + left
        /\ to # None \/ Now <= Threshold + right

\* _check_freshness: the proof was signed late enough for the time asked for,
\* or for the present; left is the signing time of the older end of a delta.
CheckFreshness(ts, left, right) ==
    LET from == ts[1]  to == ts[2]
    IN  /\ from # None => from <= Threshold + left
        /\ (IF to # None THEN to ELSE Now) <= Threshold + right

CheckStateProof(rep) == rep.proof /\ CheckFreshness(req.timestamps, rep.left, rep.time)

\* What an honest node can send, and what a faulty one can: it may repeat an
\* old result with its proof, and a lie carries none that verifies.
Honest == {[result |-> v, time |-> Ledger[v], left |-> Ledger[v], proof |-> p] :
              v \in DOMAIN Ledger, p \in BOOLEAN}
Forged == {[result |-> v, time |-> Now, left |-> Now, proof |-> FALSE] : v \in Lies}
CanSend(n) == IF n \in faulty THEN Honest \cup Forged ELSE Honest

----------------------------------------------------------------------------
Init ==
    /\ net = NetworkerNew(Node)
    /\ req \in Req
    /\ faulty \in {S \in SUBSET Node : 3 * Cardinality(S) < N}
    /\ state = "Start"
    /\ replies = {} /\ timeout_nodes = {} /\ accum_reply = Empty
    /\ sent = [n \in Node |-> 0]
    /\ answer = <<>>

Ack(ok, what) == answer' = Append(answer, [ok |-> ok, what |-> what])

\* Events of the networker; the order of a new connection is the first one
\* the options allow (the faulty nodes are any, so no other is needed).
Order == CHOOSE o \in Orders(Node) : TRUE
NetSendOne(w)    == Send(w, [op |-> "SendOne", req |-> r], Order)
NetSendAll(w, S) == Send(w, [op |-> "SendAll", req |-> r, nodes |-> S], Order)
NetResend(w)     == Send(w, [op |-> "Resend", req |-> r], Order)
NetClean(w, n)   == CleanTimeout(w, r, n)

----------------------------------------------------------------------------
(* Start *)

StartConsensus ==
    /\ req.kind = "Consensus"
    /\ net' = NetSendAll(net, Node)
    /\ state' = "Consensus"
    /\ UNCHANGED answer

\* One node is asked and number_read_nodes - 1 more.
StartSingle ==
    /\ req.kind = "Single"
    /\ net' = FoldLeft(LAMBDA w, i : NetResend(w), NetSendOne(net), [i \in 1..(ReadNodes - 1) |-> i])
    /\ state' = "Single"
    /\ UNCHANGED answer

\* The nodes named by the caller, or all of them.  An empty list and one that
\* names an unknown node are refused.
StartFull ==
    /\ req.kind = "Full"
    /\ \/ /\ req.nodes = None
          /\ net' = NetSendAll(net, Node)
          /\ state' = "Full"
          /\ UNCHANGED answer
       \/ /\ req.nodes # None
          /\ req.nodes # <<>> /\ ToSet(req.nodes) \subseteq Node
          /\ net' = NetSendAll(net, ToSet(req.nodes))
          /\ state' = "Full"
          /\ UNCHANGED answer
       \/ /\ req.nodes # None
          /\ req.nodes = <<>> \/ ~(ToSet(req.nodes) \subseteq Node)
          /\ Ack(FALSE, "InvalidStructure")
          /\ state' = "Finish"
          /\ UNCHANGED net

Start ==
    /\ state = "Start"
    /\ StartConsensus \/ StartSingle \/ StartFull
    /\ UNCHANGED <<req, faulty, replies, timeout_nodes, accum_reply, sent>>

----------------------------------------------------------------------------
(* Consensus *)

Count(R, v) == Cardinality({p \in R : p.result = v})
MaxCount(R) == Max({Count(R, v) : v \in Result})

\* Mutant of ConsensusReachable: nodes that timed out are still waited for.
ConsensusReachableTimedOut(R, T) == MaxCount(R) + N - Cardinality(R) > F

\* ConsensusState::is_consensus_reachable, in usize: see NoUnderflow.
ConsensusReachable(R, T) == MaxCount(R) + N - Cardinality(R) - Cardinality(T) > F

Impossible(w) ==
    /\ Ack(FALSE, "PoolTimeout")
    /\ net' = NetClean(w, None)
    /\ state' = "Finish"

\* Mutant of ReplyEnough: f equal results answer the request.
ReplyEnoughAtF(R, v) == Count(R, v) >= F

ReplyEnough(R, v) == Count(R, v) > F

ConsensusReply(n, rep) ==
    /\ state = "Consensus"
    /\ replies' = replies \cup {[result |-> rep.result, node |-> n]}
    /\ \/ /\ ReplyEnough(replies', rep.result)
          /\ Ack(TRUE, [result |-> rep.result, time |-> rep.time, left |-> rep.left])
          /\ net' = NetClean(net, None)
          /\ state' = "Finish"
       \/ /\ ~ReplyEnough(replies', rep.result)
          /\ ConsensusReachable(replies', timeout_nodes)
          /\ net' = NetClean(net, n)
          /\ UNCHANGED <<state, answer>>
       \/ /\ ~ReplyEnough(replies', rep.result)
          /\ ~ConsensusReachable(replies', timeout_nodes)
          /\ Impossible(net)
    /\ UNCHANGED <<timeout_nodes, accum_reply>>

\* Mutant of ConsensusTimeout: the answer is sent and the state is kept.
ConsensusTimeoutStays(n) ==
    /\ state = "Consensus"
    /\ timeout_nodes' = timeout_nodes \cup {n}
    /\ \/ /\ ConsensusReachable(replies, timeout_nodes')
          /\ net' = NetClean(net, n)
          /\ UNCHANGED <<state, answer>>
       \/ /\ ~ConsensusReachable(replies, timeout_nodes')
          /\ Ack(FALSE, "PoolTimeout")
          /\ net' = NetClean(net, n)
          /\ UNCHANGED state
    /\ UNCHANGED <<replies, accum_reply>>

ConsensusTimeout(n) ==
    /\ state = "Consensus"
    /\ timeout_nodes' = timeout_nodes \cup {n}
    /\ \/ /\ ConsensusReachable(replies, timeout_nodes')
          /\ net' = NetClean(net, n)
          /\ UNCHANGED <<state, answer>>
       \/ /\ ~ConsensusReachable(replies, timeout_nodes')
          /\ Impossible(net)
    /\ UNCHANGED <<replies, accum_reply>>

----------------------------------------------------------------------------
(* Single *)

\* Mutant of SingleReachable: off by one, the last node is never waited for.
SingleReachableShort(R, T) == Cardinality(T) + Cardinality(R) < N - 1

SingleReachable(R, T) == Cardinality(T) + Cardinality(R) < N

\* Mutant of TryToContinue: no further node is asked.
TryToContinueWaits(n) ==
    \/ /\ SingleReachable(replies', timeout_nodes')
       /\ net' = NetClean(net, n)
       /\ UNCHANGED <<state, answer>>
    \/ /\ ~SingleReachable(replies', timeout_nodes')
       /\ Impossible(net)

\* SingleState::try_to_continue: two more nodes are asked, or the caller is
\* told that there is nothing left to wait for.
TryToContinue(n) ==
    \/ /\ SingleReachable(replies', timeout_nodes')
       /\ \E w1 \in {NetResend(net)} : \E w2 \in {NetResend(w1)} : net' = NetClean(w2, n)
       /\ UNCHANGED <<state, answer>>
    \/ /\ ~SingleReachable(replies', timeout_nodes')
       /\ Impossible(net)

\* A response equal to one held (same result, same node) does not replace it.
InsertResponse(R, n, rep) ==
    IF \E p \in R : p.result = rep.result /\ p.node = n
    THEN R
    ELSE R \cup {[result |-> rep.result, node |-> n, time |-> rep.time, left |-> rep.left]}

\* The responses with the latest signing time among the equal results.
Soonest(R, v) ==
    LET same == {p \in R : p.result = v}
    IN  {q \in same : \A o \in same : o.time <= q.time}

SingleReply(n, rep) ==
    /\ state = "Single"
    /\ timeout_nodes' = timeout_nodes \ {n}
    /\ replies' = InsertResponse(replies, n, rep)
    /\ \/ /\ ReplyEnough(replies', rep.result) \/ CheckStateProof(rep)
          /\ \E given \in IF ReplyEnough(replies', rep.result)
                          THEN Soonest(replies', rep.result) ELSE {rep} :
                Ack(TRUE, [result |-> given.result, time |-> given.time, left |-> given.left])
          /\ net' = NetClean(net, None)
          /\ state' = "Finish"
       \/ /\ ~ReplyEnough(replies', rep.result)
          /\ ~CheckStateProof(rep)
          /\ TryToContinue(n)
    /\ UNCHANGED accum_reply

SingleTimeout(n) ==
    /\ state = "Single"
    /\ timeout_nodes' = timeout_nodes \cup {n}
    /\ UNCHANGED replies
    /\ TryToContinue(n)
    /\ UNCHANGED accum_reply

----------------------------------------------------------------------------
(* Full *)

\* How many nodes a Full request waits for.
Required == IF req.nodes = None THEN N ELSE Len(req.nodes)

\* _full_request_handle_consensus_state, for a reply and for "timeout".
FullResult(n, what) ==
    /\ state = "Full"
    /\ accum_reply' = Put(accum_reply, {n}, what)
    /\ \/ /\ Cardinality(DOMAIN accum_reply') = Required
          /\ net' = NetClean(net, None)
          /\ Ack(TRUE, accum_reply')
          /\ state' = "Finish"
       \/ /\ Cardinality(DOMAIN accum_reply') # Required
          /\ net' = NetClean(net, n)
          /\ UNCHANGED <<state, answer>>
    /\ UNCHANGED <<replies, timeout_nodes>>

----------------------------------------------------------------------------
(* Events *)

\* A Reply, REQNACK or REJECT of a node that has been asked is read; once the
\* handler is finished it changes nothing, so it is not looked at.
NodeReply(n, rep) ==
    /\ n \in Reachable(net)
    /\ sent[n] < MaxReplies(req.kind)
    /\ rep \in CanSend(n)
    /\ sent' = [sent EXCEPT ![n] = @ + 1]
    /\ ConsensusReply(n, rep) \/ SingleReply(n, rep) \/ FullResult(n, rep.result)
    /\ UNCHANGED <<req, faulty>>

\* REQACK: the node has the request and gets the extended timeout.
ReqACK(n) ==
    /\ state \in {"Consensus", "Single"}
    /\ n \in Reachable(net)
    /\ net' = ExtendTimeout(net, r, n)
    /\ UNCHANGED <<req, faulty, state, replies, timeout_nodes, accum_reply, sent, answer>>

Timeout(n) ==
    /\ <<r, n>> \in GetTimeout(net)
    /\ ConsensusTimeout(n) \/ SingleTimeout(n) \/ FullResult(n, "timeout")
    /\ UNCHANGED <<req, faulty, sent>>

\* The pool is closed while the request is under way.
Terminate ==
    /\ state \in {"Consensus", "Single", "Full"}
    /\ Ack(FALSE, "PoolTerminated")
    /\ state' = "Finish"
    /\ UNCHANGED <<net, req, faulty, replies, timeout_nodes, accum_reply, sent>>

\* The active time of the connection passes.
Expire ==
    /\ \E c \in DOMAIN net.conns :
          net.conns[c].active /\ net' = [net EXCEPT !.conns[c].active = FALSE]
    /\ UNCHANGED <<req, faulty, state, replies, timeout_nodes, accum_reply, sent, answer>>

Next ==
    \/ Start
    \/ \E n \in Node : \E rep \in Honest \cup Forged : NodeReply(n, rep)
    \/ \E n \in Node : ReqACK(n) \/ Timeout(n)
    \/ Terminate
    \/ Expire

\* The pool thread handles the request, and polls with the timers' deadlines: a
\* timer that is armed fires.  A REQACK sets the deadline of its node's timer
\* anew; that it does not come again and again before each new deadline is part
\* of the assumption.
Spec == Init /\ [][Next]_vars /\ WF_vars(Start) /\ \A n \in Node : WF_vars(Timeout(n))

----------------------------------------------------------------------------
(* Properties *)

\* The caller's command handle is answered exactly once, when the state
\* machine finishes: cmd_ids are answered on nine different paths.
AnsweredOnce == Len(answer) = IF state = "Finish" THEN 1 ELSE 0

\* With at most f faulty nodes a result that is reported is one the ledger
\* holds, whatever those nodes send, how often and in which order.
AnswerCommitted ==
    \A i \in 1..Len(answer) :
        answer[i].ok /\ req.kind # "Full" => answer[i].what.result \in DOMAIN Ledger

\* A read that no f + 1 nodes agree on is at least as recent as the caller
\* asked for: old states, though signed by the pool, do not pass alone.
AloneOnlyIfFresh ==
    \A i \in 1..Len(answer) :
        /\ answer[i].ok /\ req.kind = "Single"
        /\ Count(replies, answer[i].what.result) <= F
        => LET from == req.timestamps[1]  to == req.timestamps[2]
           IN  /\ from # None => answer[i].what.left + Threshold >= from
               /\ to # None => answer[i].what.time + Threshold >= to
               /\ to = None => answer[i].what.time + Threshold >= Now

\* The subtractions of is_consensus_reachable stay in usize, although a node
\* may be counted as timed out and, once its late reply is in, as replied.
NoUnderflow ==
    req.kind = "Consensus" =>
        MaxCount(replies) + N - Cardinality(replies) - Cardinality(timeout_nodes) >= 0

\* Up to f nodes that are silent or lie do not make a request fail, as long as
\* the other nodes agree and answer in time.  (A faulty node that sends results
\* that differ is counted once for each.)
ToleratesF ==
    /\ \A p, q \in replies : /\ p.node = q.node => p = q
                             /\ {p.node, q.node} \cap faulty = {} => p.result = q.result
    => \A i \in 1..Len(answer) :
          ~answer[i].ok /\ answer[i].what = "PoolTimeout"
             => Cardinality(faulty \cup timeout_nodes) > F

\* A node that has replied is not counted as timed out afterwards, because its
\* timer is disarmed with the reply, except when it was asked again.
RepliedInTime ==
    [][\A p \in replies :
          req.kind = "Consensus" /\ p.node \notin timeout_nodes
            => p.node \notin timeout_nodes']_vars

\* The node list of an action names some node twice.
NamesTwice(q) == q.nodes # None /\ Cardinality(ToSet(q.nodes)) # Len(q.nodes)

\* The caller is answered, even if no node ever replies, as long as no node
\* puts its own timeout off without end by sending REQACKs (see Spec).  The
\* exception is an action whose list names a node twice: the answers are kept
\* by node and counted against the length of the list, so they are never
\* enough, and no timer is left.
Answered == ~NamesTwice(req) => <>(answer # <<>>)
=============================================================================
