----------------------------- MODULE PoolCatchup -----------------------------
(***************************************************************************)
(* How a libindy pool learns the pool ledger when it is opened or          *)
(* refreshed: the CatchupConsensus and CatchupSingle states of RequestSM   *)
(* (services/pool/request_handler.rs), the counting of the nodes' statuses *)
(* (catchup.rs), what PoolSM does with the outcome (pool.rs) and the cache *)
(* of the ledger on disk (merkle_tree_factory.rs), on top of PoolNetworker.*)
(*                                                                         *)
(* The ledger is a chain.  A merkle tree is its root, a number: k for the  *)
(* first k transactions of the ledger, Wrong + k for k transactions that   *)
(* are not a prefix of it.  The id of a status request is the root of the  *)
(* local tree, the id of the request for transactions is CatchupId.        *)
(***************************************************************************)
EXTENDS PoolNetworker, FiniteSets

CONSTANTS
    Starts,      \* what each node may have, who may be faulty, what may be cached
                 \* on disk and whether a connection may be left idle, at first
    MaxRefused,  \* bound: refused replies with transactions in one catch-up
    MaxOpens     \* bound: catch-ups

Wrong == 10
CatchupId == 0
Genesis == 1
NoCache == 0
Torn == -1     \* a cache whose last record is incomplete

Size(root) == IF root > Wrong THEN root - Wrong ELSE root
Good(root) == root \in 1..(Wrong - 1)

ASSUME CatchupAssumption ==
    /\ \A s \in Starts :
          /\ s.length \in [Node -> 1..(Wrong - 1)]
          /\ s.faulty \subseteq Node /\ 3 * Cardinality(s.faulty) < Cardinality(Node)
          /\ s.cache \in {NoCache, Torn} \cup {c \in 2..(2 * Wrong) : c # Wrong}
          /\ s.idle \in {"none", "active"}
    /\ MaxRefused \in Nat /\ MaxOpens \in Nat

VARIABLES
    net,        \* the networker
    length,     \* how much of the ledger each node has
    faulty,     \* the faulty nodes
    phase,      \* "closed", "consensus", "single" or "done"
    result,     \* how the last catch-up ended
    tree,       \* the local merkle tree
    cache,      \* the tree in the cache on disk
    statuses,   \* the trees whose status was sent in this catch-up
    replies,    \* <<vote, node>>: the nodes' votes that are counted
    timeouts,   \* the nodes counted as timed out
    target,     \* the root to reach, in phase "single" (Genesis otherwise)
    idle,       \* the idle connection: "none", "active" or "expired"
    refused,    \* how many replies with transactions were refused
    opens       \* how many catch-ups were started

vars == <<net, length, faulty, phase, result, tree, cache, statuses, replies, timeouts,
          target, idle, refused, opens>>

N == Cardinality(Node)
F == IF N < 4 THEN 0 ELSE (N - 1) \div 3
Order == CHOOSE o \in Orders(Node) : TRUE

Init ==
    /\ net = NetworkerNew(Node)
    /\ \E s \in Starts : length = s.length /\ faulty = s.faulty /\ cache = s.cache /\ idle = s.idle
    /\ phase = "closed" /\ result = "none" /\ tree = Genesis
    /\ statuses = {} /\ replies = {} /\ timeouts = {} /\ target = Genesis
    /\ refused = 0 /\ opens = 0

world == <<length, faulty, opens>>

----------------------------------------------------------------------------
(* Starting *)

\* merkle_tree_factory::create, where it does not fail.
TreeFrom(c) == IF c = NoCache THEN Genesis ELSE c

\* A new handler sends the status of the tree to all nodes.
SendStatus(w, root) ==
    Send(w, [op |-> "SendAll", req |-> root, nodes |-> Node], Order)

\* Opening, or opening again.  A cache that cannot be read is an error at
\* once: drop_cache is reserved for one whose nodes cannot be used.
Open ==
    /\ phase \in {"closed", "done"} /\ opens < MaxOpens
    /\ opens' = opens + 1
    /\ IF cache = Torn
       THEN /\ phase' = "done" /\ result' = "error"
            /\ UNCHANGED <<net, tree, statuses>>
       ELSE /\ phase' = "consensus" /\ result' = "none"
            /\ tree' = TreeFrom(cache)
            /\ net' = SendStatus(NetworkerNew(Node), TreeFrom(cache))
            /\ statuses' = {TreeFrom(cache)}
    /\ replies' = {} /\ timeouts' = {}
    /\ refused' = 0
    /\ UNCHANGED <<length, faulty, cache, target, idle>>

----------------------------------------------------------------------------
(* CatchupConsensus; its votes go with the handler, whichever way it ends *)

Voters(R, v) == {n \in Node : <<v, n>> \in R}
Votes(R) == {p[1] : p \in R}
MaxCount(R) == Max({Cardinality(Voters(R, v)) : v \in Votes(R)} \cup {0})

\* check_cons_proofs: a proof is for one tree, and nobody can make one for
\* a root that does not extend it.
CheckConsProofs(v, root) == Good(root) /\ Good(v.root) /\ v.from = Size(root)

\* _try_to_catch_up: what the vote of f + 1 nodes means for a local tree.
TryToCatchUp(v, root) ==
    CASE Size(v.root) = Size(root) -> IF v.root = root THEN "NotNeeded" ELSE "Err"
      [] Size(v.root) > Size(root) ->
            IF v.from = 0 \/ CheckConsProofs(v, root) THEN "ShouldBeStarted" ELSE "Err"
      [] OTHER -> "Err"

\* Mutant of Enough: f nodes are enough.
EnoughAtF(R) == {v \in Votes(R) : Cardinality(Voters(R, v)) >= F}

\* The vote that has just reached f + 1 nodes.
Enough(R) == {v \in Votes(R) : Cardinality(Voters(R, v)) = F + 1}

\* Mutant of Unreachable: the nodes that timed out can still vote.
UnreachableTimedOut(R, T) ==
    IF R # {} THEN MaxCount(R) + (N - Cardinality(R)) < N - F ELSE Cardinality(T) = N - F

\* The catch-up is given up: the votes left cannot make N - f equal ones, or
\* N - f nodes timed out and none voted.
Unreachable(R, T) ==
    IF R # {} THEN MaxCount(R) + (N - (Cardinality(R) + Cardinality(T))) < N - F
              ELSE Cardinality(T) = N - F

\* PoolSM: CatchupTargetNotFound, Synced and CatchupTargetFound.  The handler
\* disarms the timers of the request the last event names, all of them.
EndsAs(res, root, q) ==
    /\ phase' = "done" /\ result' = res /\ tree' = root
    /\ net' = CleanTimeout(net, q, None)
    /\ replies' = {} /\ timeouts' = {}
    /\ UNCHANGED <<statuses, target>>
StartsSingle(v, root, q) ==
    /\ phase' = "single" /\ target' = v.root /\ tree' = root
    /\ \E w1 \in {CleanTimeout(net, q, None)} :
          net' = Send(w1, [op |-> "SendOne", req |-> CatchupId], Order)
    /\ replies' = {} /\ timeouts' = {}
    /\ UNCHANGED <<statuses, result>>
Progress(v, root, q) ==
    \/ TryToCatchUp(v, root) = "NotNeeded" /\ EndsAs("synced", root, q)
    \/ TryToCatchUp(v, root) = "ShouldBeStarted" /\ StartsSingle(v, root, q)

\* CatchupRestart: again from the genesis file, with a new handler.
Restarts(q) ==
    /\ cache' = NoCache /\ tree' = Genesis
    /\ \E w1 \in {CleanTimeout(net, q, None)} : net' = SendStatus(w1, Genesis)
    /\ statuses' = statuses \cup {Genesis}
    /\ replies' = {} /\ timeouts' = {}
    /\ UNCHANGED <<phase, result, target>>

\* check_nodes_responses_on_status, after the event of node n for request q
\* made the votes R and the timeouts T.
Count(R, T, n, q) ==
    \/ /\ Enough(R) # {}
       /\ LET v == CHOOSE v \in Enough(R) : TRUE
          IN  \/ Progress(v, tree, q) /\ UNCHANGED cache
              \/ /\ TryToCatchUp(v, tree) = "Err" /\ cache # NoCache
                 /\ cache' = NoCache
                 /\ \/ Progress(v, Genesis, q)
                    \/ TryToCatchUp(v, Genesis) = "Err" /\ EndsAs("notfound", tree, q)
              \/ /\ TryToCatchUp(v, tree) = "Err" /\ cache = NoCache
                 /\ EndsAs("notfound", tree, q) /\ UNCHANGED cache
    \/ /\ Enough(R) = {} /\ Unreachable(R, T)
       /\ \/ cache # NoCache /\ Restarts(q)
          \/ cache = NoCache /\ EndsAs("notfound", tree, q) /\ UNCHANGED cache
    \/ /\ Enough(R) = {} /\ ~Unreachable(R, T)
       /\ net' = CleanTimeout(net, q, n)
       /\ replies' = R /\ timeouts' = T
       /\ UNCHANGED <<phase, result, tree, cache, statuses, target>>

\* What a node sends about the status of tree t: a LedgerStatus with its own
\* root, or a ConsistencyProof from the size of t on if it has more.  The
\* handler takes the id of the request from the message: the root of a
\* LedgerStatus, the old root of a ConsistencyProof.  A faulty node makes up
\* a root, repeats that of the status, or proves its own, from an old root
\* of its choice.
HonestSays(k, t) ==
    IF k > Size(t) THEN [root |-> k, from |-> Size(t), req |-> Size(t)]
                   ELSE [root |-> k, from |-> 0, req |-> k]
FalseSays(k, t) ==
    {[root |-> x, from |-> 0, req |-> x] : x \in {Wrong + k, t}}
      \cup {[root |-> x, from |-> Size(t), req |-> o] : x \in {Wrong + k, k}, o \in {Wrong + k, t}}
Says(n) ==
    {HonestSays(length[n], t) : t \in statuses}
      \cup (IF n \in faulty THEN UNION {FalseSays(length[n], t) : t \in statuses} ELSE {})

\* A vote that comes; one that is counted already changes nothing.
StatusReply(n) ==
    /\ phase = "consensus" /\ n \in Reachable(net)
    /\ \E m \in Says(n) :
          LET vote == <<[root |-> m.root, from |-> m.from], n>>
          IN  vote \notin replies /\ Count(replies \cup {vote}, timeouts, n, m.req)
    /\ UNCHANGED <<world, idle, refused>>

\* A timer fires, unless the active time of an idle connection ended before:
\* get_timeout returns the earliest end.
StatusTimeout(n) ==
    /\ phase = "consensus" /\ idle # "expired"
    /\ \E q \in ReqId :
          /\ n \in Timers(net, q)
          /\ Count(replies, timeouts \cup {n}, n, q)
    /\ UNCHANGED <<world, idle, refused>>

----------------------------------------------------------------------------
(* CatchupSingle *)

Resend(w) == Send(w, [op |-> "Resend", req |-> CatchupId], Order)

\* The trees _process_catchup_reply accepts from a node: the target, or, if
\* the node leaves transactions out, a shorter tree that is consistent with it.
Accepted(n) ==
    IF n \in faulty THEN {k \in Size(tree)..Size(target) : Good(target)}
    ELSE {k \in {target} : length[n] >= target}

\* Mutant of CatchupRep: the timers of the nodes asked stay armed.
CatchupRepLeaves(n) ==
    /\ phase = "single" /\ n \in Reachable(net)
    /\ \E k \in Accepted(n) :
          /\ tree' = k /\ cache' = k
          /\ phase' = "done" /\ result' = "synced"
    /\ target' = Genesis
    /\ UNCHANGED <<net, world, statuses, replies, timeouts, idle, refused>>

\* The new transactions are appended to the cache (dump_new_txns).
CatchupRep(n) ==
    /\ phase = "single" /\ n \in Reachable(net)
    /\ \E k \in Accepted(n) :
          /\ tree' = k /\ cache' = k
          /\ phase' = "done" /\ result' = "synced"
    /\ net' = CleanTimeout(net, CatchupId, None)
    /\ target' = Genesis
    /\ UNCHANGED <<world, statuses, replies, timeouts, idle, refused>>

\* The process is killed in dump_new_txns, which writes the length and then
\* the bytes of one transaction after the other: the cache ends in an
\* incomplete record, or after a complete one (a length cut short is read as
\* the end of the file).
CrashInDump(n) ==
    /\ phase = "single" /\ n \in Reachable(net)
    /\ \E k \in Accepted(n) : cache' \in {Torn} \cup Size(tree)..k
    /\ phase' = "closed"
    /\ net' = NetworkerNew(Node) /\ tree' = Genesis /\ statuses' = {} /\ target' = Genesis
    /\ refused' = 0
    /\ UNCHANGED <<world, result, replies, timeouts, idle>>

\* The next node is asked; then the timer of the one that failed is disarmed.
Again(q, n) == \E w1 \in {Resend(net)} : net' = CleanTimeout(w1, q, n)

RefusedRep(n) ==
    /\ phase = "single" /\ n \in Reachable(net) \cap faulty
    /\ refused < MaxRefused /\ refused' = refused + 1
    /\ Again(CatchupId, n)
    /\ UNCHANGED <<world, phase, result, tree, cache, statuses, replies, timeouts, target, idle>>

SingleTimeout(n) ==
    /\ phase = "single" /\ idle # "expired"
    /\ \E q \in ReqId : n \in Timers(net, q) /\ Again(q, n)
    /\ UNCHANGED <<world, phase, result, tree, cache, statuses, replies, timeouts, target, idle, refused>>

----------------------------------------------------------------------------
(* The idle connection *)

IdleExpires ==
    /\ phase \in {"consensus", "single"} /\ idle = "active"
    /\ idle' = "expired"
    /\ UNCHANGED <<net, world, phase, result, tree, cache, statuses, replies, timeouts, target, refused>>

\* Its Timeout("", "") reaches the catch-up's handler, which counts a node
\* without a name or asks the next one, and nobody tells the networker.
IdleTimeoutEvent ==
    /\ idle = "expired"
    /\ \/ phase = "consensus" /\ Count(replies, timeouts \cup {None}, None, None)
       \/ /\ phase = "single" /\ net' = Resend(net)
          /\ UNCHANGED <<phase, result, tree, cache, statuses, replies, timeouts, target>>
    /\ UNCHANGED <<world, idle, refused>>

Next ==
    \/ Open
    \/ \E n \in Node :
          \/ StatusReply(n) \/ StatusTimeout(n)
          \/ CatchupRep(n) \/ RefusedRep(n) \/ SingleTimeout(n) \/ CrashInDump(n)
    \/ IdleExpires \/ IdleTimeoutEvent

\* The thread polls: the earliest timer, or the end of the idle connection's
\* time, comes to an end and is handled unless something else comes.
PollEnds == (\E n \in Node : StatusTimeout(n) \/ SingleTimeout(n)) \/ IdleTimeoutEvent
Spec == Init /\ [][Next]_vars /\ WF_vars(PollEnds)

----------------------------------------------------------------------------
(* Properties *)

\* Less than a third of the nodes lie: what the pool synchronises with is a
\* prefix of the ledger and no longer than what some honest node has, whatever
\* the cache held (f + 1 equal votes, consistency proofs).
SyncedWithLedger ==
    result = "synced" =>
        /\ Good(tree)
        /\ tree \in 1..Max({length[n] : n \in Node \ faulty})

\* "node_cnt - reps_cnt" is computed on unsigned numbers: there is always
\* room for the next vote, although a node may be counted with a vote and as
\* timed out, or with several votes.
CatchupNoUnderflow ==
    phase = "consensus" => Cardinality(replies) + Cardinality(timeouts) < N

\* A timer that a catch-up leaves behind is disarmed by nobody, and may stay
\* the earliest one (PoolLifecycle).  The request for transactions leaves none,
\* whoever lies, whatever the cache held and whichever nodes were asked; from
\* the genesis file, with honest nodes and without an idle connection, the
\* status requests leave none either.
NoTimerLeft ==
    phase = "done" =>
        /\ Timers(net, CatchupId) = {}
        /\ faulty = {} /\ statuses = {Genesis} /\ idle = "none"
              => \A q \in ReqId : Timers(net, q) = {}

\* Silent nodes do not keep a pool from finding out: the status phase ends,
\* unless an idle connection is left that hides the timers.
StatusPhaseEnds == phase = "consensus" /\ idle = "none" ~> phase # "consensus"

=============================================================================
