---------------------------- MODULE PoolLifecycle ----------------------------
(***************************************************************************)
(* The life of libindy's pools: the command executor's thread with         *)
(* PoolCommandExecutor and PoolService (commands/pool.rs,                  *)
(* services/pool/mod.rs), and one thread per pool that runs PoolSM         *)
(* (services/pool/pool.rs).  The executor talks to a pool over its command *)
(* socket (inbox), a pool answers over the executor's queue (acks).        *)
(*                                                                         *)
(* What a call does at once, without waiting for a pool, is one step.  A   *)
(* call that an early return refuses changes nothing and is left out.  The *)
(* nodes are abstract here: a catch-up ends in any outcome the handler     *)
(* allows, a request is answered by the nodes or by its timer (PoolRequest *)
(* and PoolCatchup hold the detail).  A request has one timer, and what a  *)
(* catch-up leaves armed behind it is one timer too (StatusTimer); the     *)
(* timers of a pool are in the order of their deadlines, because           *)
(* get_timeout looks at the earliest one only.                             *)
(***************************************************************************)
EXTENDS Integers, SequencesExt

CONSTANTS
    Name,       \* the names of pool configurations
    Req,        \* the request ids
    Clients,    \* the clients: the API calls one makes, and how many
    MaxPools    \* bound: pool handles given out

ASSUME LifecycleAssumption ==
    /\ \A c \in Clients :
          /\ c.ops \subseteq {"delete", "close", "refresh", "submit", "resubmit", "version"}
          /\ c.calls \in Nat     \* bound: command handles given out
    /\ MaxPools \in Nat \ {0}
    /\ Req \cap {"connect", "refresh", "exit", "status"} = {}   \* ids are told from commands

VARIABLES
    client,     \* the client of this process
    created,    \* the names whose configuration directory is on disk
    cached,     \* ... and holds a cache of the pool ledger
    version,    \* the process-wide ProtocolVersion
    pools,      \* the pools by handle, in the order they were opened
    calls,      \* command handles given out (next_command_handle)
    callbacks,  \* the calls that wait for an answer: <<kind, id>>
    acks,       \* the executor's queue of answers
    joining     \* the close in progress: <<handle, id>>, or <<>>

vars == <<client, created, cached, version, pools, calls, callbacks, acks, joining>>
disk == <<client, created, cached>>
Ops == client.ops
MaxCalls == client.calls

\* The version the nodes' transactions of every pool are written in.
LedgerVersion == 2

Handles == 1..Len(pools)
Command(op, id) == [op |-> op, id |-> id]
Ack(kind, id, ok) == [kind |-> kind, id |-> id, ok |-> ok]
AckOf(p, ok) == Ack(IF p.refresh THEN "refresh" ELSE "open", p.cmd, ok)
NoHandlers == [r \in {} |-> r]
Idle == joining = <<>>
Without(f, r) == Restrict(f, DOMAIN f \ {r})

\* The timers without the one of request r; no request has two.
Disarm(timers, r) ==
    LET at == {i \in 1..Len(timers) : timers[i] = r}
    IN  IF at = {} THEN timers ELSE RemoveAt(timers, CHOOSE i \in at : TRUE)

\* What the end of a status phase may make of the timers.  It disarms those of
\* the request its last event names, which is not always the one that armed
\* them (PoolCatchup!NoTimerLeft says when it is): a timer may be left behind.
StatusTimer == "status"
AfterStatus(timers) == {timers, Append(Disarm(timers, StatusTimer), StatusTimer)}

PoolNew(n) ==
    [name |-> n, reg |-> "pending", st |-> "Initialization", cmd |-> 0, refresh |-> FALSE,
     inbox |-> <<>>, handlers |-> NoHandlers, timers |-> <<>>]

Init ==
    /\ client \in Clients
    /\ created = {} /\ cached = {}
    /\ version = LedgerVersion
    /\ pools = <<>> /\ calls = 0
    /\ callbacks = {} /\ acks = <<>> /\ joining = <<>>

----------------------------------------------------------------------------
(* The executor's thread: calls of the API *)

Create(n) ==
    /\ Idle /\ n \notin created
    /\ created' = created \cup {n}
    /\ UNCHANGED <<client, cached, version, pools, calls, callbacks, acks, joining>>

\* The open pools of a name: those still connecting are not among them.
OpenAs(n) == {h \in Handles : pools[h].name = n /\ pools[h].reg = "open"}

\* Only open_pools is searched: a pool that is still connecting loses its files.
Delete(n) ==
    /\ "delete" \in Ops /\ Idle /\ n \in created
    /\ OpenAs(n) = {}
    /\ created' = created \ {n}
    /\ cached' = cached \ {n}
    /\ UNCHANGED <<client, version, pools, calls, callbacks, acks, joining>>

\* PoolService::open starts the pool's thread, which learns by itself whether
\* the name was created; the handle of the pool is the id of the call.
Open(n) ==
    /\ Idle /\ Len(pools) < MaxPools
    /\ OpenAs(n) = {}
    /\ LET h == Len(pools) + 1
       IN  /\ pools' = Append(pools, [PoolNew(n) EXCEPT !.inbox = <<Command("connect", h)>>])
           /\ callbacks' = callbacks \cup {<<"open", h>>}
    /\ UNCHANGED <<disk, version, calls, acks, joining>>

\* send_action: a command for a pool that is open, and a callback for its id.
SendAction(h, kind, op) ==
    /\ Idle /\ calls < MaxCalls
    /\ pools[h].reg = "open"
    /\ calls' = calls + 1
    /\ pools' = [pools EXCEPT ![h].inbox = Append(@, Command(op, calls + 1))]
    /\ callbacks' = callbacks \cup {<<kind, calls + 1>>}
    /\ UNCHANGED <<disk, version, acks, joining>>

Refresh(h) == "refresh" \in Ops /\ SendAction(h, "refresh", "refresh")

\* Request ids are the client's: an id is used again only by a resubmission.
Submit(h, r) ==
    /\ "submit" \in Ops
    /\ \/ "resubmit" \in Ops
       \/ \A g \in Handles :
             /\ r \notin DOMAIN pools[g].handlers
             /\ \A i \in 1..Len(pools[g].inbox) : pools[g].inbox[i].op # r
    /\ SendAction(h, "submit", r)

\* PoolService::close takes the pool out of open_pools, sends exit and drops
\* the ZMQPool: Drop sends exit again and joins the thread, and the executor
\* serves nothing else until the thread is over.
Close(h) ==
    /\ "close" \in Ops /\ Idle /\ calls < MaxCalls
    /\ pools[h].reg = "open"
    /\ calls' = calls + 1
    /\ pools' = [pools EXCEPT
          ![h].reg = "gone",
          ![h].inbox = @ \o <<Command("exit", calls + 1), Command("exit", 0)>>]
    /\ joining' = <<h, calls + 1>>
    /\ UNCHANGED <<disk, version, callbacks, acks>>

\* Only now is the callback of the close registered.
Joined ==
    /\ ~Idle /\ pools[joining[1]].st = "Closed"
    /\ callbacks' = callbacks \cup {<<"close", joining[2]>>}
    /\ joining' = <<>>
    /\ UNCHANGED <<disk, version, pools, calls, acks>>

SetProtocolVersion(v) ==
    /\ "version" \in Ops /\ Idle /\ version # v
    /\ version' = v
    /\ UNCHANGED <<disk, pools, calls, callbacks, acks, joining>>

\* OpenAck, CloseAck, RefreshAck and SubmitAck.  An answer without a callback
\* is only logged; a pool whose opening failed stays in pending_pools.
ProcessAck ==
    /\ Idle /\ acks # <<>>
    /\ LET a == Head(acks)
           known == <<a.kind, a.id>> \in callbacks
       IN  /\ callbacks' = callbacks \ {<<a.kind, a.id>>}
           /\ pools' = IF known /\ a.kind = "open" /\ a.ok
                       THEN [pools EXCEPT ![a.id].reg = "open"] ELSE pools
    /\ acks' = Tail(acks)
    /\ UNCHANGED <<disk, version, calls, joining>>

----------------------------------------------------------------------------
(* A pool's thread: commands *)

Receives(h, ops) == pools[h].inbox # <<>> /\ Head(pools[h].inbox).op \in ops
Received(h) == [pools[h] EXCEPT !.inbox = Tail(@)]
Id(h) == Head(pools[h].inbox).id
In(h, states) == pools[h].st \in states

\* A step of pool h's thread: its next state, the answers it sends.
Thread(h, p, answers) ==
    /\ pools' = [pools EXCEPT ![h] = p]
    /\ acks' = acks \o answers
    /\ UNCHANGED <<client, created, version, calls, callbacks, joining>>

\* _get_nodes_and_remotes refuses transactions of another version than the
\* process has at this moment.
NodesKnown == version = LedgerVersion

\* _get_request_handler_with_ledger_status_sent: nodes that cannot be read
\* cost the cache, and reading them again from the genesis file fails alike.
StatusSent(n) == n \in created /\ NodesKnown
CacheAfterStatus(n) == IF NodesKnown THEN cached ELSE cached \ {n}

\* Mutant of CheckCache: a catch-up that cannot start is not answered.
CheckCacheSilent(h) ==
    /\ In(h, {"Initialization"}) /\ Receives(h, {"connect"})
    /\ cached' = CacheAfterStatus(pools[h].name)
    /\ IF StatusSent(pools[h].name)
       THEN Thread(h, [Received(h) EXCEPT !.st = "GettingCatchupTarget", !.cmd = Id(h)], <<>>)
       ELSE Thread(h, [Received(h) EXCEPT !.st = "Terminated"], <<>>)

\* The first command: a pool whose nodes cannot be read is Terminated at once.
CheckCache(h) ==
    /\ In(h, {"Initialization"}) /\ Receives(h, {"connect"})
    /\ cached' = CacheAfterStatus(pools[h].name)
    /\ IF StatusSent(pools[h].name)
       THEN Thread(h, [Received(h) EXCEPT !.st = "GettingCatchupTarget", !.cmd = Id(h)], <<>>)
       ELSE Thread(h, [Received(h) EXCEPT !.st = "Terminated"], <<Ack("open", Id(h), FALSE)>>)

\* The requests of an Active pool that no one has answered yet, in some order.
Unanswered(p) == {r \in DOMAIN p.handlers : ~p.handlers[r].done}

\* Mutant of TerminateAcks: requests that are finished are answered again.
TerminateAcksTwice(p) ==
    SetToSeq({Ack("submit", p.handlers[r].cmd, FALSE) : r \in DOMAIN p.handlers})

\* Terminate reaches every handler; a finished one ignores it.
TerminateAcks(p) ==
    SetToSeq({Ack("submit", p.handlers[r].cmd, FALSE) : r \in Unanswered(p)})

\* Mutant of Exit: a pool whose refresh failed does not listen.
ExitNotTerminated(h) ==
    /\ ~In(h, {"Closed", "Terminated"}) /\ Receives(h, {"exit"})
    /\ Thread(h, [Received(h) EXCEPT !.st = "Closed", !.handlers = NoHandlers],
              <<Ack("close", Id(h), TRUE)>> \o TerminateAcks(pools[h]))
    /\ UNCHANGED cached

\* Exit in any state but Closed, which ends the thread: CloseAck, then the
\* answers to the terminated requests.
Exit(h) ==
    /\ ~In(h, {"Closed"}) /\ Receives(h, {"exit"})
    /\ Thread(h, [Received(h) EXCEPT !.st = "Closed", !.handlers = NoHandlers],
              <<Ack("close", Id(h), TRUE)>> \o TerminateAcks(pools[h]))
    /\ UNCHANGED cached

\* Refresh of an Active or a Terminated pool.  The handlers of an Active pool
\* are dropped without an answer, their timers stay with the networker; a
\* catch-up that cannot start answers nobody.
RefreshCommand(h) ==
    /\ In(h, {"Active", "Terminated"}) /\ Receives(h, {"refresh"})
    /\ cached' = CacheAfterStatus(pools[h].name)
    /\ LET p == [Received(h) EXCEPT !.handlers = NoHandlers]
       IN  IF StatusSent(p.name)
           THEN Thread(h, [p EXCEPT !.st = "GettingCatchupTarget", !.cmd = Id(h),
                                    !.refresh = TRUE], <<>>)
           ELSE Thread(h, [p EXCEPT !.st = "Terminated"], <<>>)

\* An Active pool makes a handler and sends the request, whether or not a
\* handler with this id exists; or the request does not parse.
SubmitCommand(h) ==
    /\ In(h, {"Active"}) /\ Receives(h, Req)
    /\ LET r == Head(pools[h].inbox).op
           p == Received(h)
       IN  \/ Thread(h, [p EXCEPT
                  !.handlers = [x \in DOMAIN @ \cup {r} |->
                                  IF x = r THEN [cmd |-> Id(h), done |-> FALSE] ELSE @[x]],
                  !.timers = Append(Disarm(@, r), r)], <<>>)
           \/ Thread(h, p, <<Ack("submit", Id(h), FALSE)>>)
    /\ UNCHANGED cached

\* A command that its state does not expect is dropped: "_ => state".
Dropped(h) ==
    /\ \/ In(h, {"GettingCatchupTarget", "SyncCatchup"}) /\ Receives(h, Req \cup {"refresh"})
       \/ In(h, {"Terminated"}) /\ Receives(h, Req)
    /\ Thread(h, Received(h), <<>>)
    /\ UNCHANGED cached

----------------------------------------------------------------------------
(* A pool's thread: the nodes and the timers *)

\* Most nodes were silent or disagreed and there is no cache to drop, or the
\* ledger they agree on fits neither the cache, which is dropped, nor the
\* genesis file.
CatchupTargetNotFound(h) ==
    /\ In(h, {"GettingCatchupTarget"})
    /\ cached' = cached \ {pools[h].name}
    /\ \E t \in AfterStatus(pools[h].timers) :
          Thread(h, [pools[h] EXCEPT !.st = "Terminated", !.timers = t], <<AckOf(pools[h], FALSE)>>)

\* Most nodes were silent or disagreed, and the cache is dropped to start again from the genesis file.
CatchupRestart(h) ==
    /\ In(h, {"GettingCatchupTarget"})
    /\ pools[h].name \in cached
    /\ cached' = cached \ {pools[h].name}
    /\ \E t \in AfterStatus(pools[h].timers) :
          Thread(h, [pools[h] EXCEPT !.st = IF NodesKnown THEN @ ELSE "Terminated", !.timers = t], <<>>)

\* f + 1 nodes agree on a ledger longer than the local one, if need be after
\* a cache that contradicts it is dropped.
CatchupTargetFound(h) ==
    /\ In(h, {"GettingCatchupTarget"})
    /\ cached' \in {cached, cached \ {pools[h].name}}
    /\ \E t \in AfterStatus(pools[h].timers) :
          Thread(h, [pools[h] EXCEPT !.st = IF NodesKnown THEN "SyncCatchup" ELSE "Terminated",
                                     !.timers = t], <<>>)

\* f + 1 nodes agree with the local ledger, or the missing transactions came:
\* these are appended to the cache, which needs the configuration on disk.
\* Only a pool that becomes Active answers.  The request for transactions
\* leaves no timer; those it found it leaves where they are.
Synced(h) ==
    \E t \in AfterStatus(pools[h].timers) :
       /\ \/ In(h, {"GettingCatchupTarget"}) /\ cached' \in {cached, cached \ {pools[h].name}}
          \/ /\ In(h, {"SyncCatchup"}) /\ pools[h].name \in created
             /\ cached' = cached \cup {pools[h].name}
             /\ t = pools[h].timers
       /\ IF NodesKnown
          THEN Thread(h, [pools[h] EXCEPT !.st = "Active", !.timers = t], <<AckOf(pools[h], TRUE)>>)
          ELSE Thread(h, [pools[h] EXCEPT !.st = "Terminated", !.timers = t], <<>>)

\* The nodes answer a request: its timers are disarmed, its handler goes.
NodeReply(h, r) ==
    /\ In(h, {"Active"}) /\ r \in Unanswered(pools[h])
    /\ Thread(h, [pools[h] EXCEPT
                    !.handlers = Without(@, r),
                    !.timers = Disarm(@, r)],
              <<Ack("submit", pools[h].handlers[r].cmd, TRUE)>>)
    /\ UNCHANGED cached

\* The earliest timer fires.  A catch-up disarms it whoever armed it.  An
\* Active pool gives it to the handler of the request, which answers and is
\* kept; a timer without a handler, of a dropped request or of a catch-up, is
\* warned about and stays the earliest.  So it does in a Terminated pool.
TimeoutStep(h) ==
    /\ pools[h].timers # <<>>
    /\ LET r == Head(pools[h].timers)
           p == [pools[h] EXCEPT !.timers = Tail(@)]
       IN  \/ In(h, {"GettingCatchupTarget", "SyncCatchup"}) /\ Thread(h, p, <<>>)
           \/ /\ In(h, {"Active"}) /\ r \in DOMAIN p.handlers
              /\ Thread(h, [p EXCEPT !.handlers[r].done = TRUE],
                        <<Ack("submit", p.handlers[r].cmd, FALSE)>>)
    /\ UNCHANGED cached

----------------------------------------------------------------------------
Executor ==
    \/ \E n \in Name : Create(n) \/ Delete(n) \/ Open(n)
    \/ \E h \in Handles : Close(h) \/ Refresh(h)
    \/ \E h \in Handles, r \in Req : Submit(h, r)
    \/ \E v \in {1, 2} : SetProtocolVersion(v)
    \/ ProcessAck \/ Joined

CatchupEnds(h) ==
    CatchupTargetNotFound(h) \/ CatchupRestart(h) \/ CatchupTargetFound(h) \/ Synced(h)

Commands(h) == CheckCache(h) \/ Exit(h) \/ RefreshCommand(h) \/ SubmitCommand(h) \/ Dropped(h)

PoolThread(h) ==
    Commands(h) \/ CatchupEnds(h) \/ TimeoutStep(h) \/ \E r \in Req : NodeReply(h, r)

Next == Executor \/ \E h \in Handles : PoolThread(h)

Spec == Init /\ [][Next]_vars

\* The executor and the threads run; a catch-up ends, because every node asked
\* answers or times out and, once a target is found, one of the nodes that
\* agree on it sends the transactions.  Nothing makes a node answer a request.
ThreadRuns(h) ==
    /\ h \in Handles
    /\ Commands(h) \/ CatchupEnds(h) \/ (In(h, {"Active"}) /\ TimeoutStep(h))
Fairness == WF_vars(ProcessAck \/ Joined) /\ \A h \in 1..MaxPools : WF_vars(ThreadRuns(h))

FairSpec == Spec /\ Fairness

----------------------------------------------------------------------------
(* Properties *)

Call(a) == <<a.kind, a.id>>

\* "appropriate callback not found!" is never logged: an answer in the
\* executor's queue has its callback, or is the answer to the close whose
\* callback is registered when the join is over, and no call is answered
\* twice (a request that timed out keeps its handler until the pool closes).
NoStrayAck ==
    /\ \A i \in 1..Len(acks) :
          \/ Call(acks[i]) \in callbacks
          \/ ~Idle /\ Call(acks[i]) = <<"close", joining[2]>>
    /\ IsInjective([i \in 1..Len(acks) |-> Call(acks[i])])

\* A client that opens, submits requests under ids of their own and closes.
Careful == Ops \subseteq {"close", "submit"}

\* Closing never hangs: the executor's join of the pool's thread ends, in
\* whatever state the pool is, and the closes are answered (calls are bounded,
\* so a close that is never answered is one that waits at the end).
CloseWaits == ~Idle \/ \E c \in callbacks : c[1] = "close"
CloseAnswered == CloseWaits ~> ~CloseWaits

\* Call c is a request to a pool whose catch-up left a timer behind: the request's
\* own timer never becomes the earliest, and silent nodes leave it unanswered.
Hidden(c) ==
    /\ c[1] = "submit"
    /\ \E h \in Handles :
          /\ StatusTimer \in ToSet(pools[h].timers)
          /\ \/ \E r \in DOMAIN pools[h].handlers : pools[h].handlers[r].cmd = c[2]
             \/ \E i \in 1..Len(pools[h].inbox) : pools[h].inbox[i].id = c[2]

\* Every call of a careful client gets its answer, though the nodes are silent,
\* unless it is a request that such a timer hides (the calls are bounded, as above).
Waiting == {c \in callbacks : ~Hidden(c)}
CallsAnswered == Careful /\ Waiting # {} ~> Waiting = {}

============================================================================
