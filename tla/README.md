# SimpleAsset: a TLA+ verification project

SimpleAsset is a small money system on Hyperledger Fabric: a Java chaincode that
keeps account balances (`MyChainCode/`), and Node.js servers that open accounts,
issue money and report balances through it (`apiserver/`). The repository also
carries the Hyperledger Indy SDK (`indy-sdk/`), the identity layer the root
server was meant to use. The modules here model the money system completely and
those parts of the SDK that have a protocol: the connection to a pool of
validator nodes, the wallets, and the exchanges of credentials. TLC checks them
on small instances; TLAPS proves the safety properties, all but two, for every
value of the constants.

## 1. Inventory

**The money system.**

| Component | Source | State | Operations |
|---|---|---|---|
| Asset chaincode | `MyChainCode.java` | none of its own; the world state, a text per account name | `init`, `invoke` -> `create_account`, `remit`, `balance_check`, `money_issuance`, `delete_account` |
| Fabric channel | external; used through `submitTransaction` and `ChaincodeStub` | world state with versions, each peer's copy, transactions under way | endorse, order, validate, commit, notify, time out |
| Finance API server | `financeapiserver.js`, `create_account.js`, `money_issuance.js`, `balance_check.js` | requests suspended at an await, connected gateways; the wallet directory | `/createaccount`, `/money_issuance`, `/balance_check` |
| User registration | `registerUser.js` | the wallet directory; registrations at the certificate authority (external) | check, register, enroll, import |
| Admin enrolment | `enrollAdmin.js` | the wallet directory | check, enroll, import |
| Root API server | `rootapiserver.js` | requests suspended at `axios.post` | `/register`, `/balance_check` (forwarded), `/pay` (stub) |
| Samples | `query.js`, `reference.js` | none | not used by the system |

**The Indy SDK** (paths under `indy-sdk/`).

| Component | Source | State | Operations |
|---|---|---|---|
| Pool networker | `libindy/src/services/pool/networker.rs` | connections, the request on each, a timer per request and node | send to one, to all, again; extend or clean a timer; new nodes; idle timeout |
| Request handler | `.../pool/request_handler.rs` | replies by result, nodes timed out | start, reply, ack, nack, reject, timeout |
| Catch-up | `.../pool/catchup.rs`, `merkle_tree_factory.rs`, `pool.rs` | the Merkle tree, its cache on disk, votes of the nodes | status, vote, timeout, transactions, dump |
| Pool lifecycle | `libindy/src/commands/pool.rs`, `services/pool/mod.rs`, `pool.rs` | open and pending pools, callbacks, a state machine and a thread per pool | create, delete, open, close, refresh, submit, set protocol version |
| Wallet | `libindy/src/commands/wallet.rs`, `libindy/indy-wallet/src/` | open wallets, pending opens and imports, files | create, open (with rekey), close, delete, export, import, record operations |
| Connections | `vcx/libvcx/src/v3/handlers/connection/` | a state machine per end, mailboxes | invite, connect, respond, ack, ping, discover |
| Credential exchanges | `vcx/libvcx/src/v3/handlers/{issuance,proof_presentation}/` | a state machine per end, mailboxes, the holder's wallet | offer, request, credential, ack; request, presentation, ack; problem reports |
| Rest of libindy | anoncreds, crypto, ledger request building, C API | - | see section 6 |
| CLI, wrappers, plugins | `cli/`, `wrappers/`, `experimental/` | - | see section 6 |
| Indy node | `indy-node/` | - | a Python project whose consensus is in another repository |

**Interactions.** The root server forwards to the finance server over HTTP. The
finance server's handlers are async functions on one event loop; they share the
wallet directory with each other and with `enrollAdmin.js`, call the certificate
authority, and submit chaincode calls to the channel. A call is simulated by one
peer on the state it has committed so far (the endorsement policy in
`MyChainCode/Readme.md` is an OR of the organisations), ordered, and committed by
all peers unless a key it read has changed. The only call from the root server to
an identity service (`rootapiserver.js:33-45`) is commented out, so the SDK's
modules stand beside the others.

libindy executes every call of its API on one thread. It talks to one thread per
pool through a socket and is answered through its own queue; it hands the
derivation of wallet keys to a pool of threads and gets the result back as a
second command. A pool's thread multiplexes all its requests over shared
connections. libvcx is called by an application that polls: each end reads its
mailbox at an agency, moves its state machine and posts to the other end's.

**What is hard, and what makes each part correct.**

* Chaincode on the channel: simulation is optimistic and may run on stale state.
  The calls that commit behave as if executed one at a time (`Serializable`); a
  balance is not spent twice (`NoDoubleSpend`); money is neither lost nor created
  (`SupplyConserved`); accounts open once (`OpenedOnce`); stored texts remain
  ints through overflow (`TypeOK`).
* Finance and root server: every await is a point where other requests, failures
  or a crash intervene. Accounts have an identity behind them
  (`IdentityBehindAccount`), balances are explained by the requests that took
  effect (`BalancesExplained`), an answer of success is true (`SuccessIsReal`,
  `ToldTheTruth`), identities are never replaced (`NoOverwrite`), nor made for a
  name whose registration was cut short (`AbandonedStaysOut`), the finance server
  answers its requests (`Answered`), and no client waits for servers that are done
  with it (`ClientSettled`; one whose forwarding is rejected gets no answer).
* Pool: nodes lie, lag, repeat themselves and stay silent. What is reported is on
  the ledger (`AnswerCommitted`, `AloneOnlyIfFresh`, `SyncedWithLedger`), each
  call is answered at most once (`AnsweredOnce`, `NoStrayAck`), and it is answered
  (`Answered`, `CallsAnswered`, with the exceptions of section 5) because timers
  are armed, reachable and disarmed (`TimersCleanable`, `NoTimerLeft`,
  `StatusPhaseEnds`). Arithmetic on unsigned counts does not wrap (`NoUnderflow`,
  `CatchupNoUnderflow`).
* Wallet: checks are made in one half of a call and acted on in the other. What
  is stored stays readable (`StillReadable`), and a client that waits for its
  answers finds each wallet open once and never deleted while open (`OpenOnce`)
  or without its key (`DeletedWithItsKey`), and nothing made by a call that was
  answered with an error, but for an import whose storage failed (`ErrorsUndone`).
* libvcx: a call reported as failed may have taken effect. The ends agree
  (`Agreement`, `KeysAgree`), what is done twice is paid for by a failure
  (`OncePerFault`), and no answer is out of reach: polling ends (`PollingEnds`,
  `Settles`).

`PROJECT.json` lists the hazards with the lines where they bite.

## 2. Modules

| Module | Models | Composes |
|---|---|---|
| `MyChainCode` | the chaincode: one operator per handler, from a state and arguments to a response with payload, read set and write set | |
| `AtomicLedger` | abstract specification: a call takes effect at most once, in one step, on the current state | |
| `FabricLedger` | the chaincode on the channel: concurrent transactions, peers that lag, version checks, timeouts | `MyChainCode`; refines `AtomicLedger` |
| `FabricLedgerProofs` | theorems about `MyChainCode` and `FabricLedger` | |
| `FinanceServer` | the routes, `registerUser`, the three submitting functions and `enrollAdmin`, one action per await | `MyChainCode`, and `AtomicLedger` as its ledger |
| `RootServer` | the routes of the root server in front of the finance server | `FinanceServer` |
| `PoolNetworker` | the networker as operators on its state | |
| `PoolTraffic` | the networker driven by any requests | `PoolNetworker` |
| `PoolRequest` | a write, read or action request with faulty nodes | `PoolNetworker` |
| `PoolCatchup` | both phases of a catch-up with the cache on disk | `PoolNetworker` |
| `PoolLifecycle` | the executor's thread and a thread per pool | |
| `WalletService` | the wallet calls, their two halves, the files | |
| `VcxMailbox` | mailboxes and calls that fail with or without effect | |
| `VcxConnection` | an inviter and several invitees | `VcxMailbox` |
| `VcxExchange` | issuance and presentation | `VcxMailbox` |
| `ApiServerProofs` | theorems about `FinanceServer` and `RootServer` | the lemmas on sums of `FabricLedgerProofs` |
| `PoolProofs` | theorems about `PoolTraffic` and `PoolLifecycle` | |
| `PoolRequestProofs`, `PoolCatchupProofs`, `WalletServiceProofs`, `VcxExchangeProofs`, `VcxConnectionProofs` | theorems about the module of that name | |
| `MC...` | instances for TLC | the module they are named after |

**MyChainCode.** A text that is a decimal number is modelled by that number, the
empty text (also what `getStringState` gives for an absent key) by `Empty`, any
other text by `NotInt`. `Parses` is `Integer.parseInt`, `Wrap` the 32-bit
addition with `MaxInt` for `Integer.MAX_VALUE`. A write set is a function on the
keys written; a later put to a key replaces an earlier one, and reads never see
the call's own writes. The order of the guards of a handler is not kept where all
failing guards give an error response: those differ only in their text, carry no
writes and are never committed.

**FabricLedger.** One transaction goes through `Endorse` (or `Refuse`), `Order`
(or `Drop`), and `CommitValid` or `CommitInvalid`; `Notify` and `Timeout` are
what `submitTransaction` tells its caller. `worldState`, `version` and `height`
are the chain; `peerState` and `peerVersion` the possibly older copy a peer
simulates on. `version` is 0 for an absent key, as Fabric reports no version for
one. `basis`, the values a simulation read, is a history variable.

**FinanceServer.** `pc[r]` is the await request `r` is suspended at. `Throw` is
the catch block of whichever function is running; `RegisterLost`, `Commit` and
`Discard` let an external call take effect although its caller saw an error or
died. `Crash` kills the process: open requests are lost, the wallet, the
certificate authority, the ledger and transactions already sent are not. The
three submitting functions are the same code but for the identity (`Identity`),
the call (`CallOf`) and whether the disconnect is reached (`Committed`,
`Disconnect`).

**RootServer.** A client request `r` and the finance request it is forwarded as
share the name `r`. `Reject` is `axios.post` rejecting with no handler to catch
it: the package allows node 8 and later, so either the client is left waiting or
the process ends with all its requests. `Direct` is a request sent to the finance
server itself, the only way to `/money_issuance`.

**PoolNetworker, PoolTraffic.** The networker's fields are those of the record
`net`; `process_event` is split into one operator per event, so that a handler
that emits several events in one transition composes them in one step. Time is
abstract: every timer that is armed may be the earliest, and `get_timeout` gives
the idle event when a connection is out of its active time. Of a resend counter
the remainder is kept that selects the node. `PoolTraffic` lets any request do
what the handlers do with the networker and is where the sharing of connections
is checked; there `SendOne` ... `Finish` stand for the places of
`request_handler.rs` that emit the events.

**PoolRequest.** `Start` is the transition out of `RequestState::Start` for each
kind of request; `NodeReply`, `ReqACK`, `Timeout` and `Terminate` are the arms of
`handle_event`. A reply is its result, the signing time of its state proof and
whether the proof verifies. Honest nodes answer with the ledger, old or new;
faulty ones, fewer than a third, with anything.

**PoolCatchup.** A Merkle tree is the prefix of the ledger it commits to, or a
wrong one (`Wrong + n`). The status phase is `CatchupConsensus`, where f + 1
equal votes decide; the second is `CatchupSingle`, one node at a time, with the
consistency proof as the guard. A message names the request whose timers it
disarms (`req`): the root of a `LedgerStatus`, the old root of a
`ConsistencyProof`. For an honest node that is the request, unless the node has
another ledger than the status says; a faulty one names what it likes
(`FalseSays`). `CrashInDump` leaves the cache unreadable or any length between the
old and the new one, as `dump_new_txns` appends record by record and a length that
is cut short is read as the end of the file.

**PoolLifecycle.** A call is one step of the executor's thread up to the message
it sends the pool; the pool's thread takes commands from its `inbox`, and answers
come back through `acks`. Closing sends the exit command and `Joined` ends the
join, which blocks the executor. A catch-up ends in any outcome (`PoolCatchup`
has the detail), a request in any answer (`PoolRequest`). The timers of a pool
are ordered by deadline, since the loop looks at the earliest only. Any end of a
status phase may leave a timer behind (`AfterStatus`), which in an `Active` pool
nobody disarms; which phases do is a question for `PoolCatchup`.

**WalletService.** A call that needs a key has a first half (`Create`, `Open`,
...) and a second one (`...Continue`), which the derivation of the key lets run
in any order, or fail (`DeriveFails`).
`calls` remembers what the closure of each call carries, which may be stale when
the second half runs: the metadata that were read, the salt that was drawn. A
master key is the pair of passphrase and salt it is derived from. A file deleted
while open lives on without a name. An import makes the wallet, adds the records
and removes it again if that fails (`CreateAndUndo`); the branches in which it
answers with an error and the wallet stays are there too. A call that has ended
keeps its answer, which is what the caller sees, and whether a storage operation
failed in it (`Outcome`). `Crash` loses all that is not on disk, in the middle of a
create, an import with part of its records, a rotation or an export too.

**VcxMailbox, VcxConnection, VcxExchange.** A call over the network is ok, lost,
or in doubt: reported as failed though it took effect. The state machines of
issuance keep the new state after the message is marked as reviewed, those of
presentation before it (`AfterMark`, `BeforeMark`); most of what can go wrong
follows from that. `doubts` is a history variable. An application may poll, or
pass a message itself, an invitation to an invitee whose attempt has failed
included (`InvitationReceived`).

## 3. Runs

| Run | Instance | Shows |
|---|---|---|
| `ledger_every_call` | 3 transactions, 2 peers, 3 accounts, 3-bit ints, every kind of call, symmetric | all properties of the ledger; each guard of each handler decides both ways |
| `finance_routes` | 2 requests, 7 bodies, 1 crash, fairness | every route and branch concurrently with `enrollAdmin`; what a registration that was cut short leaves; liveness |
| `root_clients` | 2 client requests, 3 bodies, direct issuances, 1 crash, fairness | both servers end to end |
| `pool_requests` | 4 nodes (f = 1), 1 write, 5 reads, 5 actions, one of them naming a node twice; 2 nodes read at a time | a request is answered once, truthfully, fails only if more than f nodes do, and is answered unless it names a node twice |
| `pool_traffic` | 2 requests, 2 nodes, 2 connections, limit 2 | timers and requests on shared connections that expire, with node updates |
| `pool_lifecycle` | 1 name, 2 pools, 2 request ids; 2 calls of any client or 3 of a careful one | closing never hangs; the calls of a careful client are answered, but for requests that a timer of the catch-up hides |
| `pool_catchup` | 4 nodes, 0 or 1 faulty, up to 2 behind, no cache or a wrong one (10 starts), 2 opens, 1 refused reply | what a pool synchronises with, that it finds out with whom, and which timers it leaves |
| `vcx_exchange` | both kinds, 2 threads, 2 failures | agreement of the two ends, retries, polling ends |
| `vcx_connection` | 2 invitees, 5 agents, 1 ping or query, 2 failures | keys of the two ends; the exchange settles |
| `wallet_lifecycle` | 1 name, 2 passphrases, 1 record; 3 calls of any client, or of a careful one 4 with 2 failures or crashes or 5 with one | readable wallets; opened once, deleted with their key only; what errors leave |
| `self_remit` | violation | `remit` of an account to itself creates money |
| `registration_heals` | violation | a registration interrupted after `ca.register` cannot be repaired by registering again |

**Bounds.** Conflicts on the channel involve two transactions after one that sets
up the balance; three transactions give every pair a common past, and two peers
let them be endorsed on different pasts. With 3-bit ints (`MaxInt` = 3) two
issuances overflow. `MaxCrashes` = 1 already separates any two awaits. Two
accounts suffice in `FinanceServer` because its calls touch one account each.
Four nodes are the smallest pool that tolerates a fault; with fewer f is 0.
Replies are bounded at two per node where replies add up, which lets a node
contradict itself once. Two opens let a catch-up meet what an earlier one left, a
cache cut short by a crash included; the starts (`MCStarts`) pair each hard
circumstance (lies, an idle connection) with those that matter to it.
In `PoolLifecycle` and `WalletService` the clients are records: one that does
anything, for the properties that hold regardless, and a careful one with more
calls, for those that need a client that waits for its answers; one name
is where calls conflict. Two failures in libvcx are a failure and the failure of
its repair; the fifth agent is the one of an attempt after two failed ones.

**Deadlock** is checked in `FabricLedger` (a peer can always catch up) and
`PoolTraffic`. The other runs switch it off: a server that has answered its
requests, a request that is finished, a client that has made its calls are idle.

**Fairness.**

* `FinanceServer!FairSpec`: weak fairness of each request's step. Every await
  settles: wallet operations are local files, and the calls of `fabric-network`
  and of the certificate authority's client end by an answer or a timeout.
  Nothing is assumed of arrivals, commits, `enrollAdmin.js` or crashes.
* `RootSpec` adds the root server's own steps: a post is sent, an answer that is
  there is delivered, and the promise of a request the finance server died on
  settles, since its connection is closed. `axios` has no timeout here, so nothing
  is assumed of a post whose finance request is still running.
* `PoolRequest`, `PoolCatchup`: the poll loop of the pool's thread
  runs, so that some armed timer fires unless something else comes. Nothing makes
  a node reply. In `PoolRequest` this assumes of the nodes that none sends REQACKs
  without end, since each of them arms the timer of its node anew.
* `PoolLifecycle`: the executor's thread and each pool's run, whatever of their
  steps it is, and a catch-up ends, because each node asked answers or times out and once a target is found
  some node that agrees on it sends the transactions. Nothing makes a node
  answer a request.
* `VcxExchange`, `VcxConnection`: applications keep polling (`update_state`), as
  the samples do; no message is sure to be sent. Failures are finite in number.
* `PoolTraffic` and `WalletService` state no fairness; their properties are safety.

**Mutants.** Each property of a passing run has a mutant, an operator named after
the definition it replaces, that breaks it: an unchecked account, balances from a
process-local cache instead of the stub, a missing `await`, a timer that is
armed for nobody, a vote that is counted one too early, a salt that is drawn
twice, a state that is kept before the message is marked.

## 4. Proofs

Eight modules hold the theorems, one for each component that has state (the two API
servers share one, and so do the networker and the life of a pool). Each theorem holds for every value of the constants that
satisfies the named assumptions of the modules it extends, so for pools, sets of
requests, clients, failures and ints of any size; the bounds of section 3 concern
TLC only. Each component has an inductive invariant (`ChannelInv`, `NetworkerInv`,
`LifeInv`, elsewhere `IInv`), which TLC has checked on the instance of the run
before it was proved.

| Module | Theorem | States |
|---|---|---|
| `FabricLedgerProofs` | `TypeCorrect`, `VersionsAlwaysCoherent` | `[]TypeOK`, `[]VersionsCoherent` |
| | `Implements` | `Serializable`, the refinement of `AtomicLedger` |
| | `SpendsOnce` | `NoDoubleSpend` |
| | `NeverOpenedTwice` | `[]OpenedOnce` |
| | `SupplyAlwaysConserved` | `[]SupplyConserved` |
| `ApiServerProofs` | `AccountsHaveIdentities`, `ReportsAreTrue` | `[]IdentityBehindAccount`, `[]SuccessIsReal` |
| | `ImportsNeverOverwrite`, `AbandonedNamesStayOut` | `NoOverwrite`, `AbandonedStaysOut` |
| | `BalancesAlwaysExplained` | `[]BalancesExplained` |
| | `ClientsAreToldTheTruth` | `RootSpec => []ToldTheTruth` |
| `PoolProofs` | `NoTimerOutOfReach` | `[]TimersCleanable` |
| | `NewRequestsReachThePool`, `RequestsStayApart` | `CurrentNodesAsked`, `OthersUndisturbed` |
| | `NoAnswerAstray` | `[]NoStrayAck` |
| `PoolRequestProofs` | `AnsweredExactlyOnce`, `OnlyCommittedAnswers`, `AloneMeansFresh` | `[]AnsweredOnce`, `[]AnswerCommitted`, `[]AloneOnlyIfFresh` |
| | `CountingNeverUnderflows`, `FaultsTolerated` | `[]NoUnderflow`, `[]ToleratesF` |
| | `RepliesDisarm` | `RepliedInTime` |
| `PoolCatchupProofs` | `SynchronisesWithTheLedger`, `RoomForEveryVote`, `EveryTimerDisarmed` | `[]SyncedWithLedger`, `[]CatchupNoUnderflow`, `[]NoTimerLeft` |
| `WalletServiceProofs` | `AlwaysReadable`, `OneHandle`, `ErrorsAreUndone` | `[]StillReadable`, `[]OpenOnce`, `[]ErrorsUndone` |
| | `DeletionsHaveTheKey` | `DeletedWithItsKey` |
| `VcxExchangeProofs` | `SidesAgree`, `RetriesArePaid` | `[]Agreement`, `[]OncePerFault` |
| `VcxConnectionProofs` | `KeysAlwaysAgree` | `[]KeysAgree` |

**The assumptions.** `ChainCodeAssumption` and `CallAssumption`: account names and
the empty text are no numbers, and clients name accounts where the chaincode
expects a name; amounts, function names and numbers of arguments are free.
`KeyAssumption`: the accounts in use are finitely many; only
`SupplyAlwaysConserved` uses it, to add balances up. `HttpAssumption`,
`RootHttpAssumption`: what a body may hold. `NetworkerAssumption`: there is a node
and a request id, the nodes are finitely many, `None` is no node.
`ReqAssumption`: request ids are no empty texts (the networker uses the empty text
for the idle event), the ledger holds a result, times are numbers or absent, and
the kinds of requests are those of the code. `CatchupAssumption`: fewer than a
third of the nodes are faulty, as many as the pool tolerates.
`LifecycleAssumption`: a request id is told from the commands of a pool.
`WalletAssumption`, `FaultsAssumption`, `ExchangeAssumption`,
`ConnectionAssumption` say that bounds are numbers and that values standing for
nothing are not taken for something.

**The ledger.** *Locality* says that the response of a successful call depends on
the keys in its read set only; it is proved handler by handler and would fail for
a handler that used a balance it did not read. `ChannelInv` has three parts: `TypeOK`;
`VersionsCoherent`, that equal versions mean equal values, for peers and for
endorsed reads; and `EndorsedFaithful`, that an endorsed response is what the
chaincode answers in every state with the values it read. Serialisability is not
inductive by itself: it needs to know at the commit that the response endorsed
long ago, elsewhere, is the one of the current state. That is `CommitRunsNow`:
the version check and `VersionsCoherent` give equal values, and
`EndorsedFaithful` then gives equal responses. Every other step leaves the
abstract state alone (`OnlyCommits`). The subtle case of `VersionsCoherent` is
deletion: version 0 does not identify a point of the chain, but it always means
an absent key.

`NeverOpenedTwice` counts. Openings exceed deletions by at most one, but that
alone allows one more opening in a state where there is none to spare; the
strengthening `OpenedInv` adds one to the left side while the account is absent.
A creation then finds the account absent and leaves it present, a deletion pays
for the absence it causes, and `Presence` says that no other handler makes an
account disappear. The valid transactions are finitely many at any time, which is
proved, not assumed of `Tx`.

`SupplyAlwaysConserved` adds. `MoneyMoved` says, handler by handler, that a call
other than a deletion and a remittance to oneself changes the sum of all balances
by what it mints, give or take one period of an int. What a sum over a finite set
is (`SumFunction` of the community modules, a recursive function on subsets) is
derived from its definition in the section on sums: the recursion has a
solution, the solution is unique, any term can be split off. These inductions are
by the least counterexample: the library's induction theorems take an operator
as a parameter and cannot be used here, but that a nonempty set of finite sets
has a minimal element (`MinimalSet`) needs none.

**The API servers.** `IInv` says of each request what its suspended await relies
on: a request beyond the identity check has its identity in the wallet
(`Begun`; identities are never removed); of the requests between registering and
importing one name there is one, because the certificate authority registers a
name once, and the wallet does not hold the name yet (`OneEnrolls`); an account
holds the deposit of the only request that took effect for it
(`LedgerExplained`); a request that reports success has taken effect
(`ReportedTook`), also when the process dies in between. `NoOverwrite` is then a
consequence of `OneEnrolls` at the import. `AbandonedStaysOut` is the other side of
it: only the request that registered a name imports it, so a name left between the
two stays without an identity, and so without an account. `IssuedInv` is the books of the admin:
its balance and the sum of the amounts of the issuances that took effect differ
by periods of an int, and these are finitely many, which is proved as well. An
issuance that commits adds its amount to both sides, with the lemmas on sums and
on `Wrap` of the ledger's proofs; the other calls of the servers write accounts
that are not the admin's. The amount of a request does not change once it has
arrived (`ArrivedStays`), also over a crash. For the root server, `Forwarded` says that the
finance request under a client's name has the content the route gave it.

**The networker.** `Mapped` puts every timer on the connection its request is
mapped to; it survives sends because a request that is mapped stays on its
connection, and the removal of idle connections because a connection with timers
is kept. `Numbered` says that a new connection replaces none.

**The life of a pool.** That an answer has its callback is not inductive: an answer
is sent long after its call, by another thread, from an inbox, a catch-up or a
handler. `Owed` is the calls a pool has yet to answer: those of the commands in
its inbox up to the first exit, that of its catch-up, those of its unanswered
requests. `LifeInv` says that the answers in the executor's queue and the calls
owed by each pool are disjoint parts of the registered calls and of the close
being joined. Two points need more. A request that timed out keeps its handler
until the pool closes: it is not answered again because a request that is done
has no timer (`Timed`, which needs that no request has two). And the exit that
`Drop` sends again, with an id no call has, is never read (`QueueBehindExit`). A
step of a pool's thread *pays* (`Pays`): what it answers it owed and owes no more,
and it owes nothing new; `ThreadPays` is the one place where paying is shown to
keep `LifeInv`. It may owe less without an answer, as a refresh that drops the
requests under way does; that calls are answered is `CallsAnswered`, for a
careful client. A call of the executor adds one that is new, because ids are
never given out twice.

**Requests.** The intersection argument: `OneEach` says that a node is counted
once for each result, so a result with more than f nodes has an honest one, and
`Honestly` that it is then on the ledger. That the counting cannot underflow is
not visible in the guards: every event takes at most one from what is left of the
pool, and the handler goes on only while more than f is left (`Room`). That f
faults are tolerated is recorded when the request is given up (`Justified`), from
the same numbers. `Disarmed` ties the networker in: while a write is under way no
timer of a node that has replied is armed.

**Catch-up.** `Counted` is the same argument for the votes: with at most f for
each, and N - f still possible, no more than 2f nodes are counted. `Aimed` says
that the target of the second phase, and what it ends with, is a prefix that an
honest node has, `Stored` that a tree or cache is a prefix or a wrong one, which
the consistency proof rejects. `Asked` keeps the timers of the request for
transactions on its one connection, whoever lies: its last step disarms them by
their own name. `Timed` says that with honest nodes, from the genesis file, all
timers belong to the one request under way.

**The wallet.** `CallsRight` says what a call under way carries: a key derived
from the salt that it has drawn or read, and keys of its file whatever has happened
to the file since. With it `FilesRight` survives a rotation in the second half,
which writes a salt drawn in the first. For a careful client, `Careful` says that
what an opening or a deletion has read is still so when its second half runs;
`SaltsEnded` that nothing readable is by a call that is under way, or by one that
ended with an error and was no import in which an operation failed (`MayLeave`):
files of calls that were undone are still there, without a name. `TornLost`,
for any client, says that a storage without metadata goes with a call that was lost.

**libvcx.** Both invariants are about the messages in the mailboxes, which may be
read late, twice, or after the sender has moved on. In an exchange a message that
can make the user succeed is vouched for by the state of the institution
(`AllVouched`) unless it is in doubt, and a presentation in the mailbox is as good
as the one its user has (`Shown`); `Counted` says that creating or storing
a credential without a failure ends the side that does it. In a connection
`Names` says which agent's keys a message carries and `Means` what it says of its
sender now; agents are of one party only (`Apart`), which is what lets two
objects be told apart by their keys. `GaveUp` is what a problem
report means: no invitee uses the agent that the inviter answered. It must not say
that the agent is gone, since an invitee that failed keeps it, and may be passed an
invitation and start again.

**Only model-checked.** Everything under fairness (`Answered` of both modules,
`ClientSettled`, `CloseAnswered`, `CallsAnswered`, `StatusPhaseEnds`,
`PollingEnds`, `Settles`), which is beyond the proof system. Every safety property
of a passing run, invariant or action property, is a theorem.

## 5. Behaviours met while modelling

The two violation runs contradict a line of the repository. The following came up
as counterexamples to a first, stronger form of a property, or as cases the
models contain on purpose. They are what the properties are careful about.

*Money system.* `money_issuance` and `create_account` return before they
disconnect, so each call that succeeds leaves a gateway connected until the process
dies, and so does every call that fails after connecting. "Failed
to submit transaction" is also what a client is told whose transaction commits
after the timeout; a retry of an issuance then issues twice. The documented
parameter of `/balance_check` is not the one the finance server reads.
`delete_account` reads nothing, so it is never invalidated.

*Pool requests.* A node whose late reply follows its timeout is counted on both
sides of the reachability test, so a write may be declared impossible though it
could still succeed (`ToleratesF` says what remains true). An action whose node
list names one node twice waits for two answers of it, of which it keeps one; once
the timers are gone it waits for ever (`Answered` excepts it). A node that keeps
sending REQACKs keeps a request from timing out. In a pool of one node the
next node is the same one, whose timer is disarmed right after it was armed.

*Pool lifecycle.* Two opens under one name both succeed. A protocol version that
is changed while a pool opens makes it drop the open unanswered; a refresh drops
the requests under way; a second submission under a request id replaces the
handler of the first. A pool's directory may be deleted while the pool connects.
None of these happens to a client that opens, submits and closes. This one does: a
timer that nobody disarms, such as a catch-up may leave behind, hides all later
ones, and a request that the nodes do not answer then never times out
(`CallsAnswered` excepts it; its `Hidden`).

*Catch-up.* A catch-up that starts from a cache whose status differs, or with an
idle connection, or whose deciding message comes from a node that lies, may leave
timers of its status requests behind, because the timers that are disarmed are those
of the request the message names (`NoTimerLeft` says what remains true). A cache
torn by a crash makes the open fail until it is deleted; one that was cut between
two records is read as a shorter one and completed.

*Wallet*, for a client that overlaps calls at one name: two opens both pass the
check of `wallet_ids`; a delete prepared while an open is pending deletes the open
wallet; a delete checks the key against metadata read in its first half, and
deletes a wallet whose key was rotated or which was created anew since; an import
refused because the wallet is open leaves an empty one behind; of two overlapping rotations the
last wins and both are reported as done. For any client: a key
derivation that fails leaves its entry in `pending_for_open` or
`pending_for_import`; a crash between making the storage and writing its metadata
leaves a name that can be neither opened, deleted nor created; a failed export
leaves an incomplete file; an import whose storage cannot be opened after it was
created, or cannot be removed after the import failed, is answered with an error and
leaves a wallet (`ErrorsUndone` excepts it).

*libvcx.* A mark that took effect and is reported as failed leaves an issuer or a
holder waiting for a message it has. The verifier's `state()` reports a revoked
proof as accepted; `presentation_status`, which the model is about, does not. A holder that could not send its ack stores the credential again when it
retries. An invitee that retries after a send in doubt leaves the inviter
answering an agent that is forgotten. The losing invitee of a shared invitation
waits for ever. A response in doubt connects the invitee to keys the inviter has
thrown away.

## 6. What is not modelled

* The texts of responses and logs; a response is its outcome and what the
  properties need of its payload.
* Inside Fabric: blocks of several transactions, peer failures, endorsement by
  several peers, certificate checks. The chaincode makes no range queries, so
  there are no phantom reads. Calls by other clients of the channel while the
  finance server runs: `FabricLedger` covers all calls, `FinanceServer` its own.
* The import into the wallet directory is one step; it writes several files.
* `query.js`, `reference.js`: samples that nothing uses.
* Pool: deadlines (any armed timer may be the earliest, and in `PoolLifecycle` a
  request has one timer); parsing of messages and state proofs; `denied_nodes`,
  which no path fills; `PoolOutdated` and the blacklist of nodes, which no path
  raises; replies with more transactions than were asked for; a cache cut short
  within the records of the genesis file, which count as one unit; `list_pools`.
* Wallet: tags, searches and the query language, plugged storages, cryptography,
  and names that coincide because an id and a path are concatenated.
* libvcx: deleting a connection, revocation by the issuer, the issuer's
  `CredentialSent` state, which no step enters, and the older proprietary
  protocols (`connection.rs`, `issuer_credential.rs`, `proof.rs`, ...).
* The rest of the SDK, by far its largest part: anoncreds, crypto and the building
  of ledger requests are functions on cryptographic values and JSON, whose models
  would have to assume what they compute; the C API, the wrappers and libvcx's
  `api/` convert arguments and forward; the CLI formats; the storage plugins
  are SQL. None of them has a protocol, shared state or an order of steps of its
  own. This is why the map covers all of SimpleAsset's own code that runs, and
  about 3 % of the lines of the SDK's Rust code: the files with protocols are a
  small part of it, and much of them is unit tests, serialisation and logging.
* `indy-node/`: a Python project; its consensus is in `indy-plenum`.

## 7. Plan

Done: 1. `MyChainCode`, `AtomicLedger`, `FabricLedger` and their proofs;
2. `FinanceServer`; 3. `RootServer`; 4. the pool: `PoolNetworker`, `PoolTraffic`,
`PoolRequest`, `PoolCatchup`, `PoolLifecycle`; 5. `VcxMailbox`, `VcxExchange`,
`VcxConnection`; 6. `WalletService`.

7. The proofs of section 4: the ledger with its sums and counts, the API servers
with the sum of what was issued, the networker, the life of a pool, requests,
catch-up, the wallet, exchanges and connections.

Left: the API servers on the channel. `FinanceServer` uses the atomic ledger,
which `FabricLedger` implements (`Implements`); that the two compose is an
argument outside the modules.
