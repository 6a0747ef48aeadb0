---------------------------- MODULE FabricLedger ----------------------------
(***************************************************************************)
(* The asset chaincode on a Hyperledger Fabric 1.4 channel, as the API     *)
(* server's submitTransaction uses it: one peer simulates the call on the  *)
(* state it has committed so far (the endorsement policy of the README is  *)
(* an OR of the organisations), the client sends the endorsed read and     *)
(* write sets to the orderer, and every peer commits the transaction in    *)
(* chain order, discarding it when a key it read has another version by    *)
(* then.  The client waits for the commit event until a timeout.  Fabric   *)
(* itself is not part of the repository: these actions are external.       *)
(***************************************************************************)
EXTENDS MyChainCode, FiniteSets, Functions

CONSTANTS
    Tx,       \* transaction identifiers
    Peer      \* peers that endorse

\* The account names in use are finitely many, so balances can be added up.
ASSUME KeyAssumption == IsFiniteSet(Key)

VARIABLES
    worldState,   \* the state after the last transaction of the chain
    version,      \* the height that last wrote each key, 0 for no key
    height,       \* the number of transactions in the chain
    peerState,    \* the state each peer has committed so far ...
    peerVersion,  \* ... and its versions
    phase,        \* how far each transaction has come
    call,         \* the call of each transaction
    sim,          \* the endorsed response, with its read and write sets
    readVersion,  \* the versions of the keys read, as endorsed
    basis,        \* history: the values of the keys read
    answer        \* what submitTransaction has told the client

chainVars  == <<worldState, version, height>>
peerVars   == <<peerState, peerVersion>>
rwsetVars  == <<call, sim, readVersion, basis>>
channelVars == <<worldState, version, height, peerState, peerVersion,
                 phase, call, sim, readVersion, basis, answer>>

\* The abstract ledger this one implements: a transaction takes effect when
\* it is committed as valid.
Abs == INSTANCE AtomicLedger WITH
    ledger <- worldState,
    done   <- {[tx |-> t, call |-> call[t], payload |-> sim[t].payload] :
                   t \in {u \in Tx : phase[u] = "valid"}}

----------------------------------------------------------------------------
ChannelInit ==
    /\ worldState = Deployed
    /\ version = [k \in Key |-> IF k = Admin THEN 1 ELSE 0]
    /\ height = 1
    /\ peerState = [p \in Peer |-> worldState]
    /\ peerVersion = [p \in Peer |-> version]
    /\ phase = [t \in Tx |-> "new"]
    /\ call = [t \in Tx |-> Upgrade]
    /\ sim = [t \in Tx |-> newErrorResponse]
    /\ readVersion = [t \in Tx |-> [k \in {} |-> 0]]
    /\ basis = [t \in Tx |-> NoWrites]
    /\ answer = [t \in Tx |-> "none"]

\* Peer p simulates call c for a new transaction and endorses the result.
Endorse(t, c, p) ==
    LET response == Simulate(peerState[p], c)
    IN  /\ phase[t] = "new"
        /\ response.ok
        /\ phase' = [phase EXCEPT ![t] = "endorsed"]
        /\ call' = [call EXCEPT ![t] = c]
        /\ sim' = [sim EXCEPT ![t] = response]
        /\ readVersion' = [readVersion EXCEPT ![t] =
                              [k \in response.reads |-> peerVersion[p][k]]]
        /\ basis' = [basis EXCEPT ![t] =
                        [k \in response.reads |-> peerState[p][k]]]
        /\ UNCHANGED <<chainVars, peerVars, answer>>

\* The proposal fails: the chaincode returned an error response, or the peer
\* or its chaincode could not be reached.
Refuse(t, c) ==
    /\ phase[t] = "new"
    /\ phase' = [phase EXCEPT ![t] = "refused"]
    /\ call' = [call EXCEPT ![t] = c]
    /\ answer' = [answer EXCEPT ![t] = "failed"]
    /\ UNCHANGED <<chainVars, peerVars, sim, readVersion, basis>>

\* The orderer takes the transaction; transactions sent later may overtake it.
Order(t) ==
    /\ phase[t] = "endorsed"
    /\ phase' = [phase EXCEPT ![t] = "ordered"]
    /\ UNCHANGED <<chainVars, peerVars, rwsetVars, answer>>

\* The orderer cannot be reached or rejects the transaction.
Drop(t) ==
    /\ phase[t] = "endorsed"
    /\ phase' = [phase EXCEPT ![t] = "dropped"]
    /\ answer' = [answer EXCEPT ![t] = "failed"]
    /\ UNCHANGED <<chainVars, peerVars, rwsetVars>>

\* No key that t read has been written since.
ReadsCurrent(t) ==
    \A k \in sim[t].reads : readVersion[t][k] = version[k]

\* Mutant of CommitValid: a deleted key keeps its version.
CommitValidKeepVersion(t) ==
    /\ phase[t] = "ordered"
    /\ ReadsCurrent(t)
    /\ height' = height + 1
    /\ worldState' = Apply(worldState, sim[t].writes)
    /\ version' = [k \in Key |->
                      IF k \in DOMAIN sim[t].writes /\ sim[t].writes[k] # Empty
                      THEN height + 1 ELSE version[k]]
    /\ phase' = [phase EXCEPT ![t] = "valid"]
    /\ UNCHANGED <<peerVars, rwsetVars, answer>>

CommitValid(t) ==
    /\ phase[t] = "ordered"
    /\ ReadsCurrent(t)
    /\ height' = height + 1
    /\ worldState' = Apply(worldState, sim[t].writes)
    /\ version' = [k \in Key |->
                      IF k \notin DOMAIN sim[t].writes THEN version[k]
                      ELSE IF sim[t].writes[k] = Empty THEN 0 ELSE height + 1]
    /\ phase' = [phase EXCEPT ![t] = "valid"]
    /\ UNCHANGED <<peerVars, rwsetVars, answer>>

\* MVCC_READ_CONFLICT: the transaction is in the chain without effect.
CommitInvalid(t) ==
    /\ phase[t] = "ordered"
    /\ ~ReadsCurrent(t)
    /\ height' = height + 1
    /\ phase' = [phase EXCEPT ![t] = "invalid"]
    /\ UNCHANGED <<worldState, version, peerVars, rwsetVars, answer>>

\* Peer p commits the blocks it has not seen.  A peer that takes this step
\* after every commit holds each state of the chain in turn, so a peer may
\* lag behind at any one of them.
CatchUp(p) ==
    /\ peerState' = [peerState EXCEPT ![p] = worldState]
    /\ peerVersion' = [peerVersion EXCEPT ![p] = version]
    /\ UNCHANGED <<chainVars, phase, rwsetVars, answer>>

\* The commit event reaches the client while submitTransaction waits for it.
Notify(t) ==
    /\ phase[t] \in {"valid", "invalid"}
    /\ answer[t] = "none"
    /\ answer' = [answer EXCEPT ![t] = IF phase[t] = "valid" THEN "ok" ELSE "failed"]
    /\ UNCHANGED <<chainVars, peerVars, phase, rwsetVars>>

\* submitTransaction stops waiting, whatever becomes of the transaction.
Timeout(t) ==
    /\ phase[t] \in {"ordered", "valid", "invalid"}
    /\ answer[t] = "none"
    /\ answer' = [answer EXCEPT ![t] = "failed"]
    /\ UNCHANGED <<chainVars, peerVars, phase, rwsetVars>>

ChannelNext ==
    \/ \E t \in Tx, c \in Call : Refuse(t, c) \/ \E p \in Peer : Endorse(t, c, p)
    \/ \E t \in Tx : \/ Order(t) \/ Drop(t)
                     \/ CommitValid(t) \/ CommitInvalid(t)
                     \/ Notify(t) \/ Timeout(t)
    \/ \E p \in Peer : CatchUp(p)

ChannelSpec == ChannelInit /\ [][ChannelNext]_channelVars

----------------------------------------------------------------------------
\* Type correctness: every stored balance is a Java int.
WriteSet == UNION {[K -> Value] : K \in SUBSET Key}

Response == [ok : BOOLEAN, payload : Value, reads : SUBSET Key, writes : WriteSet]

TypeOK ==
    /\ worldState \in [Key -> Value]
    /\ version \in [Key -> Nat]
    /\ height \in Nat
    /\ peerState \in [Peer -> [Key -> Value]]
    /\ peerVersion \in [Peer -> [Key -> Nat]]
    /\ phase \in [Tx -> {"new", "refused", "endorsed", "dropped",
                         "ordered", "valid", "invalid"}]
    /\ call \in [Tx -> Call \cup {Upgrade}]
    /\ sim \in [Tx -> Response]
    /\ DOMAIN readVersion = Tx /\ DOMAIN basis = Tx
    /\ \A t \in Tx : /\ readVersion[t] \in [sim[t].reads -> Nat]
                     /\ basis[t] \in [sim[t].reads -> Value]
    /\ answer \in [Tx -> {"none", "ok", "failed"}]

----------------------------------------------------------------------------
Valid == {t \in Tx : phase[t] = "valid"}

IsCall(t, fn) == call[t].entry = "invoke" /\ call[t].fn = fn

\* The valid calls of fn whose first argument is the account k.
ValidCalls(fn, k) == {t \in Valid : IsCall(t, fn) /\ call[t].args[1] = k}

SelfRemit(t) == IsCall(t, "remit") /\ call[t].args[1] = call[t].args[2]

\* The amount a valid call adds to the money in circulation.
Minted(t) == CASE IsCall(t, "create_account") -> call[t].args[2]
               [] IsCall(t, "money_issuance") -> call[t].args[1]
               [] OTHER                       -> 0

\* The money in circulation equals what was issued and deposited, modulo the
\* period of an int.
Balanced ==
    LET balance == [k \in Key |-> IF worldState[k] = Empty THEN 0 ELSE worldState[k]]
        minted  == [t \in Valid |-> Minted(t)]
    IN  (SumFunction(balance) - SumFunction(minted)) % (2 * (MaxInt + 1)) = 0

NothingDeleted == \A t \in Valid : ~IsCall(t, "delete_account")

\* Remittances between two accounts, however they interleave with each other
\* and with issuances and deposits, neither create nor destroy money: no
\* committed update is lost, none is applied twice.
SupplyConserved ==
    NothingDeleted /\ (\A t \in Valid : ~SelfRemit(t)) => Balanced

\* The same for every remittance, which is what "user1 sends amount to
\* user2" says.  A remittance of an account to itself violates it: the last
\* of the two puts wins and the account gains the amount.
RemitMovesMoney == NothingDeleted => Balanced

\* Opening an account is not repeatable: for every account the valid
\* create_account calls exceed the valid delete_account calls by at most
\* one, also when a call that was answered as failed is retried.
OpenedOnce ==
    \A k \in Key :
        Cardinality(ValidCalls("create_account", k))
            <= Cardinality(ValidCalls("delete_account", k)) + (IF k = Admin THEN 0 ELSE 1)

\* A balance is spent once: a remittance that commits takes its amount from
\* the balance its sender has at the commit, not at the endorsement, and the
\* sender can afford it.
NoDoubleSpend ==
    [][\A t \in Tx :
          /\ phase[t] = "ordered" /\ phase'[t] = "valid"
          /\ IsCall(t, "remit") /\ ~SelfRemit(t)
          => LET sender == call[t].args[1]
             IN  /\ worldState[sender] >= call[t].args[3]
                 /\ worldState'[sender] = worldState[sender] - call[t].args[3]]_channelVars

\* Every behaviour is one of the atomic ledger: calls simulated on stale
\* peers and committed later take effect as if run in one step, and a
\* balance_check that succeeds returns the balance at its commit.
Serializable == Abs!Spec

----------------------------------------------------------------------------
\* The versions tell states apart: a key is absent exactly at version 0, and
\* a key at the version that was endorsed has the value that was endorsed.
VersionsCoherent ==
    /\ \A k \in Key : version[k] <= height /\ (version[k] = 0 <=> worldState[k] = Empty)
    /\ \A p \in Peer, k \in Key :
           /\ peerVersion[p][k] <= height
           /\ peerVersion[p][k] = 0 <=> peerState[p][k] = Empty
           /\ peerVersion[p][k] = version[k] => peerState[p][k] = worldState[k]
    /\ \A t \in Tx : \A k \in sim[t].reads :
           /\ readVersion[t][k] <= height
           /\ readVersion[t][k] = 0 <=> basis[t][k] = Empty
           /\ readVersion[t][k] = version[k] => basis[t][k] = worldState[k]

\* An endorsed response is what the chaincode answers in every state that has
\* the values the simulation read, whatever the other keys hold.
EndorsedFaithful ==
    \A t \in Tx : phase[t] \in {"endorsed", "ordered"} =>
        /\ sim[t].ok
        /\ call[t] \in Call
        /\ \A s \in [Key -> Value] :
              (\A k \in sim[t].reads : s[k] = basis[t][k])
                  => Simulate(s, call[t]) = sim[t]
============================================================================
