------------------------- MODULE FabricLedgerProofs -------------------------
(***************************************************************************)
(* Proofs about the chaincode and about FabricLedger, for every set of     *)
(* accounts, calls, transactions and peers and every width of an int.      *)
(***************************************************************************)
EXTENDS FabricLedger, FiniteSetTheorems, TLAPS

----------------------------------------------------------------------------
(* The chaincode *)

\* Adding or subtracting Java ints gives a Java int.
LEMMA WrapType ==
    ASSUME NEW a \in JavaInt, NEW b \in JavaInt
    PROVE  Wrap(a + b) \in JavaInt /\ Wrap(a - b) \in JavaInt
BY ChainCodeAssumption DEF Wrap, JavaInt

\* Recording a put keeps a write set a write set.
LEMMA PutType ==
    ASSUME NEW w \in WriteSet, NEW k \in Key, NEW v \in Value
    PROVE  putStringState(w, k, v) \in WriteSet
<1>1. PICK K \in SUBSET Key : w \in [K -> Value]
  BY DEF WriteSet
<1>2. putStringState(w, k, v) \in [K \cup {k} -> Value]
  BY <1>1 DEF putStringState
<1>3. K \cup {k} \in SUBSET Key
  BY <1>1
<1> QED
  BY <1>2, <1>3 DEF WriteSet

\* The empty write set is one.
LEMMA NoWritesType == NoWrites \in WriteSet
<1>1. NoWrites \in [{} -> Value]
  BY DEF NoWrites
<1>2. {} \in SUBSET Key
  OBVIOUS
<1> QED
  BY <1>1, <1>2 DEF WriteSet

\* Committing a write set to a world state gives a world state.
LEMMA ApplyType ==
    ASSUME NEW s \in [Key -> Value], NEW w \in WriteSet
    PROVE  Apply(s, w) \in [Key -> Value]
<1>1. PICK K \in SUBSET Key : w \in [K -> Value]
  BY DEF WriteSet
<1> QED
  BY <1>1 DEF Apply

\* A success response is a response.
LEMMA SuccessType ==
    ASSUME NEW v \in Value, NEW r \in SUBSET Key, NEW w \in WriteSet
    PROVE  newSuccessResponse(v, r, w) \in Response
BY DEF newSuccessResponse, Response

\* So is the error response.
LEMMA ErrorType == newErrorResponse \in Response
BY NoWritesType DEF newErrorResponse, Response, Value

\* The chaincode answers every call with a response, and leaves Java ints
\* under the keys it writes.
LEMMA SimulateType ==
    ASSUME NEW s \in [Key -> Value], NEW c \in Call \cup {Upgrade}
    PROVE  Simulate(s, c) \in Response
<1> USE NoWritesType, ErrorType, ChainCodeAssumption
<1>a. Empty \in Value /\ 0 \in Value
  BY DEF Value, JavaInt
<1>i. init(s) \in Response
  <2>1. putStringState(NoWrites, Admin, 0) \in WriteSet
    BY PutType, <1>a
  <2> QED
    BY <2>1, <1>a, SuccessType DEF init
<1>1. CASE c.entry = "init"
  BY <1>1, <1>i DEF Simulate
<1>2. CASE c.entry # "init"
  <2>c. c \in Call
    BY <1>2 DEF Upgrade
  <2>w. WellFormed(c)
    BY <2>c, CallAssumption
  <2>l. Len(c.args) \in Nat
    BY <2>c, CallAssumption
  <2>1. CASE c.fn = "create_account"
    <3>1. ASSUME Len(c.args) = 2 /\ Parses(c.args[2])
          PROVE  createAccount(s, c.args) \in Response
      <4>1. c.args[1] \in Key /\ c.args[2] \in Value
        BY <2>1, <2>w, <3>1 DEF WellFormed, Parses, Value
      <4>2. newSuccessResponse(Empty, {c.args[1]},
                putStringState(NoWrites, c.args[1], c.args[2])) \in Response
        BY <4>1, <1>a, PutType, SuccessType
      <4> QED
        BY <4>2 DEF createAccount
    <3>2. ASSUME ~(Len(c.args) = 2 /\ Parses(c.args[2]))
          PROVE  createAccount(s, c.args) \in Response
      BY <3>2 DEF createAccount
    <3>3. createAccount(s, c.args) \in Response
      BY <3>1, <3>2
    <3> QED
      BY <1>2, <2>1, <3>3 DEF Simulate, invoke
  <2>2. CASE c.fn = "remit"
    <3> DEFINE sb == s[c.args[1]]
               rb == s[c.args[2]]
               n  == c.args[3]
               debited == putStringState(NoWrites, c.args[1], Wrap(sb - n))
    <3>1. ASSUME Len(c.args) = 3 /\ Parses(n) /\ Parses(sb) /\ Parses(rb)
          PROVE  remit(s, c.args) \in Response
      <4>1. c.args[1] \in Key /\ c.args[2] \in Key
        BY <2>2, <2>w, <3>1 DEF WellFormed
      <4>2. Wrap(sb - n) \in Value /\ Wrap(rb + n) \in Value
        BY <3>1, WrapType DEF Parses, Value
      <4>3. debited \in WriteSet
        BY <4>1, <4>2, PutType
      <4>4. putStringState(debited, c.args[2], Wrap(rb + n)) \in WriteSet
        BY <4>1, <4>2, <4>3, PutType
      <4>5. newSuccessResponse(Empty, {c.args[1], c.args[2]},
                putStringState(debited, c.args[2], Wrap(rb + n))) \in Response
        <5> HIDE DEF debited
        <5> QED BY <4>1, <4>4, <1>a, SuccessType
      <4> QED
        BY <4>5 DEF remit
    <3>2. ASSUME ~(Len(c.args) = 3 /\ Parses(n) /\ Parses(sb) /\ Parses(rb))
          PROVE  remit(s, c.args) \in Response
      BY <3>2 DEF remit
    <3>3. remit(s, c.args) \in Response
      BY <3>1, <3>2
    <3> QED
      BY <1>2, <2>2, <3>3 DEF Simulate, invoke
  <2>3. CASE c.fn = "balance_check"
    <3>1. ASSUME Len(c.args) = 1
          PROVE  balanceCheck(s, c.args) \in Response
      <4>1. c.args[1] \in Key
        BY <2>3, <2>w, <3>1 DEF WellFormed
      <4>2. newSuccessResponse(s[c.args[1]], {c.args[1]}, NoWrites) \in Response
        BY <4>1, SuccessType
      <4> QED
        BY <4>2 DEF balanceCheck
    <3>2. ASSUME Len(c.args) # 1
          PROVE  balanceCheck(s, c.args) \in Response
      BY <3>2 DEF balanceCheck
    <3>3. balanceCheck(s, c.args) \in Response
      BY <3>1, <3>2
    <3> QED
      BY <1>2, <2>3, <3>3 DEF Simulate, invoke
  <2>4. CASE c.fn = "money_issuance"
    <3>1. ASSUME Parses(c.args[1]) /\ Parses(s[Admin])
          PROVE  moneyIssuance(s, c.args) \in Response
      <4>1. Wrap(c.args[1] + s[Admin]) \in Value
        BY <3>1, WrapType DEF Parses, Value
      <4>2. newSuccessResponse(Empty, {Admin}, putStringState(NoWrites, Admin,
                Wrap(c.args[1] + s[Admin]))) \in Response
        BY <4>1, <1>a, PutType, SuccessType
      <4> QED
        BY <4>2 DEF moneyIssuance
    <3>2. ASSUME ~(Parses(c.args[1]) /\ Parses(s[Admin]))
          PROVE  moneyIssuance(s, c.args) \in Response
      BY <3>2 DEF moneyIssuance
    <3>3. moneyIssuance(s, c.args) \in Response
      BY <3>1, <3>2
    <3> QED
      BY <1>2, <2>4, <3>3 DEF Simulate, invoke
  <2>5. CASE c.fn = "delete_account"
    <3>1. ASSUME Len(c.args) = 1
          PROVE  deleteAccount(c.args) \in Response
      <4>1. c.args[1] \in Key
        BY <2>5, <2>w, <3>1 DEF WellFormed
      <4>2. newSuccessResponse(Empty, {}, delState(NoWrites, c.args[1])) \in Response
        BY <4>1, <1>a, PutType, SuccessType DEF delState
      <4> QED
        BY <4>2 DEF deleteAccount
    <3>2. ASSUME Len(c.args) # 1
          PROVE  deleteAccount(c.args) \in Response
      BY <3>2 DEF deleteAccount
    <3>3. deleteAccount(c.args) \in Response
      BY <3>1, <3>2
    <3> QED
      BY <1>2, <2>5, <3>3 DEF Simulate, invoke
  <2>6. CASE c.fn \notin {"create_account", "remit", "balance_check",
                          "money_issuance", "delete_account"}
    BY <1>2, <2>6 DEF Simulate, invoke
  <2> QED
    BY <2>1, <2>2, <2>3, <2>4, <2>5, <2>6
<1> QED
  BY <1>1, <1>2

\* What a successful call returns and writes depends on the keys in its read
\* set only: every handler that uses a balance has read it through the stub.
LEMMA Locality ==
    ASSUME NEW s \in [Key -> Value], NEW u \in [Key -> Value], NEW c \in Call,
           Simulate(s, c).ok,
           \A k \in Simulate(s, c).reads : s[k] = u[k]
    PROVE  Simulate(u, c) = Simulate(s, c)
<1> USE DEF newSuccessResponse, newErrorResponse
<1>1. CASE c.entry = "init"
  <2>1. s[Admin] = u[Admin]
    BY <1>1 DEF Simulate, init
  <2> QED
    BY <1>1, <2>1 DEF Simulate, init
<1>2. CASE c.entry # "init" /\ c.fn = "create_account"
  <2>1. /\ Simulate(s, c) = createAccount(s, c.args)
        /\ Simulate(u, c) = createAccount(u, c.args)
    BY <1>2 DEF Simulate, invoke
  <2>2. s[c.args[1]] = u[c.args[1]]
    BY <2>1 DEF createAccount
  <2> QED
    BY <2>1, <2>2 DEF createAccount
<1>3. CASE c.entry # "init" /\ c.fn = "remit"
  <2>1. /\ Simulate(s, c) = remit(s, c.args)
        /\ Simulate(u, c) = remit(u, c.args)
    BY <1>3 DEF Simulate, invoke
  <2>2. s[c.args[1]] = u[c.args[1]] /\ s[c.args[2]] = u[c.args[2]]
    BY <2>1 DEF remit
  <2> QED
    BY <2>1, <2>2 DEF remit
<1>4. CASE c.entry # "init" /\ c.fn = "balance_check"
  <2>1. /\ Simulate(s, c) = balanceCheck(s, c.args)
        /\ Simulate(u, c) = balanceCheck(u, c.args)
    BY <1>4 DEF Simulate, invoke
  <2>2. s[c.args[1]] = u[c.args[1]]
    BY <2>1 DEF balanceCheck
  <2> QED
    BY <2>1, <2>2 DEF balanceCheck
<1>5. CASE c.entry # "init" /\ c.fn = "money_issuance"
  <2>1. /\ Simulate(s, c) = moneyIssuance(s, c.args)
        /\ Simulate(u, c) = moneyIssuance(u, c.args)
    BY <1>5 DEF Simulate, invoke
  <2>2. s[Admin] = u[Admin]
    BY <2>1 DEF moneyIssuance
  <2> QED
    BY <2>1, <2>2 DEF moneyIssuance
<1>6. CASE c.entry # "init" /\ c.fn = "delete_account"
  BY <1>6 DEF Simulate, invoke
<1>7. CASE c.entry # "init" /\ c.fn \notin {"create_account", "remit",
                "balance_check", "money_issuance", "delete_account"}
  BY <1>7 DEF Simulate, invoke
<1> QED
  BY <1>1, <1>2, <1>3, <1>4, <1>5, <1>6, <1>7

----------------------------------------------------------------------------
(* The channel *)

\* The inductive invariant.
ChannelInv == TypeOK /\ VersionsCoherent /\ EndorsedFaithful

\* Versions and values of the freshly instantiated chaincode.
LEMMA DeployedState ==
    /\ Deployed \in [Key -> Value]
    /\ \A k \in Key : Deployed[k] = IF k = Admin THEN 0 ELSE Empty
BY ChainCodeAssumption DEF Deployed, Apply, init, newSuccessResponse, NoWrites,
   putStringState, Value, JavaInt

\* The invariant holds initially.
LEMMA InitChannel == ChannelInit => ChannelInv
<1> SUFFICES ASSUME ChannelInit PROVE ChannelInv
  OBVIOUS
<1>1. TypeOK
  BY DeployedState, ErrorType
     DEF ChannelInit, TypeOK, newErrorResponse, NoWrites
<1>2. VersionsCoherent
  <2>1. \A k \in Key : /\ version[k] <= height
                       /\ version[k] = 0 <=> worldState[k] = Empty
    <3> SUFFICES ASSUME NEW k \in Key
                 PROVE  /\ version[k] <= height
                        /\ version[k] = 0 <=> worldState[k] = Empty
      OBVIOUS
    <3>1. 0 # Empty
      BY ChainCodeAssumption
    <3>2. height = 1 /\ version[k] = (IF k = Admin THEN 1 ELSE 0)
      BY DEF ChannelInit
    <3>3. worldState[k] = IF k = Admin THEN 0 ELSE Empty
      BY DeployedState DEF ChannelInit
    <3> QED
      BY <3>1, <3>2, <3>3
  <2>2. \A p \in Peer : peerVersion[p] = version /\ peerState[p] = worldState
    BY DEF ChannelInit
  <2>3. \A t \in Tx : sim[t].reads = {}
    BY DEF ChannelInit, newErrorResponse
  <2> QED
    BY <2>1, <2>2, <2>3 DEF VersionsCoherent
<1>3. EndorsedFaithful
  BY DEF ChannelInit, EndorsedFaithful
<1> QED
  BY <1>1, <1>2, <1>3 DEF ChannelInv

\* Every step preserves the invariant.
LEMMA NextChannel == ChannelInv /\ [ChannelNext]_channelVars => ChannelInv'
<1> SUFFICES ASSUME ChannelInv, [ChannelNext]_channelVars PROVE ChannelInv'
  OBVIOUS
<1> USE DEF ChannelInv
<1>1. ASSUME NEW t \in Tx, NEW c \in Call, NEW p \in Peer, Endorse(t, c, p)
      PROVE  ChannelInv'
  <2> DEFINE response == Simulate(peerState[p], c)
  <2>a. peerState[p] \in [Key -> Value] /\ peerVersion[p] \in [Key -> Nat]
    BY DEF TypeOK
  <2>b. response \in Response
    BY <2>a, SimulateType
  <2>c. response.reads \subseteq Key
    BY <2>b DEF Response
  <2>d. /\ [k \in response.reads |-> peerVersion[p][k]] \in [response.reads -> Nat]
        /\ [k \in response.reads |-> peerState[p][k]] \in [response.reads -> Value]
    BY <2>a, <2>c
  <2> HIDE DEF response
  <2>e. /\ phase' = [phase EXCEPT ![t] = "endorsed"]
        /\ call' = [call EXCEPT ![t] = c]
        /\ sim' = [sim EXCEPT ![t] = response]
        /\ readVersion' = [readVersion EXCEPT ![t] =
                              [k \in response.reads |-> peerVersion[p][k]]]
        /\ basis' = [basis EXCEPT ![t] =
                        [k \in response.reads |-> peerState[p][k]]]
        /\ UNCHANGED <<chainVars, peerVars, answer>>
        /\ response.ok
    BY <1>1 DEF Endorse, response
  <2>f. \A u \in Tx : /\ sim'[u] = IF u = t THEN response ELSE sim[u]
                      /\ readVersion'[u] = IF u = t
                             THEN [k \in response.reads |-> peerVersion[p][k]]
                             ELSE readVersion[u]
                      /\ basis'[u] = IF u = t
                             THEN [k \in response.reads |-> peerState[p][k]]
                             ELSE basis[u]
                      /\ call'[u] = IF u = t THEN c ELSE call[u]
                      /\ phase'[u] = IF u = t THEN "endorsed" ELSE phase[u]
    BY <2>e DEF TypeOK
  <2>1. TypeOK'
    BY <2>b, <2>d, <2>e, <2>f DEF TypeOK, chainVars, peerVars
  <2>2. VersionsCoherent'
    BY <2>c, <2>e, <2>f DEF VersionsCoherent, chainVars, peerVars
  <2>3. EndorsedFaithful'
    <3> SUFFICES ASSUME NEW u \in Tx, phase'[u] \in {"endorsed", "ordered"}
                 PROVE  /\ sim'[u].ok
                        /\ call'[u] \in Call
                        /\ \A s \in [Key -> Value] :
                              (\A k \in sim'[u].reads : s[k] = basis'[u][k])
                                 => Simulate(s, call'[u]) = sim'[u]
      BY DEF EndorsedFaithful
    <3>1. CASE u # t
      <4>1. /\ sim'[u] = sim[u] /\ call'[u] = call[u] /\ basis'[u] = basis[u]
            /\ phase'[u] = phase[u]
        BY <2>f, <3>1
      <4> QED
        BY <4>1 DEF EndorsedFaithful
    <3>2. CASE u = t
      <4>1. ASSUME NEW s \in [Key -> Value],
                   \A k \in response.reads : s[k] = peerState[p][k]
            PROVE  Simulate(s, c) = response
        BY <2>a, <2>e, <4>1, Locality DEF response
      <4>2. /\ sim'[u] = response /\ call'[u] = c
            /\ basis'[u] = [k \in response.reads |-> peerState[p][k]]
        BY <2>f, <3>2
      <4>3. \A s \in [Key -> Value] :
               (\A k \in response.reads : s[k] = basis'[u][k])
                  => Simulate(s, c) = response
        BY <4>1, <4>2
      <4> QED
        BY <2>e, <4>2, <4>3
    <3> QED
      BY <3>1, <3>2
  <2> QED
    BY <2>1, <2>2, <2>3
<1>2. ASSUME NEW t \in Tx, NEW c \in Call, Refuse(t, c)
      PROVE  ChannelInv'
  <2>1. TypeOK'
    BY <1>2 DEF Refuse, TypeOK, chainVars, peerVars
  <2>2. VersionsCoherent'
    BY <1>2 DEF Refuse, VersionsCoherent, chainVars, peerVars
  <2>3. EndorsedFaithful'
    BY <1>2 DEF Refuse, EndorsedFaithful, TypeOK
  <2> QED
    BY <2>1, <2>2, <2>3
<1>3. ASSUME NEW t \in Tx, Order(t)
      PROVE  ChannelInv'
  <2>1. TypeOK'
    BY <1>3 DEF Order, TypeOK, chainVars, peerVars, rwsetVars
  <2>2. VersionsCoherent'
    BY <1>3 DEF Order, VersionsCoherent, chainVars, peerVars, rwsetVars
  <2>3. EndorsedFaithful'
    BY <1>3 DEF Order, EndorsedFaithful, TypeOK, rwsetVars
  <2> QED
    BY <2>1, <2>2, <2>3
<1>4. ASSUME NEW t \in Tx, Drop(t)
      PROVE  ChannelInv'
  <2>1. TypeOK'
    BY <1>4 DEF Drop, TypeOK, chainVars, peerVars, rwsetVars
  <2>2. VersionsCoherent'
    BY <1>4 DEF Drop, VersionsCoherent, chainVars, peerVars, rwsetVars
  <2>3. EndorsedFaithful'
    BY <1>4 DEF Drop, EndorsedFaithful, TypeOK, rwsetVars
  <2> QED
    BY <2>1, <2>2, <2>3
<1>5. ASSUME NEW t \in Tx, CommitValid(t)
      PROVE  ChannelInv'
  <2>a. sim[t] \in Response /\ sim[t].writes \in WriteSet
    BY DEF TypeOK, Response
  <2>b. PICK K \in SUBSET Key : sim[t].writes \in [K -> Value]
    BY <2>a DEF WriteSet
  <2>c. height \in Nat /\ height' = height + 1
    BY <1>5 DEF CommitValid, TypeOK
  <2>d. \A k \in Key :
          /\ worldState'[k] = IF k \in K THEN sim[t].writes[k] ELSE worldState[k]
          /\ version'[k] = IF k \notin K THEN version[k]
                           ELSE IF sim[t].writes[k] = Empty THEN 0 ELSE height + 1
    BY <1>5, <2>b DEF CommitValid, Apply
  <2>1. TypeOK'
    <3>1. worldState' \in [Key -> Value]
      BY <1>5, <2>a, ApplyType DEF CommitValid, TypeOK
    <3>2. version' \in [Key -> Nat]
      BY <1>5, <2>c DEF CommitValid, TypeOK
    <3> QED
      BY <1>5, <2>c, <3>1, <3>2 DEF CommitValid, TypeOK, peerVars, rwsetVars
  <2>2. VersionsCoherent'
    <3>1. \A k \in Key : /\ version'[k] <= height'
                         /\ version'[k] = 0 <=> worldState'[k] = Empty
      BY <2>b, <2>c, <2>d DEF VersionsCoherent, TypeOK
    <3>2. ASSUME NEW n \in Nat, NEW v, NEW k \in Key,
                 n <= height, n = 0 <=> v = Empty,
                 n = version[k] => v = worldState[k]
          PROVE  n <= height' /\ (n = version'[k] => v = worldState'[k])
      BY <2>b, <2>c, <2>d, <3>1, <3>2 DEF TypeOK
    <3>3. ASSUME NEW p \in Peer, NEW k \in Key
          PROVE  /\ peerVersion'[p][k] <= height'
                 /\ peerVersion'[p][k] = 0 <=> peerState'[p][k] = Empty
                 /\ peerVersion'[p][k] = version'[k] => peerState'[p][k] = worldState'[k]
      <4>1. peerVersion' = peerVersion /\ peerState' = peerState
        BY <1>5 DEF CommitValid, peerVars
      <4>2. peerVersion[p][k] \in Nat
        BY DEF TypeOK
      <4>3. /\ peerVersion[p][k] <= height
            /\ peerVersion[p][k] = 0 <=> peerState[p][k] = Empty
            /\ peerVersion[p][k] = version[k] => peerState[p][k] = worldState[k]
        BY DEF VersionsCoherent
      <4> QED
        BY <3>2, <4>1, <4>2, <4>3
    <3>4. ASSUME NEW u \in Tx, NEW k \in sim'[u].reads
          PROVE  /\ readVersion'[u][k] <= height'
                 /\ readVersion'[u][k] = 0 <=> basis'[u][k] = Empty
                 /\ readVersion'[u][k] = version'[k] => basis'[u][k] = worldState'[k]
      <4>1. readVersion' = readVersion /\ basis' = basis /\ sim' = sim
        BY <1>5 DEF CommitValid, rwsetVars
      <4>2. readVersion[u][k] \in Nat /\ k \in Key
        BY <4>1 DEF TypeOK, Response
      <4>3. /\ readVersion[u][k] <= height
            /\ readVersion[u][k] = 0 <=> basis[u][k] = Empty
            /\ readVersion[u][k] = version[k] => basis[u][k] = worldState[k]
        BY <4>1 DEF VersionsCoherent
      <4> QED
        BY <3>2, <4>1, <4>2, <4>3
    <3> QED
      BY <3>1, <3>3, <3>4 DEF VersionsCoherent
  <2>3. EndorsedFaithful'
    BY <1>5 DEF CommitValid, EndorsedFaithful, TypeOK, rwsetVars
  <2> QED
    BY <2>1, <2>2, <2>3
<1>6. ASSUME NEW t \in Tx, CommitInvalid(t)
      PROVE  ChannelInv'
  <2>1. TypeOK'
    BY <1>6 DEF CommitInvalid, TypeOK, peerVars, rwsetVars
  <2>2. VersionsCoherent'
    <3>1. \A n \in Nat : n <= height => n <= height'
      BY <1>6 DEF CommitInvalid, TypeOK
    <3> QED
      BY <1>6, <3>1 DEF CommitInvalid, VersionsCoherent, TypeOK, peerVars, rwsetVars
  <2>3. EndorsedFaithful'
    BY <1>6 DEF CommitInvalid, EndorsedFaithful, TypeOK, rwsetVars
  <2> QED
    BY <2>1, <2>2, <2>3
<1>7. ASSUME NEW t \in Tx, Notify(t) \/ Timeout(t)
      PROVE  ChannelInv'
  <2>1. TypeOK'
    BY <1>7 DEF Notify, Timeout, TypeOK, chainVars, peerVars, rwsetVars
  <2>2. VersionsCoherent'
    BY <1>7 DEF Notify, Timeout, VersionsCoherent, chainVars, peerVars, rwsetVars
  <2>3. EndorsedFaithful'
    BY <1>7 DEF Notify, Timeout, EndorsedFaithful, rwsetVars
  <2> QED
    BY <2>1, <2>2, <2>3
<1>8. ASSUME NEW p \in Peer, CatchUp(p)
      PROVE  ChannelInv'
  <2>1. TypeOK'
    BY <1>8 DEF CatchUp, TypeOK, chainVars, rwsetVars
  <2>2. VersionsCoherent'
    <3>1. \A q \in Peer :
             /\ peerVersion'[q] = IF q = p THEN version ELSE peerVersion[q]
             /\ peerState'[q] = IF q = p THEN worldState ELSE peerState[q]
      BY <1>8 DEF CatchUp, TypeOK
    <3> QED
      BY <1>8, <3>1 DEF CatchUp, VersionsCoherent, chainVars, rwsetVars
  <2>3. EndorsedFaithful'
    BY <1>8 DEF CatchUp, EndorsedFaithful, rwsetVars
  <2> QED
    BY <2>1, <2>2, <2>3
<1>9. CASE UNCHANGED channelVars
  <2>1. TypeOK'
    BY <1>9 DEF channelVars, TypeOK
  <2>2. VersionsCoherent'
    BY <1>9 DEF channelVars, VersionsCoherent
  <2>3. EndorsedFaithful'
    BY <1>9 DEF channelVars, EndorsedFaithful
  <2> QED
    BY <2>1, <2>2, <2>3
<1> QED
  BY <1>1, <1>2, <1>3, <1>4, <1>5, <1>6, <1>7, <1>8, <1>9 DEF ChannelNext

\* The invariant holds in every reachable state.
LEMMA SpecChannel == ChannelSpec => []ChannelInv
BY InitChannel, NextChannel, PTL DEF ChannelSpec

\* Type correctness: every balance the ledger or a peer ever holds is a Java
\* int, and every endorsed response has a read and a write set of accounts.
THEOREM TypeCorrect == ChannelSpec => []TypeOK
<1>1. ChannelInv => TypeOK
  BY DEF ChannelInv
<1> QED
  BY <1>1, SpecChannel, PTL

\* Versions identify values: a key at the version a peer or a transaction has
\* seen holds the value it has seen, deletions and re-creations included.
THEOREM VersionsAlwaysCoherent == ChannelSpec => []VersionsCoherent
<1>1. ChannelInv => VersionsCoherent
  BY DEF ChannelInv
<1> QED
  BY <1>1, SpecChannel, PTL

\* A transaction that passes the version check has the response that the
\* chaincode gives in the current state.
LEMMA CommitRunsNow ==
    ASSUME ChannelInv, NEW t \in Tx, CommitValid(t)
    PROVE  Simulate(worldState, call[t]) = sim[t] /\ sim[t].ok /\ call[t] \in Call
<1>1. phase[t] = "ordered" /\ ReadsCurrent(t)
  BY DEF CommitValid
<1>2. \A k \in sim[t].reads : worldState[k] = basis[t][k]
  BY <1>1 DEF ReadsCurrent, ChannelInv, VersionsCoherent
<1>3. worldState \in [Key -> Value]
  BY DEF ChannelInv, TypeOK
<1> QED
  BY <1>1, <1>2, <1>3 DEF ChannelInv, EndorsedFaithful

\* Only a valid commit makes a transaction valid, and no step but a valid
\* commit touches the world state.
LEMMA OnlyCommits ==
    ASSUME ChannelInv, [ChannelNext]_channelVars
    PROVE  \/ \E t \in Tx : CommitValid(t)
           \/ /\ worldState' = worldState
              /\ \A t \in Tx : /\ phase'[t] = "valid" <=> phase[t] = "valid"
                               /\ phase[t] = "valid" => /\ call'[t] = call[t]
                                                        /\ sim'[t] = sim[t]
<1> USE DEF ChannelInv, TypeOK, chainVars, peerVars, rwsetVars
<1>1. ASSUME NEW t \in Tx, NEW c \in Call, NEW p \in Peer, Endorse(t, c, p)
      PROVE  /\ worldState' = worldState
             /\ \A u \in Tx : /\ phase'[u] = "valid" <=> phase[u] = "valid"
                              /\ phase[u] = "valid" => /\ call'[u] = call[u]
                                                       /\ sim'[u] = sim[u]
  BY <1>1 DEF Endorse
<1>2. ASSUME NEW t \in Tx, NEW c \in Call, Refuse(t, c)
      PROVE  /\ worldState' = worldState
             /\ \A u \in Tx : /\ phase'[u] = "valid" <=> phase[u] = "valid"
                              /\ phase[u] = "valid" => /\ call'[u] = call[u]
                                                       /\ sim'[u] = sim[u]
  BY <1>2 DEF Refuse
<1>3. ASSUME NEW t \in Tx, \/ Order(t) \/ Drop(t) \/ CommitInvalid(t)
                           \/ Notify(t) \/ Timeout(t)
      PROVE  /\ worldState' = worldState
             /\ call' = call /\ sim' = sim
             /\ \A u \in Tx : phase'[u] = "valid" <=> phase[u] = "valid"
  BY <1>3 DEF Order, Drop, CommitInvalid, Notify, Timeout
<1>4. ASSUME NEW p \in Peer, CatchUp(p)
      PROVE  worldState' = worldState /\ phase' = phase /\ call' = call /\ sim' = sim
  BY <1>4 DEF CatchUp
<1>5. CASE UNCHANGED channelVars
  BY <1>5 DEF channelVars
<1>6. ASSUME ChannelNext, ~\E t \in Tx : CommitValid(t)
      PROVE  /\ worldState' = worldState
             /\ \A t \in Tx : /\ phase'[t] = "valid" <=> phase[t] = "valid"
                              /\ phase[t] = "valid" => /\ call'[t] = call[t]
                                                       /\ sim'[t] = sim[t]
  BY <1>1, <1>2, <1>3, <1>4, <1>6 DEF ChannelNext
<1> QED
  BY <1>5, <1>6

----------------------------------------------------------------------------
(* The refinement *)

\* The calls that have taken effect, as the abstract ledger records them.
Effect(t) == [tx |-> t, call |-> call[t], payload |-> sim[t].payload]
Effects   == {Effect(t) : t \in {u \in Tx : phase[u] = "valid"}}

\* Nothing has taken effect initially.
LEMMA InitAbs == ChannelInit => Abs!Init
<1> SUFFICES ASSUME ChannelInit PROVE Abs!Init
  OBVIOUS
<1>1. {u \in Tx : phase[u] = "valid"} = {}
  BY DEF ChannelInit
<1> QED
  BY <1>1 DEF ChannelInit, Abs!Init

\* A valid commit is the atomic execution of its call, and every other step
\* leaves the abstract ledger as it is.
LEMMA StepAbs ==
    ASSUME ChannelInv, [ChannelNext]_channelVars
    PROVE  [Abs!Next]_(Abs!vars)
<1>1. ASSUME NEW t \in Tx, CommitValid(t)
      PROVE  \E c \in Call : Abs!Execute(t, c)
  <2>1. Simulate(worldState, call[t]) = sim[t] /\ sim[t].ok /\ call[t] \in Call
    BY <1>1, CommitRunsNow
  <2>2. phase[t] = "ordered" /\ phase \in [Tx -> {"new", "refused", "endorsed",
                      "dropped", "ordered", "valid", "invalid"}]
    BY <1>1 DEF CommitValid, ChannelInv, TypeOK
  <2>3. phase' = [phase EXCEPT ![t] = "valid"] /\ call' = call /\ sim' = sim
    BY <1>1 DEF CommitValid, rwsetVars
  <2>4. \A d \in Effects : d.tx # t
    BY <2>2 DEF Effects, Effect
  <2>5. {u \in Tx : phase'[u] = "valid"} = {u \in Tx : phase[u] = "valid"} \cup {t}
    BY <2>2, <2>3
  <2>6. \A u : Effect(u)' = Effect(u)
    BY <2>3 DEF Effect
  <2>7. Effects' = Effects \cup {Effect(t)}
    BY <2>5, <2>3 DEF Effects, Effect
  <2>8. worldState' = Apply(worldState, sim[t].writes)
    BY <1>1 DEF CommitValid
  <2>9. PICK c \in Call : c = call[t]
    BY <2>1
  <2>10. Effect(t) = [tx |-> t, call |-> c, payload |-> Simulate(worldState, c).payload]
    BY <2>1, <2>9 DEF Effect
  <2>11. Abs!Execute(t, c)
    BY <2>1, <2>4, <2>7, <2>8, <2>9, <2>10 DEF Abs!Execute, Effects, Effect
  <2> QED
    BY <2>11
<1>2. ASSUME worldState' = worldState,
             \A t \in Tx : /\ phase'[t] = "valid" <=> phase[t] = "valid"
                           /\ phase[t] = "valid" => /\ call'[t] = call[t]
                                                    /\ sim'[t] = sim[t]
      PROVE  UNCHANGED Abs!vars
  <2>1. Effects' = Effects
    BY <1>2 DEF Effects, Effect
  <2> QED
    BY <1>2, <2>1 DEF Abs!vars, Effects, Effect
<1>3. CASE \E t \in Tx : CommitValid(t)
  <2>1. PICK t \in Tx : CommitValid(t)
    BY <1>3
  <2>2. \E c \in Call : Abs!Execute(t, c)
    BY <1>1, <2>1
  <2>3. Abs!Next
    BY <2>2 DEF Abs!Next
  <2> QED
    BY <2>3
<1>4. CASE ~\E t \in Tx : CommitValid(t)
  BY <1>2, <1>4, OnlyCommits
<1> QED
  BY <1>3, <1>4

\* The optimistic, replicated execution implements the atomic ledger: what
\* clients submit concurrently, simulated on peers that lag behind, takes
\* effect as if each call ran alone against the current state.
THEOREM Implements == ChannelSpec => Serializable
<1>1. ChannelInit => Abs!Init
  BY InitAbs
<1>2. ChannelInv /\ [ChannelNext]_channelVars => [Abs!Next]_(Abs!vars)
  BY StepAbs
<1> QED
  BY <1>1, <1>2, SpecChannel, PTL DEF ChannelSpec, Serializable, Abs!Spec

----------------------------------------------------------------------------
(* No double spending *)

\* What a successful remittance between two accounts does to its sender.
LEMMA RemitDebits ==
    ASSUME NEW s \in [Key -> Value], NEW c \in Call,
           c.entry = "invoke", c.fn = "remit", c.args[1] # c.args[2],
           Simulate(s, c).ok
    PROVE  /\ s[c.args[1]] >= c.args[3]
           /\ Apply(s, Simulate(s, c).writes)[c.args[1]] = s[c.args[1]] - c.args[3]
<1> DEFINE from == c.args[1]
           to   == c.args[2]
           n    == c.args[3]
<1>1. Simulate(s, c) = remit(s, c.args)
  BY DEF Simulate, invoke
<1>2. /\ Len(c.args) = 3
      /\ Parses(n) /\ Parses(s[from]) /\ Parses(s[to])
      /\ n >= 0 /\ s[from] >= n
  BY <1>1 DEF remit, newErrorResponse
<1>3. from \in Key
  BY <1>2, CallAssumption DEF WellFormed
<1>4. Wrap(s[from] - n) = s[from] - n
  BY <1>2, ChainCodeAssumption DEF Wrap, Parses, JavaInt
<1>5. Simulate(s, c).writes = putStringState(
          putStringState(NoWrites, from, s[from] - n), to, Wrap(s[to] + n))
  BY <1>1, <1>2, <1>4 DEF remit, newSuccessResponse
<1>6. /\ from \in DOMAIN Simulate(s, c).writes
      /\ Simulate(s, c).writes[from] = s[from] - n
  BY <1>5 DEF putStringState
<1> QED
  BY <1>2, <1>3, <1>6 DEF Apply

\* Two remittances that spend the same balance never both commit: the one
\* that commits is taken from the balance its sender has at that moment, and
\* the subtraction cannot overflow.
THEOREM SpendsOnce == ChannelSpec => NoDoubleSpend
<1> DEFINE Debited(t) ==
          /\ phase[t] = "ordered" /\ phase'[t] = "valid"
          /\ IsCall(t, "remit") /\ ~SelfRemit(t)
          => LET sender == call[t].args[1]
             IN  /\ worldState[sender] >= call[t].args[3]
                 /\ worldState'[sender] = worldState[sender] - call[t].args[3]
<1>1. ASSUME ChannelInv, [ChannelNext]_channelVars, NEW t \in Tx
      PROVE  Debited(t)
  <2> SUFFICES ASSUME phase[t] = "ordered", phase'[t] = "valid",
                      IsCall(t, "remit"), ~SelfRemit(t)
               PROVE  /\ worldState[call[t].args[1]] >= call[t].args[3]
                      /\ worldState'[call[t].args[1]]
                            = worldState[call[t].args[1]] - call[t].args[3]
    OBVIOUS
  <2>1. PICK u \in Tx : CommitValid(u)
    BY <1>1, OnlyCommits
  <2>2. u = t
    BY <1>1, <2>1 DEF CommitValid, ChannelInv, TypeOK
  <2>3. /\ Simulate(worldState, call[t]) = sim[t] /\ sim[t].ok
        /\ call[t] \in Call
    BY <1>1, <2>1, <2>2, CommitRunsNow
  <2>4. worldState' = Apply(worldState, sim[t].writes)
    BY <2>1, <2>2 DEF CommitValid
  <2>5. worldState \in [Key -> Value]
    BY <1>1 DEF ChannelInv, TypeOK
  <2>6. /\ call[t].entry = "invoke" /\ call[t].fn = "remit"
        /\ call[t].args[1] # call[t].args[2]
    BY DEF IsCall, SelfRemit
  <2> QED
    BY <2>3, <2>4, <2>5, <2>6, RemitDebits
<1>2. ChannelInv /\ [ChannelNext]_channelVars => [\A t \in Tx : Debited(t)]_channelVars
  BY <1>1
<1> QED
  BY <1>2, SpecChannel, PTL DEF ChannelSpec, NoDoubleSpend

----------------------------------------------------------------------------
(* Accounts are opened once *)

\* Which calls make an account appear or disappear.
Opens(c, k)  == c.entry = "invoke" /\ c.fn = "create_account" /\ c.args[1] = k
Closes(c, k) == c.entry = "invoke" /\ c.fn = "delete_account" /\ c.args[1] = k

\* A put of a Java int leaves no key absent that was present.
LEMMA PutKeeps ==
    ASSUME NEW s \in [Key -> Value], NEW w \in WriteSet, NEW k \in Key,
           \A j \in DOMAIN w : w[j] \in JavaInt,
           Apply(s, w)[k] = Empty
    PROVE  s[k] = Empty
<1>1. Empty \notin JavaInt
  BY ChainCodeAssumption DEF JavaInt
<1> QED
  BY <1>1 DEF Apply

\* An account is created only where there is none, and is there afterwards;
\* only delete_account makes an account disappear.
LEMMA Presence ==
    ASSUME NEW s \in [Key -> Value], NEW c \in Call, NEW k \in Key,
           Simulate(s, c).ok
    PROVE  /\ Opens(c, k) => /\ s[k] = Empty
                             /\ Apply(s, Simulate(s, c).writes)[k] # Empty
           /\ ~Closes(c, k) /\ Apply(s, Simulate(s, c).writes)[k] = Empty
                  => s[k] = Empty
<1> DEFINE w == Simulate(s, c).writes
<1>a. c.entry \in {"init", "invoke"} /\ WellFormed(c)
  BY CallAssumption
<1>b. w \in WriteSet
  BY SimulateType DEF Response
<1>c. Empty \notin JavaInt /\ 0 \in JavaInt
  BY ChainCodeAssumption DEF JavaInt
<1> USE DEF newSuccessResponse, newErrorResponse
<1>1. CASE c.entry = "init"
  <2>1. \A j \in DOMAIN w : w[j] \in JavaInt
    BY <1>1, <1>c DEF Simulate, init, putStringState, NoWrites
  <2> QED
    BY <1>1, <1>b, <2>1, PutKeeps DEF Opens
<1>2. CASE c.entry = "invoke" /\ c.fn = "create_account"
  <2>1. Simulate(s, c) = createAccount(s, c.args)
    BY <1>2 DEF Simulate, invoke
  <2>2. /\ Len(c.args) = 2 /\ Parses(c.args[2]) /\ s[c.args[1]] = Empty
        /\ w = putStringState(NoWrites, c.args[1], c.args[2])
    BY <2>1 DEF createAccount
  <2>3. /\ \A j \in DOMAIN w : w[j] \in JavaInt
        /\ c.args[1] \in DOMAIN w
    BY <2>2 DEF putStringState, NoWrites, Parses
  <2>4. Opens(c, k) => s[k] = Empty /\ Apply(s, w)[k] # Empty
    BY <1>c, <2>2, <2>3 DEF Opens, Apply
  <2> QED
    BY <1>b, <2>3, <2>4, PutKeeps
<1>3. CASE c.entry = "invoke" /\ c.fn = "remit"
  <2>1. Simulate(s, c) = remit(s, c.args)
    BY <1>3 DEF Simulate, invoke
  <2> DEFINE from == s[c.args[1]]
             to   == s[c.args[2]]
             n    == c.args[3]
  <2>2. /\ Parses(n) /\ Parses(from) /\ Parses(to)
        /\ w = putStringState(putStringState(NoWrites, c.args[1], Wrap(from - n)),
                              c.args[2], Wrap(to + n))
    BY <2>1 DEF remit
  <2>3. Wrap(from - n) \in JavaInt /\ Wrap(to + n) \in JavaInt
    BY <2>2, WrapType DEF Parses
  <2>4. \A j \in DOMAIN w : w[j] \in JavaInt
    BY <2>2, <2>3 DEF putStringState, NoWrites
  <2> QED
    BY <1>3, <1>b, <2>4, PutKeeps DEF Opens
<1>4. CASE c.entry = "invoke" /\ c.fn = "balance_check"
  <2>1. Simulate(s, c) = balanceCheck(s, c.args)
    BY <1>4 DEF Simulate, invoke
  <2>2. w = NoWrites
    BY <2>1 DEF balanceCheck
  <2> QED
    BY <1>4, <2>2 DEF Opens, Apply, NoWrites
<1>5. CASE c.entry = "invoke" /\ c.fn = "money_issuance"
  <2>1. Simulate(s, c) = moneyIssuance(s, c.args)
    BY <1>5 DEF Simulate, invoke
  <2>2. /\ Parses(c.args[1]) /\ Parses(s[Admin])
        /\ w = putStringState(NoWrites, Admin, Wrap(c.args[1] + s[Admin]))
    BY <2>1 DEF moneyIssuance
  <2>3. \A j \in DOMAIN w : w[j] \in JavaInt
    BY <2>2, WrapType DEF putStringState, NoWrites, Parses
  <2> QED
    BY <1>5, <1>b, <2>3, PutKeeps DEF Opens
<1>6. CASE c.entry = "invoke" /\ c.fn = "delete_account"
  <2>1. Simulate(s, c) = deleteAccount(c.args)
    BY <1>6 DEF Simulate, invoke
  <2>2. w = putStringState(NoWrites, c.args[1], Empty)
    BY <2>1 DEF deleteAccount, delState
  <2> QED
    BY <1>6, <2>2 DEF Opens, Closes, Apply, putStringState, NoWrites
<1>7. CASE c.entry = "invoke" /\ c.fn \notin {"create_account", "remit",
                "balance_check", "money_issuance", "delete_account"}
  BY <1>7 DEF Simulate, invoke
<1> QED
  BY <1>a, <1>1, <1>2, <1>3, <1>4, <1>5, <1>6, <1>7

\* The strengthening: an absent account stands for a creation that may still
\* come, so it counts as one that has been used up.
Absent(k) == IF worldState[k] = Empty THEN 1 ELSE 0

Openings(k) == ValidCalls("create_account", k)
Closed(k) == ValidCalls("delete_account", k)

OpenedInv ==
    /\ IsFiniteSet(Valid)
    /\ \A k \in Key : Cardinality(Openings(k)) + Absent(k)
                          <= Cardinality(Closed(k)) + (IF k = Admin THEN 0 ELSE 1)

\* The calls counted are finitely many, so they can be counted.
LEMMA Countable ==
    ASSUME IsFiniteSet(Valid), NEW fn, NEW k
    PROVE  IsFiniteSet(ValidCalls(fn, k)) /\ Cardinality(ValidCalls(fn, k)) \in Nat
<1>1. ValidCalls(fn, k) \in SUBSET Valid
  BY DEF ValidCalls
<1>2. IsFiniteSet(ValidCalls(fn, k))
  BY <1>1, FS_Subset
<1> QED
  BY <1>2, FS_CardinalityType

\* Nothing has been opened or closed initially, and admin is there.
LEMMA InitOpened == ChannelInit => OpenedInv
<1> SUFFICES ASSUME ChannelInit PROVE OpenedInv
  OBVIOUS
<1>1. Valid = {}
  BY DEF ChannelInit, Valid
<1>2. \A k \in Key : Openings(k) = {} /\ Closed(k) = {}
  BY <1>1 DEF Openings, Closed, ValidCalls
<1>3. \A k \in Key : Absent(k) = IF k = Admin THEN 0 ELSE 1
  <2> SUFFICES ASSUME NEW k \in Key
               PROVE  Absent(k) = IF k = Admin THEN 0 ELSE 1
    OBVIOUS
  <2>1. Empty # 0
    BY ChainCodeAssumption
  <2>2. worldState[k] = IF k = Admin THEN 0 ELSE Empty
    BY DeployedState DEF ChannelInit
  <2> QED
    BY <2>1, <2>2 DEF Absent
<1>4. IsFiniteSet({}) /\ Cardinality({}) = 0
  BY FS_EmptySet
<1>5. ASSUME NEW k \in Key
      PROVE  Cardinality(Openings(k)) + Absent(k)
                 <= Cardinality(Closed(k)) + (IF k = Admin THEN 0 ELSE 1)
  <2>1. Cardinality(Openings(k)) = 0 /\ Cardinality(Closed(k)) = 0
    BY <1>2, <1>4
  <2> QED
    BY <1>3, <2>1
<1> QED
  BY <1>1, <1>4, <1>5 DEF OpenedInv

\* Every step preserves the strengthening.  A call of another function is
\* counted nowhere; a creation finds the account absent and leaves it there;
\* a deletion pays for the absence it may cause.
LEMMA NextOpened == ChannelInv /\ OpenedInv /\ [ChannelNext]_channelVars => OpenedInv'
<1> SUFFICES ASSUME ChannelInv, OpenedInv, [ChannelNext]_channelVars PROVE OpenedInv'
  OBVIOUS
<1>1. ASSUME NEW t \in Tx, CommitValid(t)
      PROVE  OpenedInv'
  <2>1. /\ Simulate(worldState, call[t]) = sim[t] /\ sim[t].ok
        /\ call[t] \in Call
    BY <1>1, CommitRunsNow
  <2>2. /\ worldState' = Apply(worldState, sim[t].writes)
        /\ call' = call
        /\ phase' = [phase EXCEPT ![t] = "valid"] /\ phase[t] = "ordered"
    BY <1>1 DEF CommitValid, rwsetVars
  <2>3. worldState \in [Key -> Value] /\ DOMAIN phase = Tx
    BY DEF ChannelInv, TypeOK
  <2>4. Valid' = Valid \cup {t} /\ t \notin Valid
    BY <2>2, <2>3 DEF Valid
  <2>5. IsFiniteSet(Valid')
    BY <2>4, FS_AddElement DEF OpenedInv
  <2>6. ASSUME NEW k \in Key
        PROVE  Cardinality(Openings(k)') + Absent(k)'
                   <= Cardinality(Closed(k)') + (IF k = Admin THEN 0 ELSE 1)
    <3> DEFINE c == call[t]
    <3>1. /\ Openings(k)' = IF Opens(c, k) THEN Openings(k) \cup {t} ELSE Openings(k)
          /\ Closed(k)' = IF Closes(c, k) THEN Closed(k) \cup {t} ELSE Closed(k)
      BY <2>2, <2>4 DEF Openings, Closed, ValidCalls, IsCall, Opens, Closes
    <3>2. t \notin Openings(k) /\ t \notin Closed(k)
      BY <2>4 DEF Openings, Closed, ValidCalls
    <3>3. /\ IsFiniteSet(Openings(k)) /\ Cardinality(Openings(k)) \in Nat
          /\ IsFiniteSet(Closed(k)) /\ Cardinality(Closed(k)) \in Nat
      BY Countable DEF OpenedInv, Openings, Closed
    <3>4. /\ Cardinality(Openings(k) \cup {t}) = Cardinality(Openings(k)) + 1
          /\ Cardinality(Closed(k) \cup {t}) = Cardinality(Closed(k)) + 1
      BY <3>2, <3>3, FS_AddElement
    <3>5. /\ Cardinality(Openings(k)') = Cardinality(Openings(k))
                 + (IF Opens(c, k) THEN 1 ELSE 0)
          /\ Cardinality(Closed(k)') = Cardinality(Closed(k))
                 + (IF Closes(c, k) THEN 1 ELSE 0)
      BY <3>1, <3>3, <3>4
    <3>6. /\ Opens(c, k) => Absent(k) = 1 /\ Absent(k)' = 0
          /\ ~Closes(c, k) /\ Absent(k)' = 1 => Absent(k) = 1
      BY <2>1, <2>2, <2>3, Presence DEF Absent
    <3>7. ~(Opens(c, k) /\ Closes(c, k))
      BY DEF Opens, Closes
    <3>8. Absent(k) \in {0, 1} /\ Absent(k)' \in {0, 1}
      BY DEF Absent
    <3>9. Cardinality(Openings(k)) + Absent(k)
              <= Cardinality(Closed(k)) + (IF k = Admin THEN 0 ELSE 1)
      BY DEF OpenedInv
    <3> DEFINE opened  == Cardinality(Openings(k))
               closed  == Cardinality(Closed(k))
               absent  == Absent(k)
               absent2 == Absent(k)'
               opens   == Opens(c, k)
               closes  == Closes(c, k)
    <3>10. opened \in Nat /\ closed \in Nat
      BY <3>3
    <3> HIDE DEF opened, closed, absent, absent2, opens, closes
    <3>11. opened + (IF opens THEN 1 ELSE 0) + absent2
               <= closed + (IF closes THEN 1 ELSE 0) + (IF k = Admin THEN 0 ELSE 1)
      <4>1. /\ opens => absent = 1 /\ absent2 = 0
            /\ ~closes /\ absent2 = 1 => absent = 1
            /\ ~(opens /\ closes)
            /\ absent \in {0, 1} /\ absent2 \in {0, 1}
            /\ opened + absent <= closed + (IF k = Admin THEN 0 ELSE 1)
        BY <3>6, <3>7, <3>8, <3>9 DEF opened, closed, absent, absent2, opens, closes
      <4>2. CASE opens
        BY <4>1, <4>2, <3>10
      <4>3. CASE ~opens /\ closes
        BY <4>1, <4>3, <3>10
      <4>4. CASE ~opens /\ ~closes
        BY <4>1, <4>4, <3>10
      <4> QED
        BY <4>2, <4>3, <4>4
    <3> QED
      BY <3>5, <3>11 DEF opened, closed, absent, absent2, opens, closes
  <2> QED
    BY <2>5, <2>6 DEF OpenedInv
<1>2. CASE ~\E t \in Tx : CommitValid(t)
  <2>1. /\ worldState' = worldState
        /\ \A t \in Tx : /\ phase'[t] = "valid" <=> phase[t] = "valid"
                         /\ phase[t] = "valid" => call'[t] = call[t]
    BY <1>2, OnlyCommits
  <2>2. Valid' = Valid
    BY <2>1 DEF Valid
  <2>3. \A k \in Key : Openings(k)' = Openings(k) /\ Closed(k)' = Closed(k)
    BY <2>1, <2>2 DEF Openings, Closed, ValidCalls, IsCall, Valid
  <2>4. \A k \in Key : Absent(k)' = Absent(k)
    BY <2>1 DEF Absent
  <2> QED
    BY <2>2, <2>3, <2>4 DEF OpenedInv
<1> QED
  BY <1>1, <1>2

\* However often clients retry create_account, and however their calls
\* interleave on peers that lag behind, an account is opened at most once
\* more than it has been deleted.
THEOREM NeverOpenedTwice == ChannelSpec => []OpenedOnce
<1>1. OpenedInv => OpenedOnce
  <2> SUFFICES ASSUME OpenedInv, NEW k \in Key
               PROVE  Cardinality(Openings(k))
                          <= Cardinality(Closed(k)) + (IF k = Admin THEN 0 ELSE 1)
    BY DEF OpenedOnce, Openings, Closed
  <2>1. Cardinality(Openings(k)) \in Nat /\ Cardinality(Closed(k)) \in Nat
    BY Countable DEF OpenedInv, Openings, Closed
  <2>2. Absent(k) \in {0, 1}
    BY DEF Absent
  <2>3. Cardinality(Openings(k)) + Absent(k)
            <= Cardinality(Closed(k)) + (IF k = Admin THEN 0 ELSE 1)
    BY DEF OpenedInv
  <2> QED
    BY <2>1, <2>2, <2>3
<1> QED
  BY <1>1, InitOpened, NextOpened, SpecChannel, PTL DEF ChannelSpec

----------------------------------------------------------------------------
(* Sums over finite sets, by the least counterexample: a statement about   *)
(* every subset that fails somewhere fails at a minimal subset.            *)

\* The recursion behind SumFunction, one step of it, and its solution.
Pick(s) == CHOOSE x \in s : TRUE

SumStep(f, g, s) == IF s = {} THEN 0 ELSE f[Pick(s)] + g[s \ {Pick(s)}]

Sums(f, g, S) == g = [s \in SUBSET S |-> SumStep(f, g, s)]

Total(f, S) == (CHOOSE g : Sums(f, g, S))[S]

\* SumFunction is the solution at the whole domain.
LEMMA SumIsTotal ==
    ASSUME NEW f
    PROVE  SumFunction(f) = Total(f, DOMAIN f)
BY Zenon DEF SumFunction, SumFunctionOnSet, FoldFunctionOnSet, MapThenFoldSet,
             Total, Sums, SumStep, Pick

\* Every nonempty set of subsets of a finite set has a minimal element, which
\* is what the inductions below rest on.
LEMMA MinimalSet ==
    ASSUME NEW S, IsFiniteSet(S), NEW T \in SUBSET (SUBSET S), T # {}
    PROVE  \E x \in T : \A y \in T : y \subseteq x => y = x
<1>1. T \subseteq FiniteSubsetsOf(S)
  BY FS_Subset DEF FiniteSubsetsOf
<1>2. PICK x \in T : \A y \in T : ~(<<y, x>> \in StrictSubsetOrdering(S))
  BY <1>1, FS_StrictSubsetOrderingWellFounded, WFMin
<1>3. \A y \in T : y \subseteq x => y = x
  BY <1>2 DEF StrictSubsetOrdering
<1> QED
  BY <1>3

\* The recursion has a solution, and every solution on a larger set agrees
\* with it.
LEMMA TotalDefined ==
    ASSUME NEW S, IsFiniteSet(S), NEW f
    PROVE  \A s \in SUBSET S :
              /\ \E g : Sums(f, g, s)
              /\ \A U \in SUBSET S : \A h : s \subseteq U /\ Sums(f, h, U)
                     => h[s] = Total(f, s)
<1> DEFINE Solved(s) == \E g : Sums(f, g, s)
           Unique(s) == \A U \in SUBSET S : \A h :
                           s \subseteq U /\ Sums(f, h, U) => h[s] = Total(f, s)
           Wrong     == {s \in SUBSET S : ~(Solved(s) /\ Unique(s))}
           G(s)      == CHOOSE g : Sums(f, g, s)
<1> SUFFICES ASSUME Wrong # {} PROVE FALSE
  OBVIOUS
<1>1. PICK s \in Wrong : \A y \in Wrong : y \subseteq s => y = s
  <2>1. Wrong \in SUBSET (SUBSET S)
    OBVIOUS
  <2> HIDE DEF Wrong
  <2> QED
    BY <2>1, MinimalSet
<1>2. s \in SUBSET S
  OBVIOUS
<1>3. \A t \in SUBSET s : t # s => Solved(t) /\ Unique(t)
  BY <1>1, <1>2
<1>4. \A t \in SUBSET s : t # {} => Pick(t) \in t /\ t \ {Pick(t)} # t
  BY DEF Pick
<1>5. \A t : Solved(t) => Sums(f, G(t), t)
  BY DEF Total
<1>6. ASSUME NEW U \in SUBSET S, NEW h, s \subseteq U, Sums(f, h, U)
      PROVE  h[s] = IF s = {} THEN 0 ELSE f[Pick(s)] + Total(f, s \ {Pick(s)})
  <2>1. h[s] = SumStep(f, h, s)
    BY <1>6 DEF Sums
  <2>2. CASE s # {}
    <3>1. /\ s \ {Pick(s)} \in SUBSET s /\ s \ {Pick(s)} # s
          /\ s \ {Pick(s)} \subseteq U
      BY <1>4, <1>6, <2>2
    <3>2. h[s \ {Pick(s)}] = Total(f, s \ {Pick(s)})
      BY <1>3, <1>6, <3>1
    <3> QED
      BY <2>1, <2>2, <3>2 DEF SumStep
  <2> QED
    BY <2>1, <2>2 DEF SumStep
<1>7. Solved(s)
  <2> DEFINE g == [t \in SUBSET s |->
                      IF t = {} THEN 0 ELSE f[Pick(t)] + Total(f, t \ {Pick(t)})]
  <2>1. ASSUME NEW t \in SUBSET s, t # s
        PROVE  g[t] = Total(f, t)
    <3>1. Sums(f, G(t), t) /\ Total(f, t) = G(t)[t]
      BY <1>3, <1>5, <2>1 DEF Total
    <3>2. G(t)[t] = SumStep(f, G(t), t)
      BY <3>1 DEF Sums
    <3>3. CASE t # {}
      <4>1. /\ t \ {Pick(t)} \in SUBSET s /\ t \ {Pick(t)} # s
            /\ t \ {Pick(t)} \subseteq t /\ t \in SUBSET S
        BY <1>2, <1>4, <2>1, <3>3
      <4>2. G(t)[t \ {Pick(t)}] = Total(f, t \ {Pick(t)})
        <5> HIDE DEF G
        <5> QED
          BY <1>3, <3>1, <4>1
      <4> QED
        BY <3>1, <3>2, <3>3, <4>2 DEF SumStep
    <3> QED
      BY <3>1, <3>2, <3>3 DEF SumStep
  <2>2. ASSUME NEW t \in SUBSET s
        PROVE  g[t] = SumStep(f, g, t)
    <3>1. CASE t # {}
      <4>1. t \ {Pick(t)} \in SUBSET s /\ t \ {Pick(t)} # s
        BY <1>4, <3>1
      <4>2. g[t \ {Pick(t)}] = Total(f, t \ {Pick(t)})
        BY <2>1, <4>1
      <4> QED
        BY <3>1, <4>2 DEF SumStep
    <3> QED
      BY <3>1 DEF SumStep
  <2>3. g = [t \in SUBSET s |-> g[t]]
    OBVIOUS
  <2> HIDE DEF g
  <2>4. g = [t \in SUBSET s |-> SumStep(f, g, t)]
    BY <2>2, <2>3
  <2> QED
    BY <2>4 DEF Sums
<1>8. Total(f, s) = IF s = {} THEN 0 ELSE f[Pick(s)] + Total(f, s \ {Pick(s)})
  <2>1. Sums(f, G(s), s) /\ Total(f, s) = G(s)[s]
    BY <1>5, <1>7 DEF Total
  <2> QED
    BY <1>2, <1>6, <2>1
<1>9. Unique(s)
  BY <1>6, <1>8
<1> QED
  BY <1>7, <1>9

\* The recursion as equations.
LEMMA TotalStep ==
    ASSUME NEW S, IsFiniteSet(S), NEW f
    PROVE  /\ Total(f, {}) = 0
           /\ S # {} => /\ Pick(S) \in S
                        /\ Total(f, S) = f[Pick(S)] + Total(f, S \ {Pick(S)})
<1> DEFINE G == CHOOSE g : Sums(f, g, S)
<1>1. Sums(f, G, S)
  <2>1. \E g : Sums(f, g, S)
    BY TotalDefined
  <2> QED
    BY <2>1
<1> HIDE DEF G
<1>2. \A s \in SUBSET S : G[s] = Total(f, s) /\ G[s] = SumStep(f, G, s)
  <2>1. \A s \in SUBSET S : \A U \in SUBSET S : \A h :
            s \subseteq U /\ Sums(f, h, U) => h[s] = Total(f, s)
    BY TotalDefined
  <2>2. \A s \in SUBSET S : G[s] = Total(f, s)
    BY <1>1, <2>1
  <2>3. \A s \in SUBSET S : G[s] = SumStep(f, G, s)
    BY <1>1 DEF Sums
  <2> QED
    BY <2>2, <2>3
<1>3. Total(f, {}) = 0
  BY <1>2 DEF SumStep
<1>4. ASSUME S # {}
      PROVE  /\ Pick(S) \in S
             /\ Total(f, S) = f[Pick(S)] + Total(f, S \ {Pick(S)})
  <2>1. Pick(S) \in S
    BY <1>4 DEF Pick
  <2>2. G[S] = f[Pick(S)] + G[S \ {Pick(S)}] /\ S \ {Pick(S)} \in SUBSET S
    BY <1>2, <1>4 DEF SumStep
  <2> QED
    BY <1>2, <2>1, <2>2
<1> QED
  BY <1>3, <1>4

\* A sum of integers is an integer, and depends on its terms only.
LEMMA TotalType ==
    ASSUME NEW S, IsFiniteSet(S), NEW f, NEW g,
           \A x \in S : f[x] \in Int /\ g[x] = f[x]
    PROVE  Total(f, S) \in Int /\ Total(g, S) = Total(f, S)
<1> DEFINE Right(s) == Total(f, s) \in Int /\ Total(g, s) = Total(f, s)
           Wrong    == {s \in SUBSET S : ~Right(s)}
<1> SUFFICES ASSUME Wrong # {} PROVE FALSE
  OBVIOUS
<1>1. PICK s \in Wrong : \A y \in Wrong : y \subseteq s => y = s
  <2>1. Wrong \in SUBSET (SUBSET S)
    OBVIOUS
  <2> HIDE DEF Wrong
  <2> QED
    BY <2>1, MinimalSet
<1>2. s \in SUBSET S /\ IsFiniteSet(s)
  BY FS_Subset
<1>3. CASE s = {}
  <2>1. Total(f, {}) = 0 /\ Total(g, {}) = 0
    BY TotalStep, FS_EmptySet
  <2> QED
    BY <1>1, <1>3, <2>1
<1>4. CASE s # {}
  <2>1. /\ Pick(s) \in s
        /\ Total(f, s) = f[Pick(s)] + Total(f, s \ {Pick(s)})
        /\ Total(g, s) = g[Pick(s)] + Total(g, s \ {Pick(s)})
    BY <1>2, <1>4, TotalStep
  <2>2. Right(s \ {Pick(s)})
    <3>1. s \ {Pick(s)} \in SUBSET S /\ s \ {Pick(s)} \subseteq s /\ s \ {Pick(s)} # s
      BY <1>2, <2>1
    <3> HIDE DEF Right
    <3> QED
      BY <1>1, <3>1
  <2>3. f[Pick(s)] \in Int /\ g[Pick(s)] = f[Pick(s)]
    BY <1>2, <2>1
  <2>4. Right(s)
    BY <2>1, <2>2, <2>3
  <2> HIDE DEF Right
  <2> QED
    BY <1>1, <2>4
<1> QED
  BY <1>3, <1>4

\* Any term can be split off, not only the one the recursion picks.
LEMMA TotalSplit ==
    ASSUME NEW S, IsFiniteSet(S), NEW f, \A x \in S : f[x] \in Int, NEW z \in S
    PROVE  Total(f, S) = f[z] + Total(f, S \ {z})
<1> DEFINE Right(s) == \A y \in s : Total(f, s) = f[y] + Total(f, s \ {y})
           Wrong    == {s \in SUBSET S : ~Right(s)}
<1> SUFFICES ASSUME Wrong # {} PROVE FALSE
  OBVIOUS
<1>1. PICK s \in Wrong : \A y \in Wrong : y \subseteq s => y = s
  <2>1. Wrong \in SUBSET (SUBSET S)
    OBVIOUS
  <2> HIDE DEF Wrong
  <2> QED
    BY <2>1, MinimalSet
<1>2. s \in SUBSET S /\ ~Right(s)
  OBVIOUS
<1>3. PICK y \in s : Total(f, s) # f[y] + Total(f, s \ {y})
  BY <1>2
<1> DEFINE x == Pick(s)
<1>4. x \in s /\ Total(f, s) = f[x] + Total(f, s \ {x})
  <2>1. IsFiniteSet(s) /\ s # {}
    BY <1>2, <1>3, FS_Subset
  <2> QED
    BY <2>1, TotalStep
<1> HIDE DEF x
<1>5. x # y
  BY <1>3, <1>4
<1>6. Right(s \ {x}) /\ Right(s \ {y})
  <2>1. /\ s \ {x} \in SUBSET S /\ s \ {x} \subseteq s /\ s \ {x} # s
        /\ s \ {y} \in SUBSET S /\ s \ {y} \subseteq s /\ s \ {y} # s
    BY <1>2, <1>4
  <2> HIDE DEF Right
  <2> QED
    BY <1>1, <2>1
<1>7. /\ Total(f, s \ {x}) = f[y] + Total(f, (s \ {x}) \ {y})
      /\ Total(f, s \ {y}) = f[x] + Total(f, (s \ {y}) \ {x})
  BY <1>3, <1>4, <1>5, <1>6
<1>8. (s \ {x}) \ {y} = (s \ {y}) \ {x}
  OBVIOUS
<1>9. f[x] \in Int /\ f[y] \in Int
  BY <1>2, <1>4
<1>10. Total(f, (s \ {x}) \ {y}) \in Int
  <2>1. (s \ {x}) \ {y} \in SUBSET S
    BY <1>2
  <2>2. IsFiniteSet((s \ {x}) \ {y}) /\ \A w \in (s \ {x}) \ {y} : f[w] \in Int
    BY <2>1, FS_Subset
  <2> QED
    BY <2>2, TotalType
<1> DEFINE rest == Total(f, (s \ {x}) \ {y})
<1>11. Total(f, s) = f[x] + (f[y] + rest) /\ Total(f, s \ {y}) = f[x] + rest
  <2>1. Total(f, s \ {x}) = f[y] + rest
    BY <1>7
  <2>2. Total(f, s \ {y}) = f[x] + rest
    BY <1>7, <1>8, Zenon
  <2> HIDE DEF rest
  <2> QED
    BY <1>4, <2>1, <2>2, Zenon
<1> HIDE DEF rest
<1>12. f[x] + (f[y] + rest) = f[y] + (f[x] + rest)
  BY <1>9, <1>10 DEF rest
<1> QED
  BY <1>3, <1>11, <1>12, Zenon

\* A sum of integers over a finite set is an integer.
LEMMA SumType ==
    ASSUME NEW S, IsFiniteSet(S), NEW f \in [S -> Int]
    PROVE  SumFunction(f) \in Int
BY SumIsTotal, TotalType

\* An empty sum is 0.
LEMMA SumEmpty ==
    ASSUME NEW f, DOMAIN f = {}
    PROVE  SumFunction(f) = 0
BY SumIsTotal, TotalStep, FS_EmptySet

\* A sum of zeros is 0.
LEMMA SumZero ==
    ASSUME NEW S, IsFiniteSet(S), NEW f \in [S -> Int], \A x \in S : f[x] = 0
    PROVE  SumFunction(f) = 0
<1> DEFINE Wrong == {s \in SUBSET S : Total(f, s) # 0}
<1>1. CASE Wrong = {}
  BY <1>1, SumIsTotal
<1>2. CASE Wrong # {}
  <2>1. PICK s \in Wrong : \A y \in Wrong : y \subseteq s => y = s
    <3>1. Wrong \in SUBSET (SUBSET S)
      OBVIOUS
    <3> HIDE DEF Wrong
    <3> QED
      BY <1>2, <3>1, MinimalSet
  <2>2. s \in SUBSET S /\ Total(f, s) # 0 /\ IsFiniteSet(s)
    BY FS_Subset
  <2>3. s # {}
    BY <2>2, TotalStep
  <2>4. Pick(s) \in s /\ Total(f, s) = f[Pick(s)] + Total(f, s \ {Pick(s)})
    BY <2>2, <2>3, TotalStep
  <2>5. Total(f, s \ {Pick(s)}) = 0
    BY <2>1, <2>2, <2>4
  <2> QED
    BY <2>2, <2>4, <2>5
<1> QED
  BY <1>1, <1>2

\* A sum over a set with one more element has one more term.
LEMMA SumAdd ==
    ASSUME NEW S, IsFiniteSet(S), NEW z, z \notin S,
           NEW f \in [S -> Int], NEW g \in [S \cup {z} -> Int],
           \A x \in S : g[x] = f[x]
    PROVE  SumFunction(g) = SumFunction(f) + g[z]
<1>1. IsFiniteSet(S \cup {z}) /\ (S \cup {z}) \ {z} = S
  BY FS_AddElement
<1>2. Total(g, S \cup {z}) = g[z] + Total(g, S)
  BY <1>1, TotalSplit
<1>3. Total(g, S) = Total(f, S) /\ Total(f, S) \in Int
  BY TotalType
<1>4. DOMAIN f = S /\ DOMAIN g = S \cup {z} /\ g[z] \in Int
  OBVIOUS
<1> QED
  BY <1>2, <1>3, <1>4, SumIsTotal

\* Changing one term changes the sum by as much.
LEMMA SumChange ==
    ASSUME NEW S, IsFiniteSet(S), NEW z \in S,
           NEW f \in [S -> Int], NEW g \in [S -> Int],
           \A x \in S \ {z} : g[x] = f[x]
    PROVE  SumFunction(g) = SumFunction(f) + g[z] - f[z]
<1>1. IsFiniteSet(S \ {z})
  BY FS_RemoveElement
<1>2. /\ Total(g, S) = g[z] + Total(g, S \ {z})
      /\ Total(f, S) = f[z] + Total(f, S \ {z})
  BY TotalSplit
<1>3. Total(g, S \ {z}) = Total(f, S \ {z}) /\ Total(f, S \ {z}) \in Int
  BY <1>1, TotalType
<1>4. DOMAIN f = S /\ DOMAIN g = S /\ g[z] \in Int /\ f[z] \in Int
  OBVIOUS
<1> QED
  BY <1>2, <1>3, <1>4, SumIsTotal

----------------------------------------------------------------------------
(* Money is neither created nor destroyed *)

\* The period of an int, and what a balance counts for.
Period == 2 * (MaxInt + 1)

Balances(s) == [k \in Key |-> IF s[k] = Empty THEN 0 ELSE s[k]]

\* Wrapping around adds or removes one period, or nothing.
LEMMA WrapPeriod ==
    ASSUME NEW a \in JavaInt, NEW b \in JavaInt
    PROVE  /\ Period \in Nat \ {0}
           /\ \E d \in {-Period, 0, Period} : Wrap(a + b) = a + b + d
BY ChainCodeAssumption DEF Wrap, JavaInt, Period

\* A multiple of the period stays one.
LEMMA PeriodShift ==
    ASSUME NEW P \in Nat \ {0}, NEW a \in Int, a % P = 0, NEW d \in {-P, 0, P}
    PROVE  (a + d) % P = 0
<1>1. a = P * (a \div P) /\ a \div P \in Int
  OBVIOUS
<1> DEFINE q == a \div P
<1>2. /\ a + P = P * (q + 1)
      /\ a + (-P) = P * (q - 1)
      /\ a + 0 = P * q
  <2> HIDE DEF q
  <2>1. a = P * q /\ q \in Int
    BY <1>1 DEF q
  <2>2. P * (q + 1) = P * q + P /\ P * (q - 1) = P * q - P
    BY <2>1
  <2> QED
    BY <2>1, <2>2
<1>3. \A i \in Int : (P * i) % P = 0
  OBVIOUS
<1>4. q + 1 \in Int /\ q - 1 \in Int /\ q \in Int
  BY <1>1
<1> HIDE DEF q
<1>5. (a + P) % P = 0 /\ (a + (-P)) % P = 0 /\ (a + 0) % P = 0
  BY <1>2, <1>3, <1>4
<1> QED
  BY <1>5

\* What a call adds to the money in circulation.
Mints(c) == CASE c.entry = "invoke" /\ c.fn = "create_account" -> c.args[2]
              [] c.entry = "invoke" /\ c.fn = "money_issuance" -> c.args[1]
              [] OTHER                                         -> 0

\* Balances are integers.
LEMMA BalancesType ==
    ASSUME NEW s \in [Key -> Value]
    PROVE  Balances(s) \in [Key -> Int]
BY DEF Balances, Value, JavaInt

\* Writing one balance changes the sum by the difference.
LEMMA OnePut ==
    ASSUME NEW s \in [Key -> Value], NEW k \in Key, NEW v \in JavaInt
    PROVE  SumFunction(Balances(Apply(s, putStringState(NoWrites, k, v))))
             = SumFunction(Balances(s)) + v - Balances(s)[k]
<1> DEFINE u == Apply(s, putStringState(NoWrites, k, v))
<1>1. v \in Int /\ v # Empty /\ v \in Value
  BY ChainCodeAssumption DEF JavaInt, Value
<1>2. u \in [Key -> Value]
  BY <1>1, NoWritesType, PutType, ApplyType
<1>3. u[k] = v /\ \A j \in Key \ {k} : u[j] = s[j]
  BY DEF Apply, putStringState, NoWrites
<1> HIDE DEF u
<1>4. Balances(u)[k] = v /\ \A j \in Key \ {k} : Balances(u)[j] = Balances(s)[j]
  BY <1>1, <1>3 DEF Balances
<1>5. SumFunction(Balances(u)) = SumFunction(Balances(s)) + Balances(u)[k] - Balances(s)[k]
  BY <1>2, <1>4, BalancesType, SumChange, KeyAssumption
<1> QED
  BY <1>4, <1>5 DEF u

\* A call that succeeds mints an integer.
LEMMA MintsType ==
    ASSUME NEW s \in [Key -> Value], NEW c \in Call, Simulate(s, c).ok
    PROVE  Mints(c) \in Int
<1>1. CASE c.entry = "invoke" /\ c.fn = "create_account"
  <2>1. Simulate(s, c) = createAccount(s, c.args)
    BY <1>1 DEF Simulate, invoke
  <2>2. Parses(c.args[2])
    BY <2>1 DEF createAccount, newErrorResponse
  <2> QED
    BY <1>1, <2>2 DEF Mints, Parses, JavaInt
<1>2. CASE c.entry = "invoke" /\ c.fn = "money_issuance"
  <2>1. Simulate(s, c) = moneyIssuance(s, c.args)
    BY <1>2 DEF Simulate, invoke
  <2>2. Parses(c.args[1])
    BY <2>1 DEF moneyIssuance, newErrorResponse
  <2> QED
    BY <1>2, <2>2 DEF Mints, Parses, JavaInt
<1>3. CASE ~(c.entry = "invoke" /\ c.fn \in {"create_account", "money_issuance"})
  BY <1>3 DEF Mints
<1> QED
  BY <1>1, <1>2, <1>3

\* What a call that deletes nothing and does not remit to its own sender
\* does to the money in circulation: it adds what it mints, modulo the
\* period of an int.
LEMMA MoneyMoved ==
    ASSUME NEW s \in [Key -> Value], NEW c \in Call, Simulate(s, c).ok,
           ~(c.entry = "invoke" /\ c.fn = "delete_account"),
           ~(c.entry = "invoke" /\ c.fn = "remit" /\ c.args[1] = c.args[2])
    PROVE  \E d \in {-Period, 0, Period} :
              SumFunction(Balances(Apply(s, Simulate(s, c).writes)))
                  = SumFunction(Balances(s)) + Mints(c) + d
<1> DEFINE w     == Simulate(s, c).writes
           total == SumFunction(Balances(s))
<1>a. c.entry \in {"init", "invoke"} /\ WellFormed(c)
  BY CallAssumption
<1>b. 0 \in JavaInt /\ Admin \in Key
  BY ChainCodeAssumption DEF JavaInt
<1>c. total \in Int
  BY BalancesType, SumType, KeyAssumption
<1>d. ASSUME w = NoWrites PROVE Apply(s, w) = s
  BY <1>d DEF Apply, NoWrites
<1>e. Period \in Int
  BY ChainCodeAssumption DEF Period
<1>f. JavaInt \subseteq Int
  BY DEF JavaInt
<1> USE DEF newSuccessResponse, newErrorResponse
<1>1. CASE c.entry = "init"
  <2>m. Mints(c) = 0
    BY <1>1 DEF Mints
  <2>1. CASE s[Admin] = Empty
    <3>1. w = putStringState(NoWrites, Admin, 0)
      BY <1>1, <2>1 DEF Simulate, init
    <3>2. Balances(s)[Admin] = 0
      BY <1>b, <2>1 DEF Balances
    <3>3. SumFunction(Balances(Apply(s, w))) = total + 0 - 0
      BY <1>b, <3>1, <3>2, OnePut
    <3> QED
      BY <1>c, <2>m, <3>3
  <2>2. CASE s[Admin] # Empty
    <3>1. w = NoWrites
      BY <1>1, <2>2 DEF Simulate, init
    <3>2. SumFunction(Balances(Apply(s, w))) = total
      BY <1>d, <3>1
    <3> QED
      BY <1>c, <2>m, <3>2
  <2> QED
    BY <2>1, <2>2
<1>2. CASE c.entry = "invoke" /\ c.fn = "create_account"
  <2>1. Simulate(s, c) = createAccount(s, c.args)
    BY <1>2 DEF Simulate, invoke
  <2>2. /\ Len(c.args) = 2 /\ Parses(c.args[2]) /\ s[c.args[1]] = Empty
        /\ w = putStringState(NoWrites, c.args[1], c.args[2])
    BY <2>1 DEF createAccount
  <2>3. c.args[1] \in Key /\ c.args[2] \in JavaInt
    BY <1>2, <1>a, <2>2 DEF WellFormed, Parses
  <2>4. Balances(s)[c.args[1]] = 0
    BY <2>2, <2>3 DEF Balances
  <2>5. SumFunction(Balances(Apply(s, w))) = total + c.args[2] - 0
    BY <2>2, <2>3, <2>4, OnePut
  <2>6. Mints(c) = c.args[2] /\ c.args[2] \in Int
    BY <1>2, <2>3 DEF Mints, JavaInt
  <2> QED
    BY <1>c, <2>5, <2>6
<1>3. CASE c.entry = "invoke" /\ c.fn = "money_issuance"
  <2>1. Simulate(s, c) = moneyIssuance(s, c.args)
    BY <1>3 DEF Simulate, invoke
  <2> DEFINE n == c.args[1]
  <2>2. /\ Parses(n) /\ Parses(s[Admin])
        /\ w = putStringState(NoWrites, Admin, Wrap(n + s[Admin]))
    BY <2>1 DEF moneyIssuance
  <2>3. PICK d \in {-Period, 0, Period} : Wrap(n + s[Admin]) = n + s[Admin] + d
    BY <2>2, WrapPeriod DEF Parses
  <2>4. Wrap(n + s[Admin]) \in JavaInt /\ n \in Int /\ s[Admin] \in Int
    BY <1>f, <2>2, WrapType DEF Parses
  <2>5. Balances(s)[Admin] = s[Admin]
    BY <1>b, <2>4, ChainCodeAssumption DEF Balances
  <2>6. SumFunction(Balances(Apply(s, w))) = total + Wrap(n + s[Admin]) - s[Admin]
    BY <1>b, <2>2, <2>4, <2>5, OnePut
  <2>7. Mints(c) = n
    BY <1>3 DEF Mints
  <2>8. total + (n + s[Admin] + d) - s[Admin] = total + n + d
    BY <1>c, <1>e, <2>4
  <2> QED
    BY <2>3, <2>6, <2>7, <2>8
<1>4. CASE c.entry = "invoke" /\ c.fn = "balance_check"
  <2>1. Simulate(s, c) = balanceCheck(s, c.args)
    BY <1>4 DEF Simulate, invoke
  <2>2. w = NoWrites
    BY <2>1 DEF balanceCheck
  <2>3. Mints(c) = 0
    BY <1>4 DEF Mints
  <2>4. SumFunction(Balances(Apply(s, w))) = total
    BY <1>d, <2>2
  <2> QED
    BY <1>c, <2>3, <2>4
<1>5. CASE c.entry = "invoke" /\ c.fn = "remit"
  <2>1. Simulate(s, c) = remit(s, c.args)
    BY <1>5 DEF Simulate, invoke
  <2> DEFINE from == c.args[1]
             to   == c.args[2]
             n    == c.args[3]
             sb   == s[from]
             rb   == s[to]
             debited == Apply(s, putStringState(NoWrites, from, Wrap(sb - n)))
  <2>2. /\ Len(c.args) = 3 /\ Parses(n) /\ Parses(sb) /\ Parses(rb)
        /\ n >= 0 /\ sb >= n
        /\ w = putStringState(putStringState(NoWrites, from, Wrap(sb - n)),
                              to, Wrap(rb + n))
    BY <2>1 DEF remit
  <2>3. from \in Key /\ to \in Key /\ from # to
    BY <1>5, <1>a, <2>2 DEF WellFormed
  <2>4. /\ Wrap(sb - n) \in JavaInt /\ Wrap(rb + n) \in JavaInt
        /\ sb \in Int /\ rb \in Int /\ n \in Int
    BY <1>f, <2>2, WrapType DEF Parses
  <2>5. Wrap(sb - n) = sb - n
    BY <2>2, ChainCodeAssumption DEF Wrap, Parses, JavaInt
  <2>6. debited \in [Key -> Value]
    <3>1. Wrap(sb - n) \in Value
      BY <2>4 DEF Value
    <3> QED
      BY <2>3, <3>1, NoWritesType, PutType, ApplyType
  <2>7. debited[to] = rb
    BY <2>3 DEF Apply, putStringState, NoWrites
  <2>8. Apply(s, w) = Apply(debited, putStringState(NoWrites, to, Wrap(rb + n)))
    BY <2>2, <2>3 DEF Apply, putStringState, NoWrites
  <2>9. Balances(s)[from] = sb /\ Balances(debited)[to] = rb
    BY <2>3, <2>4, <2>7, ChainCodeAssumption DEF Balances
  <2>10. SumFunction(Balances(debited)) = total + (sb - n) - sb
    BY <2>3, <2>4, <2>5, <2>9, OnePut
  <2>11. PICK d \in {-Period, 0, Period} : Wrap(rb + n) = rb + n + d
    BY <2>2, WrapPeriod DEF Parses
  <2>12. SumFunction(Balances(Apply(s, w)))
             = SumFunction(Balances(debited)) + Wrap(rb + n) - rb
    <3> HIDE DEF debited
    <3> QED
      BY <2>3, <2>4, <2>6, <2>8, <2>9, OnePut
  <2>13. (total + (sb - n) - sb) + (rb + n + d) - rb = total + 0 + d
    BY <1>c, <1>e, <2>4
  <2>14. Mints(c) = 0
    BY <1>5 DEF Mints
  <2> QED
    BY <2>10, <2>11, <2>12, <2>13, <2>14
<1>6. CASE c.entry = "invoke" /\ c.fn \notin {"create_account", "remit",
                "balance_check", "money_issuance", "delete_account"}
  BY <1>6 DEF Simulate, invoke
<1> QED
  BY <1>a, <1>1, <1>2, <1>3, <1>4, <1>5, <1>6

\* The strengthening: what is added up are integers, and finitely many.
SupplyInv ==
    /\ IsFiniteSet(Valid)
    /\ \A t \in Valid : Minted(t) \in Int
    /\ SupplyConserved

\* What a transaction minted is what its call mints.
LEMMA MintedIsMints == \A t : Minted(t) = Mints(call[t])
BY DEF Minted, Mints, IsCall

\* A ledger that was just deployed holds nothing.
LEMMA DeployedEmpty == SumFunction(Balances(Deployed)) = 0
<1> DEFINE nothing == [k \in Key |-> Empty]
           zero    == Balances(nothing)
<1>1. nothing \in [Key -> Value] /\ 0 \in JavaInt /\ Admin \in Key
  BY ChainCodeAssumption DEF Value, JavaInt
<1>2. init(nothing).writes = putStringState(NoWrites, Admin, 0)
  BY <1>1 DEF init, newSuccessResponse
<1>3. Deployed = Apply(nothing, putStringState(NoWrites, Admin, 0))
  BY <1>2 DEF Deployed
<1>4. zero[Admin] = 0
  BY <1>1 DEF Balances
<1>5. SumFunction(Balances(Deployed)) = SumFunction(zero) + 0 - 0
  <2> HIDE DEF nothing
  <2> QED
    BY <1>1, <1>3, <1>4, OnePut
<1>6. \A k \in Key : zero[k] = 0
  BY DEF Balances
<1>7. zero \in [Key -> Int]
  BY <1>1, BalancesType
<1>8. SumFunction(zero) = 0
  <2> HIDE DEF zero
  <2> QED
    BY <1>6, <1>7, SumZero, KeyAssumption
<1> QED
  BY <1>5, <1>8

\* Nothing has been minted initially.
LEMMA InitSupply == ChannelInit => SupplyInv
<1> SUFFICES ASSUME ChannelInit PROVE SupplyInv
  OBVIOUS
<1>1. Valid = {}
  BY DEF ChannelInit, Valid
<1>2. SumFunction([t \in Valid |-> Minted(t)]) = 0
  BY <1>1, SumEmpty
<1>3. worldState = Deployed
  BY DEF ChannelInit
<1>4. SumFunction(Balances(worldState)) = 0
  BY <1>3, DeployedEmpty
<1>5. 0 % Period = 0
  BY ChainCodeAssumption DEF Period
<1>6. Balanced
  BY <1>2, <1>4, <1>5 DEF Balanced, Balances, Period
<1>7. IsFiniteSet(Valid)
  BY <1>1, FS_EmptySet
<1> QED
  BY <1>1, <1>6, <1>7 DEF SupplyInv, SupplyConserved

\* Every step preserves the strengthening: a valid commit runs its call on
\* the current balances, so it moves money as the chaincode alone would.
LEMMA NextSupply == ChannelInv /\ SupplyInv /\ [ChannelNext]_channelVars => SupplyInv'
<1> SUFFICES ASSUME ChannelInv, SupplyInv, [ChannelNext]_channelVars PROVE SupplyInv'
  OBVIOUS
<1> DEFINE minted == [t \in Valid |-> Minted(t)]
           money  == SumFunction(Balances(worldState))
<1>a. worldState \in [Key -> Value] /\ DOMAIN phase = Tx
  BY DEF ChannelInv, TypeOK
<1>b. Balanced <=> (money - SumFunction(minted)) % Period = 0
  BY DEF Balanced, Balances, Period
<1>c. Balanced' <=> (SumFunction(Balances(worldState')) - SumFunction(minted')) % Period = 0
  BY DEF Balanced, Balances, Period
<1>1. ASSUME NEW t \in Tx, CommitValid(t)
      PROVE  SupplyInv'
  <2>1. /\ Simulate(worldState, call[t]) = sim[t] /\ sim[t].ok
        /\ call[t] \in Call
    BY <1>1, CommitRunsNow
  <2>2. /\ worldState' = Apply(worldState, sim[t].writes)
        /\ call' = call
        /\ phase' = [phase EXCEPT ![t] = "valid"] /\ phase[t] = "ordered"
    BY <1>1 DEF CommitValid, rwsetVars
  <2>3. Valid' = Valid \cup {t} /\ t \notin Valid
    BY <1>a, <2>2 DEF Valid
  <2>4. IsFiniteSet(Valid')
    BY <2>3, FS_AddElement DEF SupplyInv
  <2>5. \A u : Minted(u)' = Minted(u)
    BY <2>2 DEF Minted, IsCall
  <2>6. Minted(t) = Mints(call[t]) /\ Mints(call[t]) \in Int
    BY <1>a, <2>1, MintedIsMints, MintsType
  <2>7. \A u \in Valid' : Minted(u)' \in Int
    BY <2>3, <2>5, <2>6 DEF SupplyInv
  <2>8. ASSUME NothingDeleted', \A u \in Valid' : ~SelfRemit(u)'
        PROVE  Balanced'
    <3>1. /\ ~IsCall(t, "delete_account") /\ ~SelfRemit(t)
          /\ \A u \in Valid : ~IsCall(u, "delete_account") /\ ~SelfRemit(u)
      BY <2>2, <2>3, <2>8 DEF NothingDeleted, SelfRemit, IsCall
    <3>2. (money - SumFunction(minted)) % Period = 0
      BY <1>b, <3>1 DEF SupplyInv, SupplyConserved, NothingDeleted
    <3>3. PICK d \in {-Period, 0, Period} :
             SumFunction(Balances(worldState')) = money + Mints(call[t]) + d
      BY <1>a, <2>1, <2>2, <3>1, MoneyMoved DEF IsCall, SelfRemit
    <3>4. SumFunction(minted') = SumFunction(minted) + Mints(call[t])
      <4>1. minted \in [Valid -> Int] /\ IsFiniteSet(Valid)
        BY DEF SupplyInv
      <4>2. minted' = [u \in Valid \cup {t} |-> Minted(u)]
        BY <2>3, <2>5
      <4>3. minted' \in [Valid \cup {t} -> Int] /\ minted'[t] = Mints(call[t])
        BY <2>6, <4>2 DEF SupplyInv
      <4>4. \A u \in Valid : minted'[u] = minted[u]
        BY <4>2
      <4> HIDE DEF minted
      <4> QED
        BY <2>3, <4>1, <4>3, <4>4, SumAdd
    <3>5. money \in Int /\ SumFunction(minted) \in Int
      <4>1. minted \in [Valid -> Int] /\ IsFiniteSet(Valid)
        BY DEF SupplyInv
      <4> HIDE DEF minted
      <4> QED
        BY <1>a, <4>1, BalancesType, SumType, KeyAssumption
    <3>6. Period \in Nat \ {0}
      BY ChainCodeAssumption DEF Period
    <3>7. ((money - SumFunction(minted)) + d) % Period = 0
      <4>1. money - SumFunction(minted) \in Int
        BY <3>5
      <4> QED
        BY <3>2, <3>6, <4>1, PeriodShift
    <3>8. (money + Mints(call[t]) + d) - (SumFunction(minted) + Mints(call[t]))
              = (money - SumFunction(minted)) + d
      BY <2>6, <3>5, <3>6
    <3> QED
      BY <1>c, <3>3, <3>4, <3>7, <3>8
  <2> QED
    BY <2>4, <2>7, <2>8 DEF SupplyInv, SupplyConserved
<1>2. CASE ~\E t \in Tx : CommitValid(t)
  <2>1. /\ worldState' = worldState
        /\ \A t \in Tx : /\ phase'[t] = "valid" <=> phase[t] = "valid"
                         /\ phase[t] = "valid" => call'[t] = call[t]
    BY <1>2, OnlyCommits
  <2>2. Valid' = Valid
    BY <2>1 DEF Valid
  <2>3. \A t \in Valid : call'[t] = call[t]
    BY <2>1 DEF Valid
  <2>4. \A t \in Valid : Minted(t)' = Minted(t) /\ (SelfRemit(t)' <=> SelfRemit(t))
    BY <2>3 DEF Minted, SelfRemit, IsCall
  <2>5. NothingDeleted' <=> NothingDeleted
    BY <2>2, <2>3 DEF NothingDeleted, IsCall
  <2>6. minted' = minted
    BY <2>2, <2>4
  <2>7. Balanced' <=> Balanced
    BY <1>b, <1>c, <2>1, <2>6
  <2> QED
    BY <2>2, <2>4, <2>5, <2>7 DEF SupplyInv, SupplyConserved
<1> QED
  BY <1>1, <1>2

\* As long as no account is deleted and none remits to itself, the balances
\* add up to what was issued and deposited, modulo the period of an int,
\* whatever clients submit concurrently and however far peers lag behind.
THEOREM SupplyAlwaysConserved == ChannelSpec => []SupplyConserved
<1>1. SupplyInv => SupplyConserved
  BY DEF SupplyInv
<1> QED
  BY <1>1, InitSupply, NextSupply, SpecChannel, PTL DEF ChannelSpec
============================================================================
