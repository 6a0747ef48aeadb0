-------------------------- MODULE ApiServerProofs --------------------------
(***************************************************************************)
(* Proofs about the finance API server and the root API server in front of *)
(* it, for every set of accounts, requests and request bodies, any number  *)
(* of crashes and every width of an int.  What the proofs about the        *)
(* channel say of sums and of the chaincode is used here too.              *)
(***************************************************************************)
EXTENDS RootServer, FabricLedgerProofs

----------------------------------------------------------------------------
(* What the calls of the three routes do to the world state *)

\* The bodies that may arrive.
Bodies == [route : {"/createaccount", "/money_issuance", "/balance_check"},
         name : Key \cup {Missing},
         value : Int \cup {Empty, NotInt, Missing}]

\* create_account takes effect on an account that is not there, and gives it
\* the deposit.
LEMMA CreateAccountEffect ==
    ASSUME NEW s \in [Key -> Value], NEW q \in Bodies,
           q.route = "/createaccount", q.name \in Key,
           Simulate(s, CallOf(q)).ok
    PROVE  /\ s[q.name] = Empty
           /\ q.value \in JavaInt
           /\ Apply(s, Simulate(s, CallOf(q)).writes) = [s EXCEPT ![q.name] = q.value]
<1>1. CallOf(q) = Invoke("create_account", <<q.name, q.value>>)
  BY DEF CallOf
<1>2. Simulate(s, CallOf(q)) = createAccount(s, <<q.name, q.value>>)
  BY <1>1 DEF Simulate, Invoke, invoke
<1>3. /\ s[q.name] = Empty /\ q.value \in JavaInt
      /\ Simulate(s, CallOf(q)).writes = putStringState(NoWrites, q.name, q.value)
  BY <1>2 DEF createAccount, newErrorResponse, newSuccessResponse, Parses
<1>4. Apply(s, putStringState(NoWrites, q.name, q.value)) = [s EXCEPT ![q.name] = q.value]
  BY DEF Apply, putStringState, NoWrites
<1> QED
  BY <1>3, <1>4

\* money_issuance adds its amount to the admin's balance.
LEMMA MoneyIssuanceEffect ==
    ASSUME NEW s \in [Key -> Value], NEW q \in Bodies,
           q.route = "/money_issuance",
           Simulate(s, CallOf(q)).ok
    PROVE  /\ q.value \in JavaInt /\ s[Admin] \in JavaInt
           /\ Wrap(q.value + s[Admin]) \in JavaInt
           /\ Apply(s, Simulate(s, CallOf(q)).writes)
                = [s EXCEPT ![Admin] = Wrap(q.value + s[Admin])]
<1>1. CallOf(q) = Invoke("money_issuance", <<q.value>>)
  BY DEF CallOf
<1>2. Simulate(s, CallOf(q)) = moneyIssuance(s, <<q.value>>)
  BY <1>1 DEF Simulate, Invoke, invoke
<1>3. /\ q.value \in JavaInt /\ s[Admin] \in JavaInt
      /\ Simulate(s, CallOf(q)).writes
            = putStringState(NoWrites, Admin, Wrap(q.value + s[Admin]))
  BY <1>2 DEF moneyIssuance, newErrorResponse, newSuccessResponse, Parses
<1>4. Wrap(q.value + s[Admin]) \in JavaInt
  BY <1>3, ChainCodeAssumption DEF Wrap, JavaInt
<1>5. Apply(s, putStringState(NoWrites, Admin, Wrap(q.value + s[Admin])))
         = [s EXCEPT ![Admin] = Wrap(q.value + s[Admin])]
  BY ChainCodeAssumption DEF Apply, putStringState, NoWrites
<1> QED
  BY <1>3, <1>4, <1>5

\* balance_check changes nothing and answers with the balance of an account
\* that is there.
LEMMA BalanceCheckEffect ==
    ASSUME NEW s \in [Key -> Value], NEW q \in Bodies,
           q.route = "/balance_check", q.name \in Key,
           Simulate(s, CallOf(q)).ok
    PROVE  /\ s[q.name] # Empty
           /\ Simulate(s, CallOf(q)).payload = s[q.name]
           /\ Apply(s, Simulate(s, CallOf(q)).writes) = s
<1>1. CallOf(q) = Invoke("balance_check", <<q.name>>)
  BY DEF CallOf
<1>2. Simulate(s, CallOf(q)) = balanceCheck(s, <<q.name>>)
  BY <1>1 DEF Simulate, Invoke, invoke
<1>3. /\ s[q.name] # Empty
      /\ Simulate(s, CallOf(q)).payload = s[q.name]
      /\ Simulate(s, CallOf(q)).writes = NoWrites
  BY <1>2 DEF balanceCheck, newErrorResponse, newSuccessResponse
<1>4. Apply(s, NoWrites) = s
  BY DEF Apply, NoWrites
<1> QED
  BY <1>3, <1>4

----------------------------------------------------------------------------
(* The inductive invariant of the finance server *)

\* Request r has passed the check for its identity, or is beyond it.
Vouched(r) ==
    \/ pc[r] \in {"connect", "submit", "commit", "disconnect"}
    \/ r \in sent
    \/ Took(r)

\* The content of a request that has not arrived, and what the functions return.
NoBody == [route |-> "none", name |-> Missing, value |-> Missing]
Text == {"undefined", "already exists", "no admin", "failed", "registered",
         "no identity", "submitted"}

\* The types of the variables the argument is about.
Typed ==
    /\ registered \subseteq Key
    /\ ledger \in [Key -> Value]
    /\ ledger[Admin] \in JavaInt
    /\ \A d \in done : d.tx \in Req
    /\ sent \subseteq Req
    /\ pc \in [Req -> RegisterSteps \cup SubmitSteps \cup {"idle", "answered", "lost"}]
    /\ http \in [Req -> Bodies \cup {NoBody}]
    /\ msg1 \in [Req -> Text]
    /\ msg2 \in [Req -> Text]

\* A request that has not arrived has no content and no effect; one that runs
\* has the fields of its route.
Begun ==
    \A r \in Req :
        /\ pc[r] = "idle" => r \notin sent /\ ~Took(r) /\ msg2[r] = "undefined"
        /\ pc[r] # "idle" => http[r] \in Bodies
        /\ pc[r] \in RegisterSteps => http[r].route = "/createaccount"
        /\ pc[r] \in RegisterSteps \cup SubmitSteps => Complete(http[r])
        /\ Vouched(r) => Complete(http[r]) /\ Identity(http[r]) \in wallet

\* The certificate authority lets one request per name through, and it has
\* not imported its identity yet.
Enrolling(r) == pc[r] \in {"enroll", "import"}
OneEnrolls ==
    /\ wallet \subseteq registered
    /\ Admin \in registered
    /\ \A r \in Req : Enrolling(r) =>
          /\ http[r].name \in registered \ (wallet \cup {Admin})
          /\ \A q \in Req : Enrolling(q) /\ http[q].name = http[r].name => q = r

\* What took effect is what the ledger holds.
LedgerExplained ==
    /\ \A k \in Key \ {Admin} : ledger[k] # Empty =>
          \E r \in Req : Took(r) /\ http[r].route = "/createaccount" /\ http[r].name = k
    /\ \A d \in done :
          /\ http[d.tx].route = "/createaccount" =>
                /\ http[d.tx].name \in Key \ {Admin}
                /\ http[d.tx].value \in JavaInt
                /\ ledger[http[d.tx].name] = http[d.tx].value
          /\ http[d.tx].route = "/balance_check" /\ http[d.tx].name # Admin =>
                /\ ledger[http[d.tx].name] # Empty
                /\ d.payload = ledger[http[d.tx].name]
    /\ \A r, q \in Req :
          /\ Took(r) /\ http[r].route = "/createaccount"
          /\ Took(q) /\ http[q].route = "/createaccount"
          /\ http[r].name = http[q].name
          => r = q

\* A request that reports success, or is about to, has taken effect.
ReportedTook ==
    \A r \in Req : msg2[r] = "submitted" \/ pc[r] = "disconnect" => Took(r)

IInv == Typed /\ Begun /\ OneEnrolls /\ LedgerExplained /\ ReportedTook

\* The invariant holds when the channel is new and nobody has called.
LEMMA InitIInv == Init => IInv
<1> SUFFICES ASSUME Init PROVE IInv
  OBVIOUS
<1> USE DEF Init, Ledger!Init
<1>0. done = {} /\ \A r \in Req : ~Took(r) /\ r \notin sent
  BY DEF Took
<1>1. Typed
  <2>1. 0 \in JavaInt
    BY ChainCodeAssumption DEF JavaInt
  <2>2. http = [r \in Req |-> NoBody]
    BY DEF NoBody
  <2>3. ledger \in [Key -> Value] /\ ledger[Admin] \in JavaInt
    BY <2>1, DeployedState, ChainCodeAssumption DEF Value
  <2> QED
    BY <1>0, <2>2, <2>3, ChainCodeAssumption DEF Typed, Text
<1>2. Begun
  BY <1>0 DEF Begun, Vouched, RegisterSteps, SubmitSteps
<1>3. OneEnrolls
  BY DEF OneEnrolls, Enrolling
<1>4. LedgerExplained
  BY <1>0, DeployedState DEF LedgerExplained
<1>5. ReportedTook
  BY DEF ReportedTook
<1> QED
  BY <1>1, <1>2, <1>3, <1>4, <1>5 DEF IInv

\* A step of request r's registerUser keeps the invariant.
LEMMA RegisterStep ==
    ASSUME IInv, NEW r \in Req,
           \/ NameExists(r) \/ AdminExists(r) \/ CaConnect(r) \/ Register(r)
           \/ RegisterLost(r) \/ Enroll(r) \/ Import(r)
           \/ Throw(r) /\ pc[r] \in RegisterSteps
    PROVE  IInv'
<1> USE DEF IInv, At, Goto, Proceed, ReturnRegister, ledgerVars, durableVars,
            NameExists, AdminExists, CaConnect, Register, RegisterLost, Enroll, Import,
            Throw
<1>1. /\ UNCHANGED <<ledger, done, sent, http, msg2>>
      /\ pc[r] \in RegisterSteps
      /\ \E step \in RegisterSteps \cup {"exists"} : pc' = [pc EXCEPT ![r] = step]
  BY DEF RegisterSteps
<1>2. \A q \in Req : Took(q)' = Took(q)
  BY <1>1 DEF Took
<1>3. wallet \subseteq wallet'
  OBVIOUS
<1>4. \A q \in Req : Vouched(q)' => Vouched(q)
  BY <1>1, <1>2 DEF Vouched, RegisterSteps, Typed
<1>5. http[r] \in Bodies /\ http[r].name \in Key
  BY <1>1 DEF Begun, Complete, Bodies, RegisterSteps
<1>6. Typed'
  BY <1>1, <1>5 DEF Typed, RegisterSteps, SubmitSteps, Text
<1>7. Begun'
  BY <1>1, <1>2, <1>3, <1>4 DEF Begun, Typed, RegisterSteps, SubmitSteps
<1>8. OneEnrolls'
  <2> USE DEF OneEnrolls, Enrolling
  <2>1. pc \in [Req -> RegisterSteps \cup SubmitSteps \cup {"idle", "answered", "lost"}]
    BY DEF Typed
  <2>2. CASE Register(r) \/ RegisterLost(r)
    <3>1. wallet' = wallet
      BY <2>2
    <3>2. \/ pc' = [pc EXCEPT ![r] = "exists"] /\ registered \subseteq registered'
          \/ /\ pc' = [pc EXCEPT ![r] = "enroll"] /\ http[r].name \notin registered
             /\ registered' = registered \cup {http[r].name}
      BY <2>2
    <3> HIDE DEF Register, RegisterLost, NameExists, AdminExists, CaConnect, Enroll, Import,
                 Throw
    <3> QED
      BY <1>1, <2>1, <3>1, <3>2
  <2>3. CASE Import(r)
    BY <1>1, <1>5, <2>1, <2>3
  <2>4. CASE Enroll(r)
    BY <1>1, <2>1, <2>4
  <2>5. CASE NameExists(r) \/ AdminExists(r) \/ CaConnect(r) \/ Throw(r)
    BY <1>1, <2>1, <2>5
  <2> QED
    BY <2>2, <2>3, <2>4, <2>5
<1>9. LedgerExplained'
  BY <1>1, <1>2 DEF LedgerExplained
<1>10. ReportedTook'
  BY <1>1, <1>2 DEF ReportedTook, Typed, RegisterSteps
<1> QED
  BY <1>6, <1>7, <1>8, <1>9, <1>10

\* So does a step of the function that submits.
LEMMA SubmitStep ==
    ASSUME IInv, NEW r \in Req,
           \/ Exists(r) \/ Connect(r) \/ Submit(r) \/ Committed(r) \/ Disconnect(r)
           \/ Throw(r) /\ pc[r] \notin RegisterSteps
    PROVE  IInv'
<1> USE DEF IInv, At, Goto, Proceed, ReturnSubmit, ledgerVars, durableVars,
            Exists, Connect, Submit, Committed, Disconnect, Throw
<1>1. /\ UNCHANGED <<wallet, registered, ledger, done, http, msg1>>
      /\ pc[r] \in SubmitSteps
      /\ \E step \in {"connect", "submit", "commit", "disconnect", "answered"} :
            pc' = [pc EXCEPT ![r] = step]
  BY DEF RegisterSteps, SubmitSteps, Running
<1>2. \A q \in Req : Took(q)' = Took(q)
  BY <1>1 DEF Took
<1>3. pc \in [Req -> RegisterSteps \cup SubmitSteps \cup {"idle", "answered", "lost"}]
  BY DEF Typed
<1>4. sent \subseteq sent' /\ \A q \in Req \ {r} : q \in sent' => q \in sent
  OBVIOUS
<1>5. http[r] \in Bodies /\ Complete(http[r])
  BY <1>1 DEF Begun, SubmitSteps
<1>6. Identity(http[r]) \in wallet \/ ~Vouched(r)'
  BY <1>1, <1>2, <1>3 DEF Begun, Vouched, SubmitSteps
<1>7. Typed'
  BY <1>1, <1>3 DEF Typed, SubmitSteps, Text
<1>8. Begun'
  <2>1. \A q \in Req \ {r} : Vouched(q)' => Vouched(q)
    BY <1>1, <1>2, <1>3, <1>4 DEF Vouched
  <2>2. pc'[r] # "idle" /\ pc'[r] \notin RegisterSteps
        /\ \A q \in Req \ {r} : pc'[q] = pc[q] /\ msg2'[q] = msg2[q]
    BY <1>1, <1>3 DEF RegisterSteps, Typed
  <2> QED
    BY <1>1, <1>2, <1>4, <1>5, <1>6, <2>1, <2>2 DEF Begun
<1>9. OneEnrolls'
  BY <1>1, <1>3 DEF OneEnrolls, Enrolling
<1>10. LedgerExplained'
  BY <1>1, <1>2 DEF LedgerExplained
<1>11. ReportedTook'
  <2>1. \A q \in Req \ {r} : pc'[q] = pc[q] /\ msg2'[q] = msg2[q]
    BY <1>1, <1>3 DEF Typed
  <2>2. msg2'[r] = "submitted" \/ pc'[r] = "disconnect" => Took(r)
    <3>1. CASE Committed(r)
      BY <3>1 DEF Took
    <3>2. CASE Disconnect(r)
      BY <3>2 DEF ReportedTook
    <3>3. CASE Exists(r) \/ Connect(r) \/ Submit(r) \/ Throw(r)
      BY <1>1, <1>3, <3>3 DEF ReportedTook, Typed, RegisterSteps, SubmitSteps
    <3> QED
      BY <3>1, <3>2, <3>3
  <2> QED
    BY <1>2, <2>1, <2>2 DEF ReportedTook
<1> QED
  BY <1>7, <1>8, <1>9, <1>10, <1>11

\* So does the arrival of a request.
LEMMA ReceiveStep ==
    ASSUME IInv, NEW r \in Req, NEW q \in Bodies, Receive(r, q)
    PROVE  IInv'
<1> USE DEF IInv, At, Goto, Receive, durableVars
<1>1. /\ UNCHANGED <<wallet, registered, ledger, done, sent, msg1, msg2, gateways, faulty>>
      /\ pc[r] = "idle" /\ r \notin sent /\ ~Took(r)
      /\ http' = [http EXCEPT ![r] = q]
  BY DEF Begun
<1>2. \A p \in Req : Took(p)' = Took(p)
  BY <1>1 DEF Took
<1>3. pc \in [Req -> RegisterSteps \cup SubmitSteps \cup {"idle", "answered", "lost"}]
  BY DEF Typed
<1>4. http \in [Req -> Bodies \cup {NoBody}]
  BY DEF Typed
<1>5. /\ pc'[r] \in {"answered", "name_exists", "exists"}
      /\ pc'[r] = "name_exists" => q.route = "/createaccount"
      /\ pc'[r] # "answered" => Complete(q)
      /\ http'[r] = q
  BY <1>1, <1>3, <1>4
<1>6. \A p \in Req \ {r} : pc'[p] = pc[p] /\ http'[p] = http[p]
  BY <1>3, <1>4
<1>7. Typed'
  BY <1>1, <1>3, <1>4 DEF Typed, RegisterSteps, SubmitSteps
<1>8. Begun'
  <2>1. ~Vouched(r)' /\ \A p \in Req \ {r} : Vouched(p)' = Vouched(p)
    BY <1>1, <1>2, <1>5, <1>6 DEF Vouched
  <2> QED
    BY <1>1, <1>2, <1>5, <1>6, <2>1 DEF Begun, RegisterSteps, SubmitSteps
<1>9. OneEnrolls'
  BY <1>1, <1>5, <1>6 DEF OneEnrolls, Enrolling
<1>10. LedgerExplained'
  <2>1. \A d \in done : d.tx \in Req /\ http'[d.tx] = http[d.tx]
    BY <1>1, <1>6 DEF Typed, Took
  <2> QED
    BY <1>1, <1>2, <1>6, <2>1 DEF LedgerExplained
<1>11. ReportedTook'
  BY <1>1, <1>2, <1>5, <1>6 DEF ReportedTook
<1> QED
  BY <1>7, <1>8, <1>9, <1>10, <1>11

\* A death of the server process keeps it.
LEMMA CrashStep ==
    ASSUME IInv, Crash
    PROVE  IInv'
<1> USE DEF IInv, Crash, durableVars
<1>1. UNCHANGED <<wallet, registered, ledger, done, sent, http, msg1, msg2, faulty>>
  OBVIOUS
<1>2. \A r \in Req : Took(r)' = Took(r)
  BY <1>1 DEF Took
<1>3. \A r \in Req : \/ pc'[r] = pc[r] /\ ~Running(r)
                     \/ pc'[r] = "lost" /\ pc[r] # "idle"
  BY DEF Running, RegisterSteps, SubmitSteps
<1>4. Typed'
  BY <1>1 DEF Typed
<1>5. Begun'
  BY <1>1, <1>2, <1>3 DEF Begun, Vouched, RegisterSteps, SubmitSteps
<1>6. OneEnrolls'
  BY <1>1, <1>3 DEF OneEnrolls, Enrolling
<1>7. LedgerExplained'
  BY <1>1, <1>2 DEF LedgerExplained
<1>8. ReportedTook'
  BY <1>1, <1>2, <1>3 DEF ReportedTook
<1> QED
  BY <1>4, <1>5, <1>6, <1>7, <1>8

\* The script that enrols the admin keeps it.
LEMMA EnrollAdminKeeps ==
    ASSUME IInv, EnrollAdminStep
    PROVE  IInv'
<1> USE DEF IInv, EnrollAdminStep, EnrollAdmin, ledgerVars
<1>1. /\ UNCHANGED <<registered, ledger, done, sent, pc, http, msg1, msg2, gateways, faulty>>
      /\ wallet' \in {wallet, wallet \cup {Admin}}
  OBVIOUS
<1>2. \A r \in Req : Took(r)' = Took(r)
  BY <1>1 DEF Took
<1>3. Typed'
  BY <1>1 DEF Typed
<1>4. Begun'
  BY <1>1, <1>2 DEF Begun, Vouched
<1>5. OneEnrolls'
  BY <1>1 DEF OneEnrolls, Enrolling
<1>6. LedgerExplained'
  BY <1>1, <1>2 DEF LedgerExplained
<1>7. ReportedTook'
  BY <1>1, <1>2 DEF ReportedTook
<1> QED
  BY <1>3, <1>4, <1>5, <1>6, <1>7

\* The entry of the history for request r when it is committed.
Entry(r) == [tx |-> r, call |-> CallOf(http[r]),
             payload |-> Simulate(ledger, CallOf(http[r])).payload]

\* What a committed transaction does to the world state: it opens the account
\* of its request, or changes the admin's balance, or reports a balance.
LEMMA CommitEffect ==
    ASSUME IInv, NEW r \in Req, Commit(r)
    PROVE  /\ http[r] \in Bodies /\ Complete(http[r]) /\ Identity(http[r]) \in wallet
           /\ pc[r] # "idle" /\ ~Took(r)
           /\ done' = done \cup {Entry(r)} /\ Entry(r).tx = r
           /\ http[r].route = "/balance_check" =>
                 ledger[http[r].name] # Empty /\ Entry(r).payload = ledger[http[r].name]
           /\ \/ /\ http[r].route = "/createaccount"
                 /\ http[r].name \in Key \ {Admin} /\ http[r].value \in JavaInt
                 /\ ledger[http[r].name] = Empty
                 /\ ledger' = [ledger EXCEPT ![http[r].name] = http[r].value]
              \/ /\ http[r].route = "/money_issuance" /\ http[r].value \in JavaInt
                 /\ Wrap(http[r].value + ledger[Admin]) \in JavaInt
                 /\ ledger' = [ledger EXCEPT ![Admin] = Wrap(http[r].value + ledger[Admin])]
              \/ /\ http[r].route = "/balance_check" /\ http[r].name \in Key
                 /\ ledger' = ledger
<1> DEFINE q == http[r]
           response == Simulate(ledger, CallOf(q))
<1>1. /\ q \in Bodies /\ Complete(q) /\ Identity(q) \in wallet /\ pc[r] # "idle"
  BY DEF IInv, Begun, Vouched, Commit
<1>2. /\ ~Took(r) /\ response.ok
      /\ ledger' = Apply(ledger, response.writes)
      /\ done' = done \cup {Entry(r)}
      /\ Entry(r).tx = r /\ Entry(r).payload = response.payload
  BY DEF Commit, Ledger!Execute, Took, Entry
<1>3. ledger \in [Key -> Value] /\ ledger[Admin] \in JavaInt
  BY DEF IInv, Typed
<1>4. CASE q.route = "/createaccount"
  <2>1. q.name \in Key
    BY <1>1, <1>4 DEF Complete, Bodies
  <2>2. /\ ledger[q.name] = Empty /\ q.value \in JavaInt
        /\ ledger' = [ledger EXCEPT ![q.name] = q.value]
    BY <1>1, <1>2, <1>3, <1>4, <2>1, CreateAccountEffect
  <2>3. q.name # Admin
    BY <1>3, <2>2, ChainCodeAssumption DEF JavaInt
  <2> QED
    BY <1>1, <1>2, <1>4, <2>1, <2>2, <2>3
<1>5. CASE q.route = "/money_issuance"
  <2>1. /\ q.value \in JavaInt /\ Wrap(q.value + ledger[Admin]) \in JavaInt
        /\ ledger' = [ledger EXCEPT ![Admin] = Wrap(q.value + ledger[Admin])]
    BY <1>1, <1>2, <1>3, <1>5, MoneyIssuanceEffect
  <2> QED
    BY <1>1, <1>2, <1>5, <2>1
<1>6. CASE q.route = "/balance_check"
  <2>1. q.name \in Key
    BY <1>1, <1>6 DEF Complete, Bodies
  <2>2. /\ ledger[q.name] # Empty /\ response.payload = ledger[q.name]
        /\ ledger' = ledger
    BY <1>1, <1>2, <1>3, <1>6, <2>1, BalanceCheckEffect
  <2> QED
    BY <1>1, <1>2, <1>6, <2>1, <2>2
<1> QED
  BY <1>1, <1>4, <1>5, <1>6 DEF Bodies

\* The channel commits or discards what was sent.
LEMMA ChannelStep ==
    ASSUME IInv, NEW r \in Req, Commit(r) \/ Discard(r)
    PROVE  IInv'
<1>0. /\ UNCHANGED <<wallet, registered, pc, http, msg1, msg2, gateways, faulty>>
      /\ sent' = sent \ {r} /\ r \in sent
  BY DEF Commit, Discard
<1>a. /\ ledger \in [Key -> Value] /\ ledger[Admin] \in JavaInt
      /\ \A d \in done : d.tx \in Req
  BY DEF IInv, Typed
<1>1. CASE Discard(r)
  <2>1. UNCHANGED <<ledger, done>>
    BY <1>1 DEF Discard
  <2>2. \A q \in Req : Took(q)' = Took(q)
    BY <2>1 DEF Took
  <2>3. Typed'
    BY <1>0, <2>1 DEF IInv, Typed
  <2>4. Begun'
    BY <1>0, <2>2 DEF IInv, Begun, Vouched
  <2>5. OneEnrolls'
    BY <1>0 DEF IInv, OneEnrolls, Enrolling
  <2>6. LedgerExplained'
    BY <1>0, <2>1, <2>2 DEF IInv, LedgerExplained
  <2>7. ReportedTook'
    BY <1>0, <2>2 DEF IInv, ReportedTook
  <2> QED
    BY <2>3, <2>4, <2>5, <2>6, <2>7 DEF IInv
<1>2. CASE Commit(r)
  <2>1. /\ http[r] \in Bodies /\ Complete(http[r]) /\ Identity(http[r]) \in wallet
        /\ pc[r] # "idle" /\ ~Took(r)
    BY <1>2, CommitEffect
  <2>2. /\ done' = done \cup {Entry(r)} /\ Entry(r).tx = r
        /\ http[r].route = "/balance_check" =>
              ledger[http[r].name] # Empty /\ Entry(r).payload = ledger[http[r].name]
    BY <1>2, CommitEffect
  <2>3. \/ /\ http[r].route = "/createaccount"
           /\ http[r].name \in Key \ {Admin} /\ http[r].value \in JavaInt
           /\ ledger[http[r].name] = Empty
           /\ ledger' = [ledger EXCEPT ![http[r].name] = http[r].value]
        \/ /\ http[r].route = "/money_issuance"
           /\ \E n \in JavaInt : ledger' = [ledger EXCEPT ![Admin] = n]
        \/ /\ http[r].route = "/balance_check" /\ http[r].name \in Key
           /\ ledger' = ledger
    BY <1>2, CommitEffect
  <2>4. Took(r)' /\ \A q \in Req \ {r} : Took(q)' = Took(q)
    BY <2>2 DEF Took
  <2>5. Typed'
    <3>1. ledger' \in [Key -> Value] /\ ledger'[Admin] \in JavaInt
      BY <1>a, <2>3, ChainCodeAssumption DEF Value
    <3>2. \A e \in done' : e.tx \in Req
      BY <1>a, <2>2
    <3> QED
      BY <1>0, <3>1, <3>2 DEF IInv, Typed
  <2>6. Begun'
    BY <1>0, <2>1, <2>4 DEF IInv, Begun, Vouched
  <2>7. OneEnrolls'
    BY <1>0 DEF IInv, OneEnrolls, Enrolling
  <2>8. LedgerExplained'
    <3>1. \A k \in Key \ {Admin} : ledger[k] # Empty => ledger'[k] = ledger[k]
      BY <1>a, <2>3
    <3>2. \A k \in Key \ {Admin} : ledger'[k] # Empty =>
             \E q \in Req : Took(q)' /\ http[q].route = "/createaccount" /\ http[q].name = k
      BY <1>a, <2>3, <2>4 DEF IInv, LedgerExplained
    <3>3. \A e \in done :
             /\ http[e.tx].route = "/createaccount" =>
                   ledger'[http[e.tx].name] = http[e.tx].value
             /\ http[e.tx].route = "/balance_check" /\ http[e.tx].name # Admin =>
                   /\ ledger'[http[e.tx].name] # Empty
                   /\ e.payload = ledger'[http[e.tx].name]
      <4> TAKE e \in done
      <4>1. http[e.tx].route = "/createaccount" =>
               /\ http[e.tx].name \in Key \ {Admin} /\ ledger[http[e.tx].name] # Empty
               /\ ledger[http[e.tx].name] = http[e.tx].value
        BY ChainCodeAssumption DEF IInv, LedgerExplained, JavaInt
      <4>2. http[e.tx].route = "/balance_check" /\ http[e.tx].name # Admin =>
               /\ http[e.tx].name \in Key \ {Admin} /\ ledger[http[e.tx].name] # Empty
               /\ e.payload = ledger[http[e.tx].name]
        <5>1. e.tx \in Req /\ Took(e.tx)
          BY <1>a DEF Took
        <5>2. Complete(http[e.tx]) /\ http[e.tx] \in Bodies
          BY <5>1 DEF IInv, Begun, Vouched
        <5> QED
          BY <5>2 DEF IInv, LedgerExplained, Complete, Bodies
      <4> QED
        BY <3>1, <4>1, <4>2
    <3>4. /\ http[r].route = "/createaccount" =>
                /\ http[r].name \in Key \ {Admin} /\ http[r].value \in JavaInt
                /\ ledger'[http[r].name] = http[r].value
          /\ http[r].route = "/balance_check" =>
                /\ ledger'[http[r].name] # Empty
                /\ Entry(r).payload = ledger'[http[r].name]
      BY <1>a, <2>2, <2>3
    <3>5. \A q \in Req : /\ Took(q) /\ http[q].route = "/createaccount"
                         /\ http[r].route = "/createaccount"
                         => http[q].name # http[r].name
      BY <2>3, ChainCodeAssumption DEF IInv, LedgerExplained, Took, JavaInt
    <3> QED
      BY <1>0, <2>2, <2>4, <3>2, <3>3, <3>4, <3>5 DEF IInv, LedgerExplained
  <2>9. ReportedTook'
    BY <1>0, <2>4 DEF IInv, ReportedTook
  <2> QED
    BY <2>5, <2>6, <2>7, <2>8, <2>9 DEF IInv
<1> QED
  BY <1>1, <1>2

\* A step of the finance server, for any body that may arrive.
FinanceStep ==
    \/ \E r \in Req, q \in Bodies : Receive(r, q)
    \/ \E r \in Req : Step(r) \/ Commit(r) \/ Discard(r)
    \/ EnrollAdminStep
    \/ Crash

\* Every step of the finance server keeps the invariant.
LEMMA FinanceStepIInv == IInv /\ (FinanceStep \/ UNCHANGED vars) => IInv'
<1> SUFFICES ASSUME IInv, FinanceStep \/ UNCHANGED vars PROVE IInv'
  OBVIOUS
<1>1. CASE \E r \in Req, q \in Bodies : Receive(r, q)
  BY <1>1, ReceiveStep
<1>2. ASSUME NEW r \in Req, Step(r) PROVE IInv'
  <2>1. CASE \/ NameExists(r) \/ AdminExists(r) \/ CaConnect(r) \/ Register(r)
             \/ RegisterLost(r) \/ Enroll(r) \/ Import(r)
             \/ Throw(r) /\ pc[r] \in RegisterSteps
    BY <2>1, RegisterStep
  <2>2. CASE \/ Exists(r) \/ Connect(r) \/ Submit(r) \/ Committed(r) \/ Disconnect(r)
             \/ Throw(r) /\ pc[r] \notin RegisterSteps
    BY <2>2, SubmitStep
  <2> QED
    BY <1>2, <2>1, <2>2 DEF Step
<1>3. CASE \E r \in Req : Commit(r) \/ Discard(r)
  BY <1>3, ChannelStep
<1>4. CASE EnrollAdminStep
  BY <1>4, EnrollAdminKeeps
<1>5. CASE Crash
  BY <1>5, CrashStep
<1>6. CASE UNCHANGED vars
  <2>1. \A r \in Req : Took(r)' = Took(r)
    BY <1>6 DEF Took, vars
  <2>2. Typed' /\ OneEnrolls'
    BY <1>6 DEF IInv, Typed, OneEnrolls, Enrolling, vars
  <2>3. Begun' /\ ReportedTook'
    BY <1>6, <2>1 DEF IInv, Begun, Vouched, ReportedTook, vars
  <2>4. LedgerExplained'
    BY <1>6, <2>1 DEF IInv, LedgerExplained, vars
  <2> QED
    BY <2>2, <2>3, <2>4 DEF IInv
<1> QED
  BY <1>1, <1>2, <1>3, <1>4, <1>5, <1>6 DEF FinanceStep

\* The bodies of Http may arrive.
LEMMA NextIsFinanceStep == Next => FinanceStep
BY HttpAssumption DEF Next, FinanceStep, Bodies

\* The invariant holds along the finance server's behaviours.
LEMMA SpecIInv == Spec => []IInv
<1>1. IInv /\ [Next]_vars => IInv'
  BY NextIsFinanceStep, FinanceStepIInv
<1> QED
  BY InitIInv, <1>1, PTL DEF Spec

\* Once a request has arrived its content stays, and so does the fact that it has.
LEMMA ArrivedStays ==
    ASSUME IInv, FinanceStep \/ UNCHANGED vars, NEW r \in Req, pc[r] # "idle"
    PROVE  pc'[r] # "idle" /\ http'[r] = http[r]
<1>1. pc \in [Req -> RegisterSteps \cup SubmitSteps \cup {"idle", "answered", "lost"}]
  BY DEF IInv, Typed
<1>2. ASSUME NEW q \in Req, NEW b \in Bodies, Receive(q, b)
      PROVE  pc'[r] # "idle" /\ http'[r] = http[r]
  BY <1>1, <1>2 DEF Receive, At, Goto, IInv, Typed
<1>3. ASSUME NEW q \in Req, Step(q) PROVE pc'[r] # "idle" /\ http'[r] = http[r]
  <2>1. http' = http
    BY <1>3 DEF Step, NameExists, AdminExists, CaConnect, Register, RegisterLost, Enroll,
                Import, Exists, Connect, Submit, Committed, Disconnect, Throw
  <2>2. \E step \in RegisterSteps \cup SubmitSteps \cup {"answered"} :
           pc' = [pc EXCEPT ![q] = step]
    BY <1>3 DEF Step, NameExists, AdminExists, CaConnect, Register, RegisterLost, Enroll,
                Import, Exists, Connect, Submit, Committed, Disconnect, Throw, Goto, Proceed,
                ReturnRegister, ReturnSubmit, RegisterSteps, SubmitSteps
  <2> QED
    BY <1>1, <2>1, <2>2 DEF RegisterSteps, SubmitSteps
<1>4. ASSUME NEW q \in Req, Commit(q) \/ Discard(q)
      PROVE  pc'[r] # "idle" /\ http'[r] = http[r]
  BY <1>4 DEF Commit, Discard
<1>5. CASE EnrollAdminStep
  BY <1>5 DEF EnrollAdminStep, EnrollAdmin
<1>6. CASE Crash
  BY <1>6 DEF Crash
<1>7. CASE UNCHANGED vars
  BY <1>7 DEF vars
<1> QED
  BY <1>2, <1>3, <1>4, <1>5, <1>6, <1>7 DEF FinanceStep

----------------------------------------------------------------------------
(* The finance server *)

\* Every account belongs to an enrolled user.
LEMMA IInvIdentity == IInv => IdentityBehindAccount
<1> SUFFICES ASSUME IInv PROVE IdentityBehindAccount
  OBVIOUS
<1>1. ASSUME NEW k \in Key \ {Admin}, ledger[k] # Empty PROVE k \in wallet
  <2>1. PICK r \in Req : Took(r) /\ http[r].route = "/createaccount" /\ http[r].name = k
    BY <1>1 DEF IInv, LedgerExplained
  <2>2. Identity(http[r]) \in wallet
    BY <2>1 DEF IInv, Begun, Vouched
  <2> QED
    BY <2>1, <2>2 DEF Identity
<1> QED
  BY <1>1 DEF IInv, OneEnrolls, IdentityBehindAccount

\* Whatever crashes or fails between registerUser and create_account, an
\* account has its identity in the wallet.
THEOREM AccountsHaveIdentities == Spec => []IdentityBehindAccount
BY SpecIInv, IInvIdentity, PTL

\* A request that is told success has had its effect.
LEMMA IInvSuccess == IInv => SuccessIsReal
BY DEF IInv, ReportedTook, LedgerExplained, SuccessIsReal, Took

\* A success that the finance server reports is real, and of the requests for
\* one name only the one whose deposit the account holds is told so.
THEOREM ReportsAreTrue == Spec => []SuccessIsReal
BY SpecIInv, IInvSuccess, PTL

\* No import of an identity replaces one.
THEOREM ImportsNeverOverwrite == Spec => NoOverwrite
<1>1. IInv /\ [Next]_vars =>
        [\A r \in Req : At(r, "import") /\ msg1'[r] = "registered" /\ msg1[r] # "registered"
              => http[r].name \notin wallet]_vars
  BY DEF IInv, OneEnrolls, Enrolling, At
<1> QED
  BY SpecIInv, <1>1, PTL DEF Spec, NoOverwrite

\* A name whose secret is lost gets neither an identity nor an account: it
\* would have to be registered again, or imported by a request that holds its
\* secret, and there is none.
LEMMA AbandonedStays ==
    ASSUME IInv, IInv', FinanceStep \/ UNCHANGED vars, NEW k \in Key \ {Admin}, Abandoned(k)
    PROVE  Abandoned(k)' /\ ledger'[k] = Empty
<1> USE DEF Abandoned
<1>1. pc \in [Req -> RegisterSteps \cup SubmitSteps \cup {"idle", "answered", "lost"}]
  BY DEF IInv, Typed
<1>2. ASSUME NEW r \in Req, NEW q \in Bodies, Receive(r, q) PROVE Abandoned(k)'
  <2>1. /\ UNCHANGED <<wallet, registered>>
        /\ http' = [http EXCEPT ![r] = q] /\ http \in [Req -> Bodies \cup {NoBody}]
        /\ \E step \in {"answered", "name_exists", "exists"} : pc' = [pc EXCEPT ![r] = step]
    BY <1>2 DEF Receive, Goto, durableVars, IInv, Typed
  <2> QED
    BY <1>1, <2>1
<1>3. ASSUME NEW r \in Req, Step(r) PROVE Abandoned(k)'
  <2>1. CASE Import(r)
    <3>1. /\ http[r].name # k /\ UNCHANGED <<registered, http>>
          /\ wallet' = wallet \cup {http[r].name} /\ pc' = [pc EXCEPT ![r] = "exists"]
      BY <2>1 DEF Import, At, ReturnRegister, Goto
    <3> QED
      BY <1>1, <3>1
  <2>2. CASE Register(r)
    <3>1. /\ UNCHANGED <<wallet, http>> /\ registered \subseteq registered'
          /\ \/ pc' = [pc EXCEPT ![r] = "exists"]
             \/ pc' = [pc EXCEPT ![r] = "enroll"] /\ http[r].name \notin registered
      BY <2>2 DEF Register, ReturnRegister, Proceed, Goto
    <3> QED
      BY <1>1, <3>1
  <2>3. CASE Enroll(r)
    <3>1. /\ UNCHANGED <<wallet, http, registered>>
          /\ pc[r] = "enroll" /\ pc' = [pc EXCEPT ![r] = "import"]
      BY <2>3 DEF Enroll, At, Proceed, Goto, durableVars
    <3> QED
      BY <1>1, <3>1
  <2>4. CASE \/ NameExists(r) \/ AdminExists(r) \/ CaConnect(r) \/ RegisterLost(r)
             \/ Exists(r) \/ Connect(r) \/ Submit(r) \/ Committed(r) \/ Disconnect(r)
             \/ Throw(r)
    <3>1. UNCHANGED <<wallet, http>> /\ registered \subseteq registered'
      BY <2>4 DEF NameExists, AdminExists, CaConnect, RegisterLost, Exists, Connect, Submit,
                  Committed, Disconnect, Throw, durableVars
    <3>2. \E step \in (RegisterSteps \cup SubmitSteps \cup {"answered"}) \ {"enroll", "import"} :
             pc' = [pc EXCEPT ![r] = step]
      BY <2>4 DEF NameExists, AdminExists, CaConnect, RegisterLost, Exists, Connect, Submit,
                  Committed, Disconnect, Throw, Goto, Proceed, ReturnRegister, ReturnSubmit,
                  RegisterSteps, SubmitSteps
    <3> QED
      BY <1>1, <3>1, <3>2
  <2> QED
    BY <1>3, <2>1, <2>2, <2>3, <2>4 DEF Step
<1>4. (\E r \in Req : Commit(r) \/ Discard(r)) => Abandoned(k)'
  BY DEF Commit, Discard
<1>5. EnrollAdminStep => Abandoned(k)'
  BY DEF EnrollAdminStep, EnrollAdmin
<1>6. Crash => Abandoned(k)'
  BY <1>1 DEF Crash, durableVars
<1>7. UNCHANGED vars => Abandoned(k)'
  BY DEF vars
<1>8. Abandoned(k)'
  BY <1>2, <1>3, <1>4, <1>5, <1>6, <1>7 DEF FinanceStep
<1>9. IdentityBehindAccount'
  BY IInvIdentity, PTL
<1> QED
  BY <1>8, <1>9 DEF IdentityBehindAccount

\* A registration that was cut short is not completed by anybody.
THEOREM AbandonedNamesStayOut == Spec => AbandonedStaysOut
<1>1. IInv /\ IInv' /\ [Next]_vars =>
        [\A k \in Key \ {Admin} : Abandoned(k) => Abandoned(k)' /\ ledger'[k] = Empty]_vars
  BY AbandonedStays, NextIsFinanceStep
<1> QED
  BY SpecIInv, <1>1, PTL DEF Spec, AbandonedStaysOut

\* An account exists exactly if one /createaccount request took effect for its
\* name, and holds the deposit of that request.
LEMMA IInvAccounts ==
    ASSUME IInv, NEW k \in Key \ {Admin}
    PROVE  \/ ledger[k] = Empty /\ Opened(k) = {}
           \/ \E r \in Req : Opened(k) = {r} /\ ledger[k] = http[r].value
<1>1. \A r \in Opened(k) : r \in Req /\ ledger[k] = http[r].value /\ ledger[k] # Empty
  BY ChainCodeAssumption DEF IInv, LedgerExplained, Opened, Took, JavaInt
<1>2. \A r, q \in Opened(k) : r = q
  BY DEF IInv, LedgerExplained, Opened
<1>3. ledger[k] # Empty => \E r \in Req : r \in Opened(k)
  BY DEF IInv, LedgerExplained, Opened
<1>4. CASE ledger[k] = Empty
  BY <1>1, <1>4
<1>5. CASE ledger[k] # Empty
  <2>1. PICK r \in Req : r \in Opened(k)
    BY <1>3, <1>5
  <2>2. Opened(k) = {r}
    BY <1>2, <2>1
  <2> QED
    BY <1>1, <2>1, <2>2
<1> QED
  BY <1>4, <1>5

\* What was issued, as the function BalancesExplained adds up.
Amounts == [r \in Issued |-> http[r].value]

\* The admin holds the sum of what was issued, give or take periods of an int;
\* only finitely many requests have taken effect at any time.
IssuedInv ==
    /\ IsFiniteSet(Issued)
    /\ \A r \in Issued : http[r].value \in JavaInt
    /\ (SumFunction(Amounts) - ledger[Admin]) % Period = 0

\* Nothing has been issued initially, and the admin has nothing.
LEMMA InitIssued == Init => IssuedInv
<1> SUFFICES ASSUME Init PROVE IssuedInv
  OBVIOUS
<1>1. done = {} /\ ledger = Deployed
  BY DEF Init, Ledger!Init
<1>2. Issued = {}
  BY <1>1 DEF Issued, Took
<1>3. SumFunction(Amounts) = 0
  BY <1>2, SumEmpty DEF Amounts
<1>4. ledger[Admin] = 0
  BY <1>1, DeployedState, ChainCodeAssumption
<1>5. (0 - 0) % Period = 0
  BY ChainCodeAssumption DEF Period
<1> QED
  BY <1>2, <1>3, <1>4, <1>5, FS_EmptySet DEF IssuedInv

\* An issuance that is committed adds its amount to both sides.
LEMMA IssuanceCommits ==
    ASSUME IInv, IssuedInv, NEW r \in Req, Commit(r), http[r].route = "/money_issuance"
    PROVE  IssuedInv'
<1> DEFINE amount == http[r].value
           old == ledger[Admin]
<1>1. /\ ~Took(r) /\ http' = http /\ done' = done \cup {Entry(r)} /\ Entry(r).tx = r
      /\ amount \in JavaInt
      /\ ledger' = [ledger EXCEPT ![Admin] = Wrap(amount + old)]
  BY CommitEffect DEF Commit
<1>2. ledger'[Admin] = Wrap(amount + old) /\ old \in JavaInt
  BY <1>1, ChainCodeAssumption DEF IInv, Typed
<1>3. \A q \in Req : Took(q)' <=> Took(q) \/ q = r
  BY <1>1 DEF Took
<1>4. Issued' = Issued \cup {r} /\ r \notin Issued
  BY <1>1, <1>3 DEF Issued
<1>5. IsFiniteSet(Issued') /\ \A q \in Issued' : http'[q].value \in JavaInt
  BY <1>1, <1>4, FS_AddElement DEF IssuedInv
<1>6. SumFunction(Amounts') = SumFunction(Amounts) + amount /\ SumFunction(Amounts) \in Int
  <2>1. /\ Amounts \in [Issued -> Int] /\ Amounts' \in [Issued \cup {r} -> Int]
        /\ Amounts'[r] = amount /\ \A q \in Issued : Amounts'[q] = Amounts[q]
    BY <1>1, <1>4, <1>5 DEF Amounts, IssuedInv, JavaInt
  <2>2. IsFiniteSet(Issued)
    BY DEF IssuedInv
  <2>3. SumFunction(Amounts') = SumFunction(Amounts) + Amounts'[r]
    <3> DEFINE new == Amounts'
    <3>1. /\ Amounts \in [Issued -> Int] /\ new \in [Issued \cup {r} -> Int]
          /\ \A q \in Issued : new[q] = Amounts[q]
      BY <2>1
    <3>2. r \notin Issued
      BY <1>4
    <3> HIDE DEF new
    <3>3. SumFunction(new) = SumFunction(Amounts) + new[r]
      BY <2>2, <3>1, <3>2, SumAdd
    <3> QED
      BY <3>3 DEF new
  <2>4. SumFunction(Amounts) \in Int
    BY <2>1, <2>2, SumType
  <2> QED
    BY <2>1, <2>3, <2>4
<1>7. PICK d \in {-Period, 0, Period} : Wrap(amount + old) = amount + old + d
  BY <1>1, <1>2, WrapPeriod
<1>8. Period \in Nat \ {0} /\ amount \in Int /\ old \in Int
  BY <1>1, <1>2, ChainCodeAssumption DEF Period, JavaInt
<1> DEFINE total == SumFunction(Amounts)
<1>9. (total - old) % Period = 0 /\ total \in Int
  BY <1>6 DEF IssuedInv
<1>10. (SumFunction(Amounts') - ledger'[Admin]) % Period = 0
  <2> HIDE DEF total, amount, old
  <2>1. SumFunction(Amounts') - ledger'[Admin] = (total - old) + (-d)
    BY <1>2, <1>6, <1>7, <1>8, <1>9 DEF total
  <2>2. -d \in {-Period, 0, Period} /\ total - old \in Int
    BY <1>8, <1>9
  <2>3. ((total - old) + (-d)) % Period = 0
    BY <1>8, <1>9, <2>2, PeriodShift
  <2> QED
    BY <2>1, <2>3
<1> QED
  BY <1>5, <1>10 DEF IssuedInv

\* Every other step leaves the issued amounts and the admin's balance alone.
LEMMA NothingIssued ==
    ASSUME IInv, IssuedInv, \A r \in Req : r \in Issued' <=> r \in Issued,
           \A r \in Issued : http'[r] = http[r],
           ledger'[Admin] = ledger[Admin]
    PROVE  IssuedInv'
<1>1. Issued' = Issued
  BY DEF Issued
<1>2. Amounts' = Amounts
  BY <1>1 DEF Amounts
<1> QED
  BY <1>1, <1>2 DEF IssuedInv

\* Every step of the finance server keeps both invariants.
LEMMA FinanceStepIssued ==
    ASSUME IInv, IssuedInv, FinanceStep \/ UNCHANGED vars
    PROVE  IssuedInv'
<1>1. ASSUME NEW r \in Req, Commit(r) PROVE IssuedInv'
  <2>1. CASE http[r].route = "/money_issuance"
    BY <1>1, <2>1, IssuanceCommits
  <2>2. CASE http[r].route # "/money_issuance"
    <3>a. ledger \in [Key -> Value] /\ http' = http
      BY <1>1 DEF Commit, IInv, Typed
    <3>b. done' = done \cup {Entry(r)} /\ Entry(r).tx = r
      BY <1>1, CommitEffect
    <3>c. \/ /\ http[r].name \in Key \ {Admin}
             /\ ledger' = [ledger EXCEPT ![http[r].name] = http[r].value]
          \/ ledger' = ledger
      BY <1>1, <2>2, CommitEffect
    <3>1. /\ done' = done \cup {Entry(r)} /\ Entry(r).tx = r /\ http' = http
          /\ ledger'[Admin] = ledger[Admin]
      BY <3>a, <3>b, <3>c, ChainCodeAssumption
    <3>2. \A q \in Req : q \in Issued' <=> q \in Issued
      BY <2>2, <3>1 DEF Issued, Took
    <3> QED
      BY <3>1, <3>2, NothingIssued
  <2> QED
    BY <2>1, <2>2
<1>2. CASE ~\E r \in Req : Commit(r)
  <2>1. UNCHANGED <<ledger, done>>
    BY <1>2 DEF FinanceStep, Step, NameExists, AdminExists, CaConnect, Register, RegisterLost,
                Enroll, Import, Exists, Connect, Submit, Committed, Disconnect, Throw, Receive,
                Discard, EnrollAdminStep, EnrollAdmin, Crash, durableVars, ledgerVars, vars
  <2>2. \A r \in Req : Took(r)' = Took(r)
    BY <2>1 DEF Took
  <2>3. \A r \in Req : Took(r) => http'[r] = http[r]
    BY ArrivedStays DEF IInv, Begun
  <2>4. \A r \in Req : r \in Issued' <=> r \in Issued
    BY <2>2, <2>3 DEF Issued
  <2>5. \A r \in Issued : http'[r] = http[r]
    BY <2>3 DEF Issued
  <2> QED
    BY <2>1, <2>4, <2>5, NothingIssued
<1> QED
  BY <1>1, <1>2

\* Every balance is explained by the requests that took effect: an account is
\* there exactly if one /createaccount request opened it and holds its deposit,
\* and the admin holds the sum of what was issued, modulo the period of an int.
THEOREM BalancesAlwaysExplained == Spec => []BalancesExplained
<1>1. IInv /\ IssuedInv /\ [Next]_vars => IssuedInv'
  BY NextIsFinanceStep, FinanceStepIssued
<1>2. IInv /\ IssuedInv => BalancesExplained
  BY IInvAccounts DEF BalancesExplained, IssuedInv, Amounts, Period
<1> QED
  BY SpecIInv, InitIssued, <1>1, <1>2, PTL DEF Spec

----------------------------------------------------------------------------
(* The root server *)

\* What the root server has forwarded is what the finance server works on.
Forwarded ==
    /\ client \in [Req -> {"idle", "posting", "posted", "answered", "hung", "lost"}]
    /\ DOMAIN rootHttp = Req
    /\ \A r \in Req :
          /\ client[r] # "idle" => rootHttp[r] \in RootHttp
          /\ client[r] \in {"posting", "posted"} => rootHttp[r].route # "/pay"
          /\ \/ client[r] = "posted"
             \/ client[r] = "answered" /\ rootHttp[r].route # "/pay"
             => pc[r] # "idle" /\ http[r] = Forward(rootHttp[r])

\* The body of a forwarded request is one that may arrive.
LEMMA ForwardType ==
    ASSUME NEW q \in RootHttp
    PROVE  Forward(q) \in Bodies
<1>1. /\ q.route \in {"/register", "/balance_check", "/pay"}
      /\ q.name \in Key \cup {Missing}
      /\ q.deposit \in Int \cup {Empty, NotInt, Missing}
  BY RootHttpAssumption
<1> QED
  BY <1>1 DEF Forward, Bodies

\* Both invariants together.
RootIInv == IInv /\ Forwarded

\* A step of either server keeps both.
LEMMA RootStepIInv == RootIInv /\ [RootNext]_allVars => RootIInv'
<1> SUFFICES ASSUME RootIInv, [RootNext]_allVars PROVE RootIInv'
  OBVIOUS
<1> USE DEF RootIInv
<1>1. ASSUME NEW r \in Req, NEW q \in RootHttp, RootReceive(r, q)
      PROVE  Forwarded' /\ UNCHANGED vars
  <2>1. UNCHANGED <<pc, http>> /\ client[r] = "idle"
    BY <1>1 DEF RootReceive, vars
  <2>2. /\ client' = [client EXCEPT ![r] = IF q.route = "/pay" THEN "answered" ELSE "posting"]
        /\ rootHttp' = [rootHttp EXCEPT ![r] = q]
    BY <1>1 DEF RootReceive
  <2> QED
    BY <1>1, <2>1, <2>2 DEF Forwarded, RootReceive
<1>2. ASSUME NEW r \in Req, Post(r)
      PROVE  Forwarded' /\ FinanceStep
  <2>1. /\ client[r] = "posting" /\ Receive(r, Forward(rootHttp[r]))
        /\ client' = [client EXCEPT ![r] = "posted"] /\ rootHttp' = rootHttp
    BY <1>2 DEF Post
  <2>2. Forward(rootHttp[r]) \in Bodies
    BY <2>1, ForwardType DEF Forwarded
  <2>3. FinanceStep
    BY <2>1, <2>2 DEF FinanceStep
  <2>4. /\ pc'[r] # "idle" /\ http'[r] = Forward(rootHttp[r])
        /\ \A p \in Req \ {r} : pc'[p] = pc[p] /\ http'[p] = http[p]
    BY <2>1 DEF Receive, Goto, IInv, Typed
  <2> QED
    BY <2>1, <2>3, <2>4 DEF Forwarded
<1>3. ASSUME NEW r \in Req, Reply(r) \/ Reject(r)
      PROVE  Forwarded' /\ UNCHANGED vars
  <2>1. UNCHANGED <<pc, http, rootHttp>> /\ UNCHANGED vars
    BY <1>3 DEF Reply, Reject, vars
  <2>2. /\ client' \in [Req -> {"idle", "posting", "posted", "answered", "hung", "lost"}]
        /\ \A p \in Req : \/ client'[p] = client[p]
                          \/ client'[p] = "answered" /\ client[p] = "posted"
                          \/ client'[p] \in {"hung", "lost"} /\ client[p] # "idle"
    BY <1>3 DEF Reply, Reject, Waiting, Forwarded
  <2> QED
    BY <2>1, <2>2 DEF Forwarded
<1>4. ASSUME NEW r \in Req, NEW q \in Http, Direct(r, q)
      PROVE  UNCHANGED rootVars /\ FinanceStep
  BY <1>4, HttpAssumption DEF Direct, FinanceStep, Bodies
<1>5. ASSUME FinanceStep \/ UNCHANGED vars, UNCHANGED rootVars
      PROVE  RootIInv'
  <2>1. \A r \in Req : pc[r] # "idle" => pc'[r] # "idle" /\ http'[r] = http[r]
    BY <1>5, ArrivedStays
  <2>2. Forwarded'
    BY <1>5, <2>1 DEF Forwarded, rootVars
  <2> QED
    BY <1>5, <2>2, FinanceStepIInv
<1>6. CASE UNCHANGED allVars
  BY <1>5, <1>6 DEF allVars
<1>7. CASE RootNext
  <2>1. CASE \E r \in Req, q \in RootHttp : RootReceive(r, q)
    BY <1>1, <2>1, FinanceStepIInv
  <2>2. CASE \E r \in Req, q \in Http : Direct(r, q)
    BY <1>4, <1>5, <2>2
  <2>3. CASE \E r \in Req : RootStep(r)
    BY <1>2, <1>3, <2>3, FinanceStepIInv DEF RootStep
  <2>4. CASE /\ \/ \E r \in Req : Step(r) \/ Commit(r) \/ Discard(r)
                \/ EnrollAdminStep
                \/ Crash
             /\ UNCHANGED rootVars
    BY <1>5, <2>4 DEF FinanceStep
  <2> QED
    BY <1>7, <2>1, <2>2, <2>3, <2>4 DEF RootNext
<1> QED
  BY <1>6, <1>7

\* Both hold along the root server's behaviours.
LEMMA RootSpecIInv == RootSpec => []RootIInv
<1>1. RootInit => RootIInv
  <2> SUFFICES ASSUME RootInit PROVE RootIInv
    OBVIOUS
  <2>1. IInv
    BY InitIInv DEF RootInit
  <2>2. Forwarded
    BY DEF RootInit, Forwarded
  <2> QED
    BY <2>1, <2>2 DEF RootIInv
<1> QED
  BY <1>1, RootStepIInv, PTL DEF RootSpec

\* What a client is told across both servers is so.
THEOREM ClientsAreToldTheTruth == RootSpec => []ToldTheTruth
<1>1. ASSUME RootIInv, NEW r \in Req, Told(r), rootHttp[r].route \in {"/register", "/balance_check"}
      PROVE  /\ Took(r) /\ http[r] = Forward(rootHttp[r])
             /\ Identity(http[r]) \in wallet
  <2>1. http[r] = Forward(rootHttp[r])
    BY <1>1 DEF RootIInv, Forwarded, Told
  <2>2. Took(r)
    BY <1>1 DEF Told, RootIInv, IInv, ReportedTook
  <2> QED
    BY <1>1, <2>1, <2>2 DEF RootIInv, IInv, Begun, Vouched
<1>2. ASSUME RootIInv, NEW r \in Req, Told(r), rootHttp[r].route = "/register"
      PROVE  rootHttp[r].name \in wallet /\ ledger[rootHttp[r].name] = rootHttp[r].deposit
  <2>1. /\ http[r].route = "/createaccount" /\ http[r].name = rootHttp[r].name
        /\ http[r].value = rootHttp[r].deposit
    <3>1. http[r] = Forward(rootHttp[r])
      BY <1>1, <1>2
    <3> QED
      BY <1>2, <3>1 DEF Forward
  <2>2. rootHttp[r].name \in wallet
    BY <1>1, <1>2, <2>1 DEF Identity
  <2>3. SuccessIsReal
    BY <1>2, IInvSuccess DEF RootIInv
  <2> QED
    BY <1>2, <2>1, <2>2, <2>3 DEF SuccessIsReal, Told
<1>3. ASSUME RootIInv, NEW r \in Req, Told(r), rootHttp[r].route = "/balance_check",
             rootHttp[r].name # Admin
      PROVE  \E d \in done : d.tx = r /\ d.payload = ledger[rootHttp[r].name]
  <2>1. http[r].route = "/balance_check" /\ http[r].name = rootHttp[r].name
    <3>1. http[r] = Forward(rootHttp[r])
      BY <1>1, <1>3
    <3> QED
      BY <1>3, <3>1 DEF Forward
  <2>2. PICK d \in done : d.tx = r
    BY <1>1, <1>3 DEF Took
  <2> QED
    BY <1>3, <2>1, <2>2 DEF RootIInv, IInv, LedgerExplained
<1>4. RootIInv => ToldTheTruth
  BY <1>2, <1>3 DEF ToldTheTruth
<1> QED
  BY RootSpecIInv, <1>4, PTL
=============================================================================
